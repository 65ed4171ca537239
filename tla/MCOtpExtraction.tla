--------------------------- MODULE MCOtpExtraction ---------------------------
(* OtpExtraction on a sample of calls: every check fails for one of them. *)
EXTENDS OtpExtraction

\* JBSWY3DPEHPK3PXP, and texts that differ from it in one respect.
Key1 == [digits |-> <<9, 1, 18, 22, 24, 27, 3, 15, 4, 7, 15, 10, 27, 15, 23, 15>>,
           pad |-> 0, clean |-> TRUE, lower |-> FALSE, blank |-> "no", raw |-> 16]
Short  == [Key1 EXCEPT !.digits = SubSeq(@, 1, 8), !.raw = 8]
Padded == [Key1 EXCEPT !.digits = SubSeq(@, 1, 13), !.pad = 3]
\* With many blanks, and next to nothing.
Long   == [Key1 EXCEPT !.blank = "around", !.raw = 129]
Empty  == [Key1 EXCEPT !.digits = <<>>, !.raw = 0]

Texts ==
    {Key1, Short, Padded, Long, Empty,
     [Key1 EXCEPT !.lower = TRUE], [Key1 EXCEPT !.clean = FALSE],
     [Key1 EXCEPT !.pad = 4], [Padded EXCEPT !.pad = 2]}
    \cup {[Key1 EXCEPT !.blank = b, !.raw = 17] : b \in {"around", "inside"}}

Totp == [prefix |-> "otpauth", type |-> "totp", secret |-> Key1, algorithm |-> None,
         digits |-> None, period |-> None, counter |-> None, raw |-> 40]
Endless == [Totp EXCEPT !.raw = 2049]
Fast == [Totp EXCEPT !.period = 15, !.digits = 8]
Hotp == [Totp EXCEPT !.type = "hotp", !.counter = 42]
Negative == [Hotp EXCEPT !.counter = -1]

Uris ==
    {Totp, Fast, Hotp, Negative, Endless,
     [Hotp EXCEPT !.counter = None], [Totp EXCEPT !.type = "other"],
     [Totp EXCEPT !.algorithm = "MD5"], [Totp EXCEPT !.digits = 7],
     [Totp EXCEPT !.period = 45], [Totp EXCEPT !.secret = None]}
    \cup {[Totp EXCEPT !.prefix = p] : p \in {"blank", "other"}}
    \cup {[Totp EXCEPT !.secret = t] : t \in Texts}

Image0 == [readable |-> TRUE, tooLarge |-> FALSE, contents |-> <<Totp>>, raw |-> 400,
           header |-> 22]
Tiny == [Image0 EXCEPT !.readable = FALSE, !.raw = 15]

Images ==
    {Image0, Tiny, [Image0 EXCEPT !.readable = FALSE], [Image0 EXCEPT !.tooLarge = TRUE]}
    \cup {[Image0 EXCEPT !.contents = c] : c \in {<<>>, <<None>>, <<None, Hotp>>, <<Endless>>}}

Nothing == Bare(None)

OfUri(u) == [Nothing EXCEPT !.uri = u]
OfImage(m) == [Nothing EXCEPT !.image = m]
Parameters(i) == {i, [i EXCEPT !.digits = 7], [i EXCEPT !.period = 15],
                  [i EXCEPT !.period = 45], [i EXCEPT !.counter = 1],
                  [i EXCEPT !.counter = -1]}

Inputs == {OfUri(Totp), OfUri(Negative), OfUri(Endless), OfImage(Image0), Nothing,
           Bare(Key1), Bare(Long), [Bare(Key1) EXCEPT !.counter = -1],
           OfImage([Image0 EXCEPT !.readable = FALSE]),
           [Bare(Key1) EXCEPT !.algorithm = "MD5"], [Bare(Key1) EXCEPT !.period = 45]}

BatchItems ==
    {OfUri(Fast), OfUri(Negative), OfImage(Image0), Nothing, Bare(Long), OfUri(Endless),
     [Bare(Key1) EXCEPT !.digits = 12],
     [Bare(Key1) EXCEPT !.kind = "secret", !.period = 30],
     [OfUri(Totp) EXCEPT !.kind = "secret"],
     [Bare(Key1) EXCEPT !.kind = "uri"],
     [OfImage(Image0) EXCEPT !.kind = "other"],
     [OfUri([Totp EXCEPT !.prefix = "blank"]) EXCEPT !.secret = Key1]}

Single(endpoint, items) == {[endpoint |-> endpoint, items |-> <<i>>] : i \in items}

MCCalls ==
    UNION {
        Single("from-uri", {OfUri(u) : u \in Uris}),
        Single("from-secret", UNION {Parameters(Bare(t)) : t \in Texts}),
        Single("from-secret", {[Bare(Key1) EXCEPT !.algorithm = "MD5"]}),
        Single("from-qr", {OfImage(m) : m \in {x \in Images : x.readable}}),
        Single("from-qr-base64", {OfImage(m) : m \in Images}),
        Single("from-string", {OfUri(u) : u \in Uris} \cup {OfImage(m) : m \in Images}
                                \cup {Bare(t) : t \in Texts}),
        Single("parse", {[OfUri(Hotp) EXCEPT !.counter = -7], OfUri(Negative), [OfUri(Hotp) EXCEPT !.counter = 7], Bare(Key1),
                         [OfUri(Totp) EXCEPT !.secret = Key1], Nothing}),
        Single("code", Inputs \cup {[OfUri(Totp) EXCEPT !.secret = Key1]}),
        Single("show", {[i EXCEPT !.show = b] : i \in Inputs, b \in BOOLEAN}),
        Single("parse", {[OfUri(Hotp) EXCEPT !.show = TRUE]}),
        {[endpoint |-> "batch", items |-> <<i, j>>] : i, j \in BatchItems},
        {[endpoint |-> "batch", items |-> [n \in 1..len |-> Nothing]] : len \in {3, 4}}}

Settings0 == [algorithm |-> "SHA1", digits |-> 6, period |-> 30, qr |-> TRUE]

MCConfigured ==
    {Settings0, [Settings0 EXCEPT !.qr = FALSE, !.algorithm = "SHA512"],
     [Settings0 EXCEPT !.period = 45]}
=============================================================================
