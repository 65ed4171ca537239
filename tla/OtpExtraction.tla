---------------------------- MODULE OtpExtraction ----------------------------
(***************************************************************************)
(* A call of one of the /v1/otp endpoints (routes.py) or of a command      *)
(* (cli.py): its request model takes or refuses it (models.py), its input  *)
(* is recognised and validated (validators.py), turned into a              *)
(* configuration and a code (otp.py), and answered; a batch does this for  *)
(* one item after the other.  Endpoints run in worker threads and share    *)
(* nothing but the clock, which they read three times: for the code, for   *)
(* the seconds it has left, and for the time of the answer.                *)
(*                                                                         *)
(* HMAC and the truncation to digits are external: a code is the key and   *)
(* the moving factor they are applied to.  Labels and issuers are left out, *)
(* and the exit status of a command: 0, 2 for a usage error, otherwise 1.  *)
(***************************************************************************)
EXTENDS Integers, Sequences, FiniteSetsExt, Functions, Base32

CONSTANTS Calls,     \* calls a client may make, members of Call
          Configured,\* values of the settings, members of Settings
          MaxBatch,  \* max_batch_size
          MaxItems,  \* the most items the model of a batch takes
          MinTime,   \* bounds of the clock, in seconds since the epoch
          MaxTime,
          None

SupportedDigits == {6, 8}
SupportedPeriods == {15, 30, 60, 90, 120, 300}
SupportedAlgorithms == {"SHA1", "SHA256", "SHA512"}

ASSUME ConstantsAssumption ==
    /\ MaxBatch \in Nat \ {0}
    /\ MaxItems \in Nat \ {0}
    /\ MinTime \in Nat
    /\ MaxTime \in Nat
    /\ MinTime <= MaxTime

-----------------------------------------------------------------------------
(* Inputs *)

\* A string as the base32 checks see it: its digits and its padding; clean if
\* it has no other character; in lower case; with blanks; and its length as sent.
Text == [digits : Seq(0..31), pad : Nat, clean : BOOLEAN, lower : BOOLEAN,
         blank : {"no", "around", "inside"}, raw : Nat]

Optional(S) == S \cup {None}

\* A URI, its query parsed: one with prefix "other" is of another scheme or has
\* no type, and a number that does not parse is None (_safe_int).
Uri == [prefix    : {"otpauth", "blank", "other"},  \* what it starts with
        type      : {"totp", "hotp", "other"},
        secret    : Optional(Text),
        algorithm : Optional(SupportedAlgorithms \cup {"MD5"}),
        digits    : Optional(Int),
        period    : Optional(Int),
        counter   : Optional(Int),
        raw       : Nat]

\* An image: whether it is base64, or a file that can be read; what the QR decoder
\* reads in it, None for other text; its length as base64, and that of the header
\* of a data URI.
Image == [readable : BOOLEAN, tooLarge : BOOLEAN, contents : Seq(Optional(Uri)),
          raw : Nat, header : Nat]

\* The payload of an endpoint, or one item of a batch.  The string given to
\* from-string is in the field of what it looks like, any other text a secret.
Item == [kind      : {"auto", "uri", "secret", "qr_base64", "other"},
         uri       : Optional(Uri),
         secret    : Optional(Text),
         image     : Optional(Image),
         algorithm : Optional(SupportedAlgorithms \cup {"MD5"}),
         digits    : Optional(Int),
         period    : Optional(Int),
         counter   : Optional(Int),
         show      : BOOLEAN]  \* redact=false of parse, --show-secret

\* "code" and "show" are the commands code and parse.
Call == [endpoint : {"from-uri", "from-secret", "from-qr", "from-qr-base64", "from-string",
                     "parse", "batch", "code", "show"},
         items    : Seq(Item)]

Settings == [algorithm : SupportedAlgorithms, digits : Int, period : Int, qr : BOOLEAN]

Config == [type : {"totp", "hotp"}, secret : Text, algorithm : SupportedAlgorithms,
           digits : Int, period : Int, counter : Optional(Int)]

Code == [key : Seq(0..255), moving : Nat]

Errors == {"invalid_otp_input", "invalid_secret", "invalid_otp_uri",
           "unsupported_algorithm", "unsupported_digits", "unsupported_period",
           "qr_decode_failed", "qr_decoder_disabled", "qr_image_too_large",
           "batch_too_large", "validation_error", "usage", "unexpected"}

\* An answer, or the result of one item of a batch; codedAt, the time its code was
\* computed at, is no part of the answer.
Result == [error : Optional(Errors), config : Optional(Config), code : Optional(Code),
           codedAt : Optional(Nat), secret : Optional(Text), remaining : Optional(Int),
           at : Optional(Nat)]

\* Required fields are there, a batch has an item and every other call is one
\* input; an upload needs no decoding.
ASSUME InputsAssumption ==
    /\ None \notin Int \cup SupportedAlgorithms \cup Errors \cup Text \cup Uri \cup Image
    /\ Configured \subseteq Settings
    /\ Calls \subseteq Call
    /\ \A c \in Calls :
          /\ c.items # <<>> /\ (c.endpoint # "batch" => Len(c.items) = 1)
          /\ \A n \in DOMAIN c.items :
                /\ c.endpoint = "from-uri" => c.items[n].uri # None
                /\ c.endpoint = "from-secret" => c.items[n].secret # None /\ c.items[n].uri = None
                /\ c.endpoint \in {"from-qr", "from-qr-base64"} => c.items[n].image # None
                /\ c.endpoint = "from-qr" => c.items[n].image.readable
                /\ c.endpoint = "from-string" =>
                      Cardinality({x \in {"uri", "secret", "image"} : c.items[n][x] # None}) = 1

VARIABLES clock,      \* time.time(), in seconds
          settings,   \* the settings the calls below depend on
          call,       \* the call being served
          pc,         \* "start", "extract", "respond", "stamp" or "done"
          pending,    \* the answer to the current item, as far as it is made
          results,    \* results of the items before it
          succeeded,  \* counters of the batch
          failed,
          status      \* HTTP status, 0 while the call is served

vars == <<clock, settings, call, pc, pending, results, succeeded, failed, status>>

\* Every variable has its type (models.py OtpCodeResponse, OtpBatchResponse).
TypeOK ==
    /\ clock \in MinTime..MaxTime
    /\ settings \in Configured
    /\ call \in Calls
    /\ pc \in {"start", "extract", "respond", "stamp", "done"}
    /\ pending \in Optional(Result)
    /\ results \in Seq(Result)
    /\ succeeded \in Nat
    /\ failed \in Nat
    /\ status \in {0, 200, 400, 413, 422, 500, 503}

Init ==
    /\ clock \in MinTime..MaxTime
    /\ settings \in Configured
    /\ call \in Calls
    /\ pc = "start"
    /\ pending = None
    /\ results = <<>>
    /\ succeeded = 0
    /\ failed = 0
    /\ status = 0

-----------------------------------------------------------------------------
(* validators.py *)

\* A check that raises an error when its condition does not hold.
Raises(error, condition) == IF condition THEN None ELSE error

\* The first check that fails raises its error.
FirstError(checks) ==
    LET failing == {i \in DOMAIN checks : checks[i] # None} IN
    IF failing = {} THEN None ELSE checks[Min(failing)]

Outcome(error, config) ==
    [error |-> error, config |-> IF error = None THEN config ELSE None]

Length(t) == Len(t.digits) + t.pad

\* normalize_secret: blanks go, letters become capitals.
Normalized(t) == [t EXCEPT !.lower = FALSE, !.blank = "no", !.raw = Length(t)]

\* is_valid_base32: the pattern, then b32decode, which wants groups of eight.
IsValidBase32(t) ==
    /\ t.clean /\ ~t.lower /\ t.blank = "no" /\ t.digits # <<>>
    /\ Length(t) % 8 = 0
    /\ t.pad \in {0, 1, 3, 4, 6}

ValidSecret(t, minLength) ==
    t # None /\ IsValidBase32(Normalized(t)) /\ Length(t) >= minLength

Default(value, default) == IF value = None THEN default ELSE value

ValidAlgorithm(a) == Default(a, settings.algorithm) \in SupportedAlgorithms

ValidDigits(d) == Default(d, settings.digits) \in SupportedDigits

\* Mutant: the configured default is taken without a check.
ValidPeriodIfGiven(p) == p # None => p \in SupportedPeriods

ValidPeriod(p) == Default(p, settings.period) \in SupportedPeriods

\* detect_input_kind of a text: capitals, blanks around it only, 16 or more.
LooksLikeSecret(t) ==
    /\ t.blank # "inside" /\ IsValidBase32([t EXCEPT !.blank = "no"])
    /\ Length(t) >= 16

-----------------------------------------------------------------------------
(* otp.py: the configuration for an input, or the error *)

\* Mutant: the period of a HOTP URI stays empty.
UriPeriodAsParsed(u) == IF u.type = "hotp" THEN None ELSE Default(u.period, settings.period)

\* _config_from_parsed: a HOTP URI has no period of its own.
UriPeriod(u) == IF u.type = "hotp" THEN settings.period ELSE Default(u.period, settings.period)

\* extract_code_from_uri up to the code: parse_otpauth_uri, _config_from_parsed.
FromUri(u) ==
    Outcome(FirstError(<<
        Raises("invalid_otp_uri", u.prefix = "otpauth"),
        Raises("invalid_otp_uri", u.secret # None),
        Raises("invalid_secret", u.secret # None => ValidSecret(u.secret, 8)),
        Raises("unsupported_algorithm", ValidAlgorithm(u.algorithm)),
        Raises("unsupported_digits", ValidDigits(u.digits)),
        Raises("unsupported_period", ValidPeriod(u.period)),
        Raises("invalid_otp_uri", u.type = "hotp" => u.counter # None),
        Raises("invalid_otp_uri", u.type # "other") >>),
      [type      |-> u.type,
       secret    |-> Normalized(u.secret),
       algorithm |-> Default(u.algorithm, settings.algorithm),
       digits    |-> Default(u.digits, settings.digits),
       period    |-> UriPeriod(u),
       counter   |-> IF u.type = "hotp" THEN u.counter ELSE None])

\* extract_code_from_secret up to the code: a counter makes it HOTP.
FromSecret(i) ==
    Outcome(FirstError(<<
        Raises("invalid_secret", ValidSecret(i.secret, 16)),
        Raises("unsupported_algorithm", ValidAlgorithm(i.algorithm)),
        Raises("unsupported_digits", ValidDigits(i.digits)),
        Raises("unsupported_period", ValidPeriod(i.period)) >>),
      [type      |-> IF i.counter = None THEN "totp" ELSE "hotp",
       secret    |-> Normalized(i.secret),
       algorithm |-> Default(i.algorithm, settings.algorithm),
       digits    |-> Default(i.digits, settings.digits),
       period    |-> Default(i.period, settings.period),
       counter   |-> i.counter])

\* The otpauth URIs among what the image holds.
Otpauth(image) ==
    {n \in DOMAIN image.contents : /\ image.contents[n] # None
                                   /\ image.contents[n].prefix = "otpauth"}

\* extract_code_from_qr: the first of them counts.
FromQr(image) ==
    LET error == FirstError(<<
                    Raises("invalid_otp_input", image.readable),
                    Raises("qr_decoder_disabled", settings.qr),
                    Raises("qr_image_too_large", ~image.tooLarge),
                    Raises("qr_decode_failed", Otpauth(image) # {}) >>)
    IN  IF error # None THEN Outcome(error, None)
        ELSE FromUri(image.contents[Min(Otpauth(image))])

\* Only the secret: what from-string passes on.
Bare(t) == [kind |-> "auto", uri |-> None, secret |-> t, image |-> None, algorithm |-> None,
            digits |-> None, period |-> None, counter |-> None, show |-> FALSE]

\* Mutant: the string is stripped before it is parsed, and a short one taken.
FromStringLenient(i) ==
    IF i.uri # None /\ i.uri.prefix # "other"
    THEN FromUri([i.uri EXCEPT !.prefix = "otpauth"])
    ELSE IF i.image # None THEN FromQr(i.image)
    ELSE IF i.secret # None /\ LooksLikeSecret(i.secret) THEN FromSecret(Bare(i.secret))
    ELSE Outcome("invalid_otp_input", None)

\* extract_code_from_string: detect_input_kind strips the string, what it then
\* calls is given the string as it came.
FromString(i) ==
    IF i.uri # None /\ i.uri.prefix # "other" THEN FromUri(i.uri)
    ELSE IF i.image # None THEN FromQr(i.image)
    ELSE IF i.secret # None /\ LooksLikeSecret(i.secret) THEN FromSecret(Bare(i.secret))
    ELSE Outcome("invalid_otp_input", None)

\* parse_only: one of uri and secret, and a counter that replaces the URI's.
Parse(i) ==
    IF (i.uri = None) = (i.secret = None) THEN Outcome("invalid_otp_input", None)
    ELSE IF i.uri = None THEN FromSecret(i)
    ELSE LET o == FromUri(i.uri) IN
         IF o.error = None /\ i.counter # None /\ o.config.type = "hotp"
         THEN [o EXCEPT !.config.counter = i.counter] ELSE o

\* _process_batch_item: the kind, or the first field an "auto" item has.
FromItem(i) ==
    LET auto   == i.kind = "auto"
        uri    == i.kind = "uri" \/ (auto /\ i.uri # None /\ i.uri.prefix = "otpauth")
        secret == ~uri /\ (i.kind = "secret" \/ (auto /\ i.secret # None))
        qr     == ~uri /\ ~secret /\ (i.kind = "qr_base64" \/ (auto /\ i.image # None))
    IN  CASE uri /\ i.uri # None -> FromUri(i.uri)
          [] secret -> FromSecret(i)
          [] qr /\ i.image # None -> FromQr(i.image)
          [] OTHER -> Outcome("invalid_otp_input", None)

Commands == {"code", "show"}

\* The calls that ask for the parameters and not for a code.
Parsing == call.endpoint \in {"parse", "show"}

\* The parser of the commands: one source (options are not empty here), and an
\* algorithm it knows.
ValidUsage(i) ==
    /\ Cardinality({x \in {"uri", "secret", "image"} : i[x] # None}) = 1
    /\ call.endpoint = "show" => i.image = None
    /\ i.algorithm \in Optional(SupportedAlgorithms)

\* cmd_code, after the parser; parameters only count for a secret.
Command(i) ==
    IF ~ValidUsage(i) THEN Outcome("usage", None)
    ELSE IF call.endpoint = "show" THEN Parse(i)
    ELSE IF i.uri # None THEN FromUri(i.uri)
    ELSE IF i.secret # None THEN FromSecret(i)
    ELSE IF i.image.readable THEN FromQr(i.image)
    ELSE Outcome("unexpected", None)

\* What an endpoint makes of an input that its request model takes.
Reads(endpoint, i) ==
    CASE endpoint = "from-uri"    -> FromUri(i.uri)
      [] endpoint = "from-secret" -> FromSecret(i)
      [] endpoint \in {"from-qr", "from-qr-base64"} -> FromQr(i.image)
      [] endpoint = "from-string" -> FromString(i)
      [] endpoint = "parse"       -> Parse(i)
      [] endpoint = "batch"       -> FromItem(i)
      [] endpoint \in Commands    -> Command(i)

Extracted(i) == Reads(call.endpoint, i)

\* build_pyotp encodes the text of the secret, and pyotp decodes that again.
Key(config) == Decode(Encode(Ascii(config.secret.digits, config.secret.pad)))

\* generate_code: now() or at(counter).
CodeAt(config, now) ==
    [key    |-> Key(config),
     moving |-> IF config.type = "totp" THEN now \div config.period ELSE config.counter]

\* Mutant: the slot is taken to end one second earlier.
RemainingShort(config, now) ==
    IF config.type = "totp" THEN config.period - 1 - (now % config.period) ELSE None

\* The redact flag of a parse request, which the command negates.
Redact(i) == ~i.show

\* The secret, which only parse_only can put into an answer.
Secret(i, config) == IF Parsing /\ ~Redact(i) THEN config.secret ELSE None

\* remaining_seconds.
Remaining(config, now) ==
    IF config.type = "totp" THEN config.period - (now % config.period) ELSE None

-----------------------------------------------------------------------------
(* models.py *)

\* The length of the string that from-string is given.
Sent(i) ==
    IF i.uri # None THEN i.uri.raw
    ELSE IF i.secret # None THEN i.secret.raw ELSE i.image.header + i.image.raw

\* The lengths the request models ask for; a batch, parse, an upload and the
\* commands take strings of any length.
Fits(endpoint, i) ==
    CASE endpoint = "from-uri"       -> i.uri.raw \in 8..2048
      [] endpoint = "from-secret"    -> i.secret.raw \in 4..128
      [] endpoint = "from-qr-base64" -> i.image.raw >= 16
      [] endpoint = "from-string"    -> Sent(i) \in 8..65536
      [] OTHER -> TRUE

Between(value, low, high) == value # None => low <= value /\ value <= high

\* What the request model of an endpoint takes; argparse takes any number.
Accepts(endpoint, i) ==
    /\ Fits(endpoint, i)
    /\ endpoint \in {"from-secret", "parse", "batch"} =>
          (i.counter # None => i.counter >= 0)
    /\ endpoint \in {"parse", "batch"} =>
          /\ i.algorithm \in Optional(SupportedAlgorithms)
          /\ Between(i.digits, 4, 10) /\ Between(i.period, 5, 300)

\* The secret in what exceptions.py handle_validation_error returns: exc.errors()
\* holds the value that was refused, a string for its length or a number.
Echo(i) ==
    IF Fits(call.endpoint, i) THEN None
    ELSE IF i.uri # None THEN i.uri.secret ELSE i.secret

-----------------------------------------------------------------------------
(* routes.py *)

StatusOf(error) ==
    IF call.endpoint \in Commands THEN 0 ELSE
    CASE error \in {"qr_image_too_large", "batch_too_large"} -> 413
      [] error \in {"qr_decode_failed", "validation_error"} -> 422
      [] error = "qr_decoder_disabled" -> 503
      [] error = "unexpected"          -> 500
      [] OTHER -> 400

Current == call.items[Len(results) + 1]

Failure(error) ==
    [error |-> error, config |-> None, code |-> None, codedAt |-> None, secret |-> None,
     remaining |-> None, at |-> None]

\* The answer to a call that its request model refuses.
Refusal(i) == [Failure("validation_error") EXCEPT !.secret = Echo(i)]

\* The request model checks all of a batch, its length first; the endpoint then
\* refuses a batch that is too large.
StartError ==
    FirstError(<<
        Raises("validation_error", call.endpoint = "batch" => Len(call.items) <= MaxItems),
        Raises("validation_error",
               \A n \in DOMAIN call.items : Accepts(call.endpoint, call.items[n])),
        Raises("batch_too_large", call.endpoint = "batch" => Len(call.items) <= MaxBatch) >>)

\* The call arrives; a refusal answers the whole of it.
Start ==
    /\ pc = "start"
    /\ pc' = IF StartError = None THEN "extract" ELSE "done"
    /\ status' = IF StartError = None THEN 0 ELSE StatusOf(StartError)
    /\ results' = IF StartError = None \/ call.endpoint = "batch" THEN <<>>
                  ELSE <<Refusal(Current)>>
    /\ UNCHANGED <<clock, settings, call, pending, succeeded, failed>>

\* A result is appended; after the last the call is answered.
Deliver(result, more) ==
    /\ results' = Append(results, result)
    /\ pc' = IF more /\ Len(results') < Len(call.items) THEN "extract" ELSE "done"

\* Mutant: only domain errors are caught in the loop of a batch.
FailDomainOnly(error) ==
    LET batch == call.endpoint = "batch" /\ error # "unexpected" IN
    /\ Deliver(Failure(error), batch)
    /\ failed' = IF batch THEN failed + 1 ELSE failed
    /\ status' = IF ~batch THEN StatusOf(error) ELSE IF pc' = "done" THEN 200 ELSE 0
    /\ pending' = None
    /\ UNCHANGED succeeded

\* The item fails: a batch counts it and goes on, whatever was raised; a single
\* endpoint answers with the error.
Fail(error) ==
    LET batch == call.endpoint = "batch" IN
    /\ Deliver(Failure(error), batch)
    /\ failed' = IF batch THEN failed + 1 ELSE failed
    /\ status' = IF ~batch THEN StatusOf(error) ELSE IF pc' = "done" THEN 200 ELSE 0
    /\ pending' = None
    /\ UNCHANGED succeeded

\* A negative counter, which a URI may have, makes pyotp raise a ValueError.
CodeFails(config) ==
    ~Parsing /\ config.type = "hotp" /\ config.counter < 0

\* The answer to an item as it is when the clock has been read once, for the code.
Made(i, config, now) ==
    [error     |-> None,
     config    |-> config,
     code      |-> IF Parsing THEN None ELSE CodeAt(config, now),
     codedAt   |-> IF Parsing THEN None ELSE now,
     secret    |-> Secret(i, config),
     remaining |-> None,
     at        |-> None]

\* The item is validated and its code computed, at the time of this step.
Extract ==
    /\ pc = "extract"
    /\ LET o == Extracted(Current) IN
       \/ o.error # None /\ Fail(o.error)
       \/ o.error = None /\ CodeFails(o.config) /\ Fail("unexpected")
       \/ /\ o.error = None /\ ~CodeFails(o.config)
          /\ pending' = Made(Current, o.config, clock)
          /\ pc' = "respond"
          /\ UNCHANGED <<results, succeeded, failed, status>>
    /\ UNCHANGED <<clock, settings, call>>

\* The answers of parse and of the commands bear no time.
Timed == call.endpoint \notin {"parse"} \cup Commands

\* _code_response reads the clock for the seconds that are left.
ReadRemaining ==
    /\ pc = "respond" /\ Timed
    /\ pending' = [pending EXCEPT !.remaining = Remaining(pending.config, clock)]
    /\ pc' = "stamp"
    /\ UNCHANGED <<clock, settings, call, results, succeeded, failed, status>>

\* The answer is delivered, and counted if it is of a batch.
Respond(answer) ==
    /\ Deliver(answer, TRUE)
    /\ succeeded' = IF call.endpoint = "batch" THEN succeeded + 1 ELSE succeeded
    /\ status' = IF pc' = "done" /\ call.endpoint \notin Commands THEN 200 ELSE 0
    /\ pending' = None
    /\ UNCHANGED <<clock, settings, call, failed>>

\* _code_response reads the clock once more, for generated_at.
Stamp == pc = "stamp" /\ Respond([pending EXCEPT !.at = clock])

\* What has no time is printed or returned as it is.
Show == pc = "respond" /\ ~Timed /\ Respond(pending)

Tick ==
    /\ clock < MaxTime
    /\ clock' = clock + 1
    /\ UNCHANGED <<settings, call, pc, pending, results, succeeded, failed, status>>

Next == Start \/ Extract \/ ReadRemaining \/ Stamp \/ Show \/ Tick

Spec == Init /\ [][Next]_vars

-----------------------------------------------------------------------------
(* Safety *)

Answered(i) == i \in DOMAIN results /\ results[i].error = None

\* The item passes the request model and every check, and its code can be computed.
Succeeds(i) ==
    /\ Accepts(call.endpoint, i)
    /\ Extracted(i).error = None /\ ~CodeFails(Extracted(i).config)

\* A batch is answered for all of its items, each at its place, however many of
\* them fail and with whatever error: an item has an answer exactly when it
\* succeeds by itself; the counters agree with the results (the two except
\* clauses of routes.py batch).
BatchIsComplete ==
    call.endpoint = "batch" =>
        /\ succeeded = Cardinality({i \in DOMAIN results : results[i].error = None})
        /\ failed = Cardinality({i \in DOMAIN results : results[i].error # None})
        /\ \A i \in DOMAIN results : results[i].error = None <=> Succeeds(call.items[i])
        /\ pc = "done" =>
             \/ status \in {413, 422} /\ results = <<>>
             \/ status = 200 /\ Len(results) = Len(call.items)

\* remaining_seconds never tells a client that a code ends before it does, and the
\* end it states is late by no more than the time it took to make the answer, or
\* the slot was over by then (the three readings of the clock in otp.py
\* generate_code and routes.py _code_response).
ExpiryNotUnderstated ==
    \A i \in DOMAIN results :
        Answered(i) /\ results[i].remaining # None =>
            LET r       == results[i]
                slotEnd == (r.code.moving + 1) * r.config.period
                stated  == r.at + r.remaining
            IN  /\ stated >= slotEnd
                /\ r.at < slotEnd => stated - slotEnd <= r.at - r.codedAt

\* No endpoint returns a code with parameters outside the supported sets,
\* wherever they come from: the request, a URI, a QR image or the settings.
OnlySupportedParameters ==
    \A i \in DOMAIN results :
        Answered(i) /\ results[i].code # None =>
            LET c == results[i].config IN
            /\ c.algorithm \in SupportedAlgorithms
            /\ c.digits \in SupportedDigits
            /\ c.type = "totp" => c.period \in SupportedPeriods
            /\ results[i].code.moving >= 0

\* The endpoint reads the input as this configuration, and its request model takes
\* the input unless it is too long or too short for it.
WouldRead(endpoint, i, config) ==
    /\ Reads(endpoint, i) = Outcome(None, config)
    /\ Fits(endpoint, i) => Accepts(endpoint, i)

\* The entrances agree: what from-string, a batch item or the command line gives a
\* code for, the endpoint for the kind they detected reads the same way, parameters
\* included, and refuses for nothing but the length its request model asks for.
EntrancesAgree ==
    call.endpoint \in {"from-string", "batch", "code"} =>
        \A n \in DOMAIN results :
            Answered(n) =>
                LET i      == call.items[n]
                    alone  == IF call.endpoint = "from-string" THEN Bare(i.secret) ELSE i
                    config == results[n].config
                IN  \/ i.uri # None    /\ WouldRead("from-uri", i, config)
                    \/ i.image # None  /\ WouldRead("from-qr-base64", i, config)
                    \/ i.secret # None /\ WouldRead("from-secret", alone, config)

-----------------------------------------------------------------------------
(* The inductive invariant *)

\* The answer to an item whose code is computed at t, its rest at u, and that is
\* given at a time no earlier.
Answer(i, t, u, at) ==
    LET c == Extracted(i).config IN
    IF Timed THEN [Made(i, c, t) EXCEPT !.remaining = Remaining(c, u), !.at = at]
    ELSE Made(i, c, t)

\* The result is an error that the item gives or that refuses the call, or one of
\* the item's answers, from three readings of the clock.
Failed(i, result) ==
    /\ ~Succeeds(i)
    /\ result.error \in Errors /\ result \in {Failure(result.error), Refusal(i)}

ResultOf(i, result) ==
    \/ Failed(i, result)
    \/ /\ Succeeds(i)
       /\ \E t, u, at \in MinTime..clock :
             t <= u /\ u <= at /\ result = Answer(i, t, u, at)

\* Every result is that of the item at its place.
ResultInv == \A n \in DOMAIN results : ResultOf(call.items[n], results[n])

\* Between the readings the answer is kept as it is then.
PendingInv ==
    CASE pc = "respond" ->
           /\ Succeeds(Current)
           /\ \E t \in MinTime..clock :
                 pending = Made(Current, Extracted(Current).config, t)
      [] pc = "stamp" ->
           /\ Succeeds(Current) /\ Timed
           /\ \E t, u \in MinTime..clock :
                 t <= u /\ pending = [Answer(Current, t, u, u) EXCEPT !.at = None]
      [] OTHER -> pending = None

Serving == pc \in {"extract", "respond", "stamp"}

\* The items are served in their order, none beyond the last, and only if the
\* request model takes them all.
ProgressInv ==
    /\ results \in Seq(Range(results))
    /\ Len(results) <= Len(call.items)
    /\ pc = "start" => results = <<>>
    /\ Serving => /\ Len(results) < Len(call.items)
                  /\ \A n \in DOMAIN call.items : Accepts(call.endpoint, call.items[n])

\* The inductive invariant, with the types that do not follow from it.
IInv ==
    /\ clock \in MinTime..MaxTime
    /\ settings \in Configured
    /\ call \in Calls
    /\ pc \in {"start", "extract", "respond", "stamp", "done"}
    /\ succeeded \in Nat /\ failed \in Nat
    /\ status \in {0, 200, 400, 413, 422, 500, 503}
    /\ ResultInv
    /\ PendingInv
    /\ ProgressInv
    /\ BatchIsComplete

-----------------------------------------------------------------------------
(* What the README says, and the code does not do *)

\* README.md:15, "`otpauth://` URI -> code (TOTP + HOTP, RFC 6238/4226)": the
\* key of the HMAC is the shared secret, which the base32 text encodes.  The
\* code uses the characters of the text themselves as the key.
KeyIsSharedSecret ==
    \A i \in DOMAIN results :
        Answered(i) /\ results[i].code # None =>
            results[i].code.key = Decode(results[i].config.secret.digits)

\* What it is instead: build_pyotp encodes the characters of the secret, pyotp
\* decodes them again.
KeyIsText ==
    \A i \in DOMAIN results :
        Answered(i) /\ results[i].code # None =>
            LET secret == results[i].config.secret IN
            results[i].code.key = Ascii(secret.digits, secret.pad)
=============================================================================
