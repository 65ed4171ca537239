------------------------ MODULE OtpExtractionProofs ------------------------
(***************************************************************************)
(* What OtpExtraction promises of its answers, for any calls, settings and *)
(* limit of a batch, and any bounds of the clock.                          *)
(***************************************************************************)
EXTENDS OtpExtraction, FiniteSetTheorems, SequenceTheorems, TLAPS

\* The parameters a code may be computed from.
Supported(c) ==
    /\ c \in Config
    /\ c.digits \in SupportedDigits
    /\ c.type = "totp" => c.period \in SupportedPeriods
    /\ c.type = "hotp" => c.counter \in Int

\* An outcome is one of the errors, or a configuration with such parameters.
Sound(o) ==
    \/ o.error \in Errors
    \/ o.error = None /\ o = Outcome(None, o.config) /\ Supported(o.config)

\* What the endpoint for the kind of the input makes of it.
Agrees(i) ==
    Extracted(i).error = None /\ call.endpoint \in {"from-string", "batch", "code"} =>
        \/ i.uri # None /\ Extracted(i) = FromUri(i.uri)
        \/ i.image # None /\ Extracted(i) = FromQr(i.image)
        \/ /\ i.secret # None
           /\ Extracted(i) = FromSecret(IF call.endpoint = "from-string"
                                        THEN Bare(i.secret) ELSE i)

-----------------------------------------------------------------------------
(* The operators of the model *)

\* A set of natural numbers that has an element has a least one, and Min is it.
LEMMA MinIsLeast ==
    ASSUME NEW S \in SUBSET Nat, S # {}
    PROVE  Min(S) \in S /\ \A x \in S : Min(S) <= x
<1> DEFINE R == {ss \in Nat \X Nat : ss[1] < ss[2]}
<1>1. IsWellFoundedOn(R, Nat)
  BY NatLessThanWellFounded DEF OpToRel
<1>2. PICK m \in S : \A x \in S : <<x, m>> \notin R
  <2> HIDE DEF R
  <2> QED BY <1>1, WFMin
<1>3. ASSUME NEW x \in S PROVE m <= x
  <2>1. x \in Nat /\ m \in Nat
    OBVIOUS
  <2>2. x < m => <<x, m>> \in R
    BY <2>1
  <2> QED BY <1>2, <2>1, <2>2
<1> QED BY <1>2, <1>3 DEF Min

\* A chain of checks passes when every check does, and else raises the error of
\* one that does not.
LEMMA FirstErrorProperties ==
    ASSUME NEW checks, DOMAIN checks \subseteq Nat,
           \A n \in DOMAIN checks : checks[n] \in Errors \cup {None}
    PROVE  \/ FirstError(checks) \in Errors
           \/ FirstError(checks) = None /\ \A n \in DOMAIN checks : checks[n] = None
<1> DEFINE failing == {n \in DOMAIN checks : checks[n] # None}
<1>1. CASE failing = {}
  BY <1>1 DEF FirstError
<1>2. CASE failing # {}
  <2>1. Min(failing) \in failing
    BY <1>2, MinIsLeast
  <2> QED BY <1>2, <2>1 DEF FirstError
<1> QED BY <1>1, <1>2

\* The error names of the validators.
LEMMA ErrorNames ==
    /\ \A e \in Errors : e # None
    /\ {"invalid_otp_input", "invalid_secret", "invalid_otp_uri",
        "unsupported_algorithm", "unsupported_digits", "unsupported_period",
        "qr_decode_failed", "qr_decoder_disabled", "qr_image_too_large",
        "batch_too_large", "validation_error", "usage", "unexpected"} = Errors
  BY InputsAssumption DEF Errors

\* normalize_secret returns a text.
LEMMA NormalizedType ==
    ASSUME NEW t \in Text
    PROVE  Normalized(t) \in Text
<1>1. Length(t) \in Nat
  BY LenProperties DEF Length, Text
<1> QED BY <1>1 DEF Normalized, Text

\* The settings name an algorithm that is supported.
LEMMA SettingsType ==
    ASSUME settings \in Configured
    PROVE  settings.algorithm \in SupportedAlgorithms /\ settings.period \in Int
  BY InputsAssumption DEF Settings

\* extract_code_from_uri takes nothing but supported parameters.
LEMMA FromUriSound ==
    ASSUME settings \in Configured, NEW u \in Uri
    PROVE  Sound(FromUri(u))
<1> DEFINE checks == <<
        Raises("invalid_otp_uri", u.prefix = "otpauth"),
        Raises("invalid_otp_uri", u.secret # None),
        Raises("invalid_secret", u.secret # None => ValidSecret(u.secret, 8)),
        Raises("unsupported_algorithm", ValidAlgorithm(u.algorithm)),
        Raises("unsupported_digits", ValidDigits(u.digits)),
        Raises("unsupported_period", ValidPeriod(u.period)),
        Raises("invalid_otp_uri", u.type = "hotp" => u.counter # None),
        Raises("invalid_otp_uri", u.type # "other") >>
<1> DEFINE config ==
      [type      |-> u.type,
       secret    |-> Normalized(u.secret),
       algorithm |-> Default(u.algorithm, settings.algorithm),
       digits    |-> Default(u.digits, settings.digits),
       period    |-> UriPeriod(u),
       counter   |-> IF u.type = "hotp" THEN u.counter ELSE None]
<1>1. FromUri(u) = Outcome(FirstError(checks), config)
  BY DEF FromUri
<1>2. DOMAIN checks = 1..8
  OBVIOUS
<1>3. \A n \in 1..8 : checks[n] \in Errors \cup {None}
  BY ErrorNames DEF Raises
<1>4. CASE FirstError(checks) \in Errors
  BY <1>1, <1>4 DEF Sound, Outcome
<1>5. CASE FirstError(checks) = None /\ \A n \in 1..8 : checks[n] = None
  <2>1. \A n \in {2, 4, 5, 6, 7, 8} : checks[n] = None
    BY <1>5
  <2>2. /\ u.secret # None /\ ValidAlgorithm(u.algorithm)
        /\ ValidDigits(u.digits) /\ ValidPeriod(u.period)
        /\ u.type = "hotp" => u.counter # None
        /\ u.type # "other"
    BY <2>1, ErrorNames DEF Raises
  <2>3. /\ u.type \in {"totp", "hotp", "other"} /\ u.counter \in Int \cup {None}
        /\ u.secret \in Text \cup {None}
    BY DEF Uri, Optional
  <2>4. /\ config.type \in {"totp", "hotp"}
        /\ config.counter \in Int \cup {None}
        /\ config.type = "hotp" => config.counter \in Int
    BY <2>2, <2>3
  <2>5. config.secret \in Text
    BY <2>2, <2>3, NormalizedType
  <2>6. /\ config.algorithm \in SupportedAlgorithms
        /\ config.digits \in SupportedDigits
        /\ config.period \in Int
        /\ config.type = "totp" => config.period \in SupportedPeriods
    BY <2>2, SettingsType DEF ValidAlgorithm, ValidDigits, ValidPeriod, UriPeriod, Default,
       SupportedPeriods
  <2>7. Supported(config)
    BY <2>4, <2>5, <2>6 DEF Supported, Config, Optional, SupportedDigits
  <2> HIDE DEF config, checks
  <2>8. FromUri(u) = [error |-> None, config |-> config]
    BY <1>1, <1>5 DEF Outcome
  <2> QED BY <2>7, <2>8 DEF Sound, Outcome
<1>6. DOMAIN checks \subseteq Nat
  BY <1>2
<1> QED
  <2> HIDE DEF checks
  <2> QED BY <1>2, <1>3, <1>4, <1>5, <1>6, FirstErrorProperties

\* extract_code_from_secret takes nothing but supported parameters.
LEMMA FromSecretSound ==
    ASSUME settings \in Configured, NEW i \in Item
    PROVE  /\ Sound(FromSecret(i))
           /\ FromSecret(i).error = None =>
                /\ i.secret # None
                /\ FromSecret(i).config.counter = i.counter
                /\ i.counter # None => FromSecret(i).config.type = "hotp"
<1> DEFINE checks == <<
        Raises("invalid_secret", ValidSecret(i.secret, 16)),
        Raises("unsupported_algorithm", ValidAlgorithm(i.algorithm)),
        Raises("unsupported_digits", ValidDigits(i.digits)),
        Raises("unsupported_period", ValidPeriod(i.period)) >>
<1> DEFINE config ==
      [type      |-> IF i.counter = None THEN "totp" ELSE "hotp",
       secret    |-> Normalized(i.secret),
       algorithm |-> Default(i.algorithm, settings.algorithm),
       digits    |-> Default(i.digits, settings.digits),
       period    |-> Default(i.period, settings.period),
       counter   |-> i.counter]
<1>1. FromSecret(i) = Outcome(FirstError(checks), config)
  BY DEF FromSecret
<1>2. DOMAIN checks = 1..4 /\ DOMAIN checks \subseteq Nat
  OBVIOUS
<1>3. \A n \in 1..4 : checks[n] \in Errors \cup {None}
  BY ErrorNames DEF Raises
<1>4. CASE FirstError(checks) \in Errors
  BY <1>1, <1>4, ErrorNames DEF Sound, Outcome
<1>5. CASE FirstError(checks) = None /\ \A n \in 1..4 : checks[n] = None
  <2>1. \A n \in {1, 2, 3, 4} : checks[n] = None
    BY <1>5
  <2>2. /\ i.secret # None /\ ValidAlgorithm(i.algorithm)
        /\ ValidDigits(i.digits) /\ ValidPeriod(i.period)
    BY <2>1, ErrorNames DEF Raises, ValidSecret
  <2>3. i.counter \in Int \cup {None} /\ i.secret \in Text \cup {None}
    BY DEF Item, Optional
  <2>4. /\ config.type \in {"totp", "hotp"}
        /\ config.counter \in Int \cup {None}
        /\ config.type = "hotp" => config.counter \in Int
    BY <2>2, <2>3
  <2>5. config.secret \in Text
    BY <2>2, <2>3, NormalizedType
  <2>6. /\ config.algorithm \in SupportedAlgorithms
        /\ config.digits \in SupportedDigits
        /\ config.period \in Int
        /\ config.type = "totp" => config.period \in SupportedPeriods
    BY <2>2, SettingsType DEF ValidAlgorithm, ValidDigits, ValidPeriod, Default,
       SupportedPeriods
  <2>7. Supported(config)
    BY <2>4, <2>5, <2>6 DEF Supported, Config, Optional, SupportedDigits
  <2>8. config.counter = i.counter /\ (i.counter # None => config.type = "hotp")
    OBVIOUS
  <2> HIDE DEF config, checks
  <2>9. FromSecret(i) = [error |-> None, config |-> config]
    BY <1>1, <1>5 DEF Outcome
  <2> QED BY <2>2, <2>7, <2>8, <2>9 DEF Sound, Outcome
<1> QED
  <2> HIDE DEF checks
  <2> QED BY <1>2, <1>3, <1>4, <1>5, FirstErrorProperties

\* An error carries no configuration.
LEMMA RefusalSound ==
    ASSUME NEW error \in Errors, NEW config
    PROVE  Sound(Outcome(error, config)) /\ Outcome(error, config).error # None
  BY ErrorNames DEF Sound, Outcome

\* extract_code_from_qr reads a URI of the image, or fails.
LEMMA FromQrSound ==
    ASSUME settings \in Configured, NEW image \in Image
    PROVE  Sound(FromQr(image))
<1> DEFINE checks == <<
        Raises("invalid_otp_input", image.readable),
        Raises("qr_decoder_disabled", settings.qr),
        Raises("qr_image_too_large", ~image.tooLarge),
        Raises("qr_decode_failed", Otpauth(image) # {}) >>
<1> DEFINE uri == image.contents[Min(Otpauth(image))]
<1>1. FromQr(image) = IF FirstError(checks) # None THEN Outcome(FirstError(checks), None)
                      ELSE FromUri(uri)
  BY DEF FromQr
<1>2. DOMAIN checks = 1..4 /\ DOMAIN checks \subseteq Nat
  OBVIOUS
<1>3. \A n \in 1..4 : checks[n] \in Errors \cup {None}
  BY ErrorNames DEF Raises
<1>4. CASE FirstError(checks) \in Errors
  BY <1>1, <1>4, RefusalSound, ErrorNames
<1>5. CASE FirstError(checks) = None /\ \A n \in 1..4 : checks[n] = None
  <2>1. checks[4] = None
    BY <1>5
  <2>2. Otpauth(image) # {}
    BY <2>1, ErrorNames DEF Raises
  <2>3. image.contents \in Seq(Uri \cup {None})
    BY DEF Image, Optional
  <2>4. Otpauth(image) \in SUBSET Nat /\ Otpauth(image) \subseteq DOMAIN image.contents
    BY <2>3, LenProperties DEF Otpauth
  <2>5. Min(Otpauth(image)) \in Otpauth(image)
    BY <2>2, <2>4, MinIsLeast
  <2>6. uri \in Uri \cup {None}
    BY <2>3, <2>4, <2>5, ElementOfSeq, LenProperties
  <2>7. uri \in Uri
    BY <2>5, <2>6 DEF Otpauth
  <2> HIDE DEF checks, uri
  <2> QED BY <1>1, <1>5, <2>7, FromUriSound
<1> QED
  <2> HIDE DEF checks
  <2> QED BY <1>2, <1>3, <1>4, <1>5, FirstErrorProperties

-----------------------------------------------------------------------------
(* The entrances *)

\* The fields of an input.
LEMMA ItemFields ==
    ASSUME NEW i \in Item
    PROVE  /\ i.uri # None => i.uri \in Uri
           /\ i.image # None => i.image \in Image
           /\ i.secret # None => i.secret \in Text
           /\ i.counter # None => i.counter \in Int
           /\ i.show \in BOOLEAN
  BY DEF Item, Optional

\* The stripped string is an item for from-secret.
LEMMA BareType ==
    ASSUME NEW t \in Text
    PROVE  Bare(t) \in Item
  BY DEF Bare, Item, Optional

\* An outcome that is no error is its configuration.
LEMMA SoundOutcome ==
    ASSUME NEW o, Sound(o), o.error = None
    PROVE  o = Outcome(None, o.config) /\ Supported(o.config)
  BY ErrorNames DEF Sound

\* from-string: what the endpoint of the recognised kind makes of the string.
LEMMA FromStringSound ==
    ASSUME settings \in Configured, NEW i \in Item
    PROVE  /\ Sound(FromString(i))
           /\ FromString(i).error = None =>
                \/ i.uri # None /\ FromString(i) = FromUri(i.uri)
                \/ i.image # None /\ FromString(i) = FromQr(i.image)
                \/ i.secret # None /\ FromString(i) = FromSecret(Bare(i.secret))
  BY ItemFields, BareType, FromUriSound, FromQrSound, FromSecretSound, RefusalSound,
     ErrorNames DEF FromString

\* A batch item: what the endpoint of its kind makes of the field.
LEMMA FromItemSound ==
    ASSUME settings \in Configured, NEW i \in Item
    PROVE  /\ Sound(FromItem(i))
           /\ FromItem(i).error = None =>
                \/ i.uri # None /\ FromItem(i) = FromUri(i.uri)
                \/ i.image # None /\ FromItem(i) = FromQr(i.image)
                \/ i.secret # None /\ FromItem(i) = FromSecret(i)
  BY ItemFields, FromUriSound, FromQrSound, FromSecretSound, RefusalSound,
     ErrorNames DEF FromItem

\* parse: a counter of its own takes the place of that of a HOTP URI.
LEMMA ParseSound ==
    ASSUME settings \in Configured, NEW i \in Item
    PROVE  Sound(Parse(i))
<1> DEFINE o == FromUri(i.uri)
<1>1. CASE (i.uri = None) = (i.secret = None)
  BY <1>1, RefusalSound, ErrorNames DEF Parse
<1>2. CASE i.uri = None /\ i.secret # None
  BY <1>2, FromSecretSound DEF Parse
<1>3. CASE i.uri # None /\ i.secret = None
  <2>1. Sound(o)
    BY <1>3, ItemFields, FromUriSound
  <2>2. CASE o.error = None /\ i.counter # None /\ o.config.type = "hotp"
    <3> DEFINE config == o.config
               replaced == [config EXCEPT !.counter = i.counter]
    <3>1. o = Outcome(None, config) /\ Supported(config)
      BY <2>1, <2>2, SoundOutcome
    <3>2. i.counter \in Int /\ config.type = "hotp"
      BY <2>2, ItemFields
    <3>3. Parse(i) = [o EXCEPT !.config.counter = i.counter]
      BY <1>3, <2>2 DEF Parse
    <3> HIDE DEF o, config
    <3>4. Supported(replaced)
      BY <3>1, <3>2 DEF Supported, Config, Optional
    <3>5. Parse(i) = [error |-> None, config |-> replaced]
      BY <3>1, <3>3 DEF Outcome
    <3> QED BY <3>4, <3>5 DEF Sound, Outcome
  <2>3. CASE ~(o.error = None /\ i.counter # None /\ o.config.type = "hotp")
    <3>1. Parse(i) = o
      BY <1>3, <2>3 DEF Parse
    <3> QED BY <2>1, <3>1
  <2> QED BY <2>2, <2>3
<1> QED BY <1>1, <1>2, <1>3

\* The commands: one source, read as its endpoint reads it.
LEMMA CommandSound ==
    ASSUME settings \in Configured, NEW i \in Item
    PROVE  /\ Sound(Command(i))
           /\ Command(i).error = None /\ call.endpoint = "code" =>
                \/ i.uri # None /\ Command(i) = FromUri(i.uri)
                \/ i.image # None /\ Command(i) = FromQr(i.image)
                \/ i.secret # None /\ Command(i) = FromSecret(i)
<1> DEFINE sources == {x \in {"uri", "secret", "image"} : i[x] # None}
<1>1. ASSUME ValidUsage(i), i.uri = None, i.secret = None
      PROVE  i.image # None
  <2>1. Cardinality(sources) = 1
    BY <1>1 DEF ValidUsage
  <2>2. sources # {}
    BY <2>1, FS_EmptySet
  <2> QED BY <1>1, <2>2
<1>2. CASE ~ValidUsage(i)
  BY <1>2, RefusalSound, ErrorNames DEF Command
<1>3. CASE ValidUsage(i) /\ call.endpoint = "show"
  <2>1. Command(i) = Parse(i)
    BY <1>3 DEF Command
  <2> QED BY <1>3, <2>1, ParseSound
<1>4. CASE ValidUsage(i) /\ call.endpoint # "show"
  <2>1. CASE i.uri # None
    <3>1. Command(i) = FromUri(i.uri)
      BY <1>4, <2>1 DEF Command
    <3> QED BY <2>1, <3>1, ItemFields, FromUriSound
  <2>2. CASE i.uri = None /\ i.secret # None
    <3>1. Command(i) = FromSecret(i)
      BY <1>4, <2>2 DEF Command
    <3> QED BY <2>2, <3>1, FromSecretSound
  <2>3. CASE i.uri = None /\ i.secret = None /\ ~i.image.readable
    <3>1. Command(i) = Outcome("unexpected", None)
      BY <1>4, <2>3 DEF Command
    <3> QED BY <3>1, RefusalSound, ErrorNames
  <2>4. CASE i.uri = None /\ i.secret = None /\ i.image.readable
    <3>1. Command(i) = FromQr(i.image)
      BY <1>4, <2>4 DEF Command
    <3>2. i.image \in Image /\ i.image # None
      BY <1>1, <1>4, <2>4, ItemFields
    <3> QED BY <3>1, <3>2, FromQrSound
  <2> QED BY <2>1, <2>2, <2>3, <2>4
<1> QED BY <1>2, <1>3, <1>4

\* The inputs of a call: members of Item, with what its endpoint requires.
LEMMA InputProperties ==
    ASSUME call \in Calls, NEW n \in DOMAIN call.items
    PROVE  /\ call.items[n] \in Item
           /\ call.endpoint = "from-uri" => call.items[n].uri # None
           /\ call.endpoint = "from-secret" => call.items[n].secret # None
           /\ call.endpoint \in {"from-qr", "from-qr-base64"} => call.items[n].image # None
<1>1. call.items \in Seq(Item)
  BY InputsAssumption DEF Call
<1>2. call.items[n] \in Item
  BY <1>1, ElementOfSeq, LenProperties
<1> QED BY <1>2, InputsAssumption

\* The items of a call, one unless it is a batch.
LEMMA CallProperties ==
    ASSUME call \in Calls
    PROVE  /\ call.items \in Seq(Item) /\ Len(call.items) \in Nat /\ Len(call.items) > 0
           /\ DOMAIN call.items = 1..Len(call.items)
           /\ call.endpoint # "batch" => Len(call.items) = 1
           /\ call.endpoint \in {"from-uri", "from-secret", "from-qr", "from-qr-base64",
                                 "from-string", "parse", "batch", "code", "show"}
<1>1. call.items \in Seq(Item) /\ call.items # <<>>
  BY InputsAssumption DEF Call
<1>2. Len(call.items) \in Nat /\ DOMAIN call.items = 1..Len(call.items)
  BY <1>1, LenProperties
<1>3. Len(call.items) > 0
  BY <1>1, <1>2, EmptySeq
<1> QED BY <1>1, <1>2, <1>3, InputsAssumption DEF Call

\* Whatever the endpoint: an error, or a configuration with supported parameters,
\* which the endpoint for the kind of the input would also have found.
LEMMA ExtractedSound ==
    ASSUME settings \in Configured, call \in Calls, NEW i \in Item,
           call.endpoint = "from-uri" => i.uri # None,
           call.endpoint = "from-secret" => i.secret # None,
           call.endpoint \in {"from-qr", "from-qr-base64"} => i.image # None
    PROVE  Sound(Extracted(i)) /\ Agrees(i)
<1>1. /\ call.endpoint = "from-uri" => i.uri \in Uri
      /\ call.endpoint \in {"from-qr", "from-qr-base64"} => i.image \in Image
  BY ItemFields
<1>2. CASE call.endpoint = "from-uri"
  BY <1>1, <1>2, FromUriSound DEF Extracted, Reads, Agrees, Commands
<1>3. CASE call.endpoint = "from-secret"
  BY <1>3, FromSecretSound DEF Extracted, Reads, Agrees, Commands
<1>4. CASE call.endpoint \in {"from-qr", "from-qr-base64"}
  BY <1>1, <1>4, FromQrSound DEF Extracted, Reads, Agrees, Commands
<1>5. CASE call.endpoint = "from-string"
  BY <1>5, FromStringSound DEF Extracted, Reads, Agrees, Commands
<1>6. CASE call.endpoint = "parse"
  BY <1>6, ParseSound DEF Extracted, Reads, Agrees, Commands
<1>7. CASE call.endpoint = "batch"
  BY <1>7, FromItemSound DEF Extracted, Reads, Agrees, Commands
<1>8. CASE call.endpoint \in Commands
  <2>1. Extracted(i) = Command(i)
    BY <1>8 DEF Extracted, Reads, Commands
  <2> QED BY <1>8, <2>1, CommandSound DEF Agrees, Commands
<1> QED BY <1>2, <1>3, <1>4, <1>5, <1>6, <1>7, <1>8, CallProperties DEF Commands

-----------------------------------------------------------------------------
(* base32 *)

Bits == 0..1

\* The recursive function of NumberOf exists: with one of its first n values
\* there is one of its first n + 1.
LEMMA NumberProperties ==
    ASSUME NEW v \in Nat, NEW bits \in [1..v -> Bits]
    PROVE  \E upTo \in [0..v -> Nat] :
              /\ upTo[0] = 0
              /\ \A k \in 1..v : upTo[k] = 2 * upTo[k - 1] + bits[k]
              /\ NumberOf(bits) = upTo[v]
<1> DEFINE Good(n, f) == \A k \in 0..n : f[k] = IF k = 0 THEN 0 ELSE 2 * f[k - 1] + bits[k]
           bad == {n \in 0..v : ~\E f \in [0..n -> Nat] : Good(n, f)}
           m == Min(bad)
<1>1. bad = {}
  <2> SUFFICES ASSUME bad # {}
               PROVE  FALSE
    OBVIOUS
  <2>1. m \in bad /\ \A n \in bad : m <= n
    <3>1. bad \in SUBSET Nat
      OBVIOUS
    <3> HIDE DEF bad
    <3> QED BY <3>1, MinIsLeast
  <2> HIDE DEF m
  <2>2. CASE m = 0
    <3>1. [k \in 0..0 |-> 0] \in [0..m -> Nat] /\ Good(m, [k \in 0..0 |-> 0])
      BY <2>2
    <3> QED BY <2>1, <3>1
  <2>3. CASE m # 0
    <3>1. m \in 1..v /\ m - 1 \in 0..v /\ m - 1 \notin bad
      <4>1. m \in 0..v
        BY <2>1
      <4> HIDE DEF bad
      <4> QED BY <2>1, <2>3, <4>1
    <3>2. PICK f \in [0..(m - 1) -> Nat] : Good(m - 1, f)
      <4> HIDE DEF Good
      <4> QED BY <3>1
    <3> DEFINE g == [k \in 0..m |-> IF k = m THEN 2 * f[m - 1] + bits[m] ELSE f[k]]
    <3>3. f[m - 1] \in Nat /\ bits[m] \in Nat
      <4>1. m \in 1..v /\ m - 1 \in 0..(m - 1)
        <5> HIDE DEF bad
        <5> QED BY <3>1
      <4> HIDE DEF bad, Good
      <4>2. f[m - 1] \in Nat
        BY <3>2, <4>1
      <4>3. bits[m] \in Bits
        BY <4>1
      <4> QED BY <4>2, <4>3 DEF Bits
    <3>4. g \in [0..m -> Nat]
      <4>1. \A k \in 0..m : k # m => f[k] \in Nat
        BY <3>1
      <4> QED BY <3>3, <4>1
    <3>5. Good(m, g)
      <4> SUFFICES ASSUME NEW k \in 0..m
                   PROVE  g[k] = IF k = 0 THEN 0 ELSE 2 * g[k - 1] + bits[k]
        OBVIOUS
      <4>1. CASE k = m
        BY <2>3, <3>1, <4>1
      <4>2. CASE k # m
        BY <3>1, <3>2, <4>2
      <4> QED BY <4>1, <4>2
    <3> HIDE DEF g
    <3> QED BY <2>1, <3>4, <3>5
  <2> QED BY <2>2, <2>3
<1>2. PICK f \in [0..v -> Nat] : Good(v, f)
  <2> HIDE DEF Good
  <2>1. v \in 0..v /\ v \notin bad
    BY <1>1
  <2> QED BY <2>1
<1>3. Len(bits) = v
  BY SeqDef, LenProperties
<1>4. f = [k \in 0..Len(bits) |-> IF k = 0 THEN 0 ELSE 2 * f[k - 1] + bits[k]]
  BY <1>2, <1>3
<1> DEFINE upTo == CHOOSE h : h = [k \in 0..Len(bits) |->
                                      IF k = 0 THEN 0 ELSE 2 * h[k - 1] + bits[k]]
<1>5. upTo = [k \in 0..Len(bits) |-> IF k = 0 THEN 0 ELSE 2 * upTo[k - 1] + bits[k]]
  BY <1>4
<1>6. NumberOf(bits) = upTo[Len(bits)]
  BY DEF NumberOf
<1>7. \A k \in 0..v : upTo[k] = IF k = 0 THEN 0 ELSE 2 * upTo[k - 1] + bits[k]
  <2> HIDE DEF upTo
  <2> QED BY <1>3, <1>5
<1> HIDE DEF upTo
<1> DEFINE odd == {k \in 0..v : upTo[k] \notin Nat}
<1>8. odd = {}
  <2> SUFFICES ASSUME odd # {}
               PROVE  FALSE
    OBVIOUS
  <2>1. PICK k \in odd : \A l \in odd : k <= l
    <3>1. odd \in SUBSET Nat
      OBVIOUS
    <3> HIDE DEF odd
    <3> QED BY <3>1, MinIsLeast
  <2>2. k \in 0..v /\ upTo[k] \notin Nat
    OBVIOUS
  <2>3. k # 0 /\ k - 1 \in 0..v
    BY <1>7, <2>2
  <2>4. k - 1 \notin odd
    <3> HIDE DEF odd
    <3> QED BY <2>1, <2>2, <2>3
  <2>5. upTo[k - 1] \in Nat
    BY <2>3, <2>4
  <2>6. k \in 1..v /\ bits[k] \in Nat
    BY <2>2, <2>3 DEF Bits
  <2> HIDE DEF odd
  <2>7. upTo[k] = 2 * upTo[k - 1] + bits[k]
    BY <1>7, <2>2, <2>3
  <2>8. 2 * upTo[k - 1] + bits[k] \in Nat
    BY <2>5, <2>6
  <2> QED BY <2>2, <2>7, <2>8
<1>9. upTo \in [0..v -> Nat]
  <2>1. upTo = [k \in 0..v |-> upTo[k]]
    BY <1>3, <1>5
  <2>2. \A k \in 0..v : upTo[k] \in Nat
    BY <1>8
  <2> QED BY <2>1, <2>2
<1>10. upTo[0] = 0 /\ \A k \in 1..v : upTo[k] = 2 * upTo[k - 1] + bits[k]
  BY <1>7
<1> QED BY <1>3, <1>6, <1>9, <1>10

\* Five bits are a digit, and the bits of the digit.
LEMMA DigitProperties ==
    ASSUME NEW bits \in [1..5 -> Bits]
    PROVE  /\ NumberOf(bits) \in 0..31
           /\ \A k \in 1..5 : (NumberOf(bits) \div 2^(5 - k)) % 2 = bits[k]
<1>1. PICK upTo \in [0..5 -> Nat] :
        /\ upTo[0] = 0
        /\ \A k \in 1..5 : upTo[k] = 2 * upTo[k - 1] + bits[k]
        /\ NumberOf(bits) = upTo[5]
  BY NumberProperties
<1>2. /\ upTo[1] = bits[1] /\ upTo[2] = 2 * upTo[1] + bits[2] /\ upTo[3] = 2 * upTo[2] + bits[3]
      /\ upTo[4] = 2 * upTo[3] + bits[4] /\ upTo[5] = 2 * upTo[4] + bits[5]
  BY <1>1 DEF Bits
<1>3. /\ bits[1] \in 0..1 /\ bits[2] \in 0..1 /\ bits[3] \in 0..1 /\ bits[4] \in 0..1
      /\ bits[5] \in 0..1
  BY DEF Bits
<1> DEFINE x == NumberOf(bits)
           b1 == bits[1]
           b2 == bits[2]
           b3 == bits[3]
           b4 == bits[4]
           b5 == bits[5]
<1>4. x = 2 * (2 * (2 * (2 * b1 + b2) + b3) + b4) + b5
  BY <1>1, <1>2
<1>5. /\ x \in 0..31
      /\ (x \div 2^4) % 2 = b1 /\ (x \div 2^3) % 2 = b2 /\ (x \div 2^2) % 2 = b3
      /\ (x \div 2^1) % 2 = b4 /\ (x \div 2^0) % 2 = b5
  <2> HIDE DEF x, b1, b2, b3, b4, b5
  <2>1. 2^4 = 16 /\ 2^3 = 8 /\ 2^2 = 4 /\ 2^1 = 2 /\ 2^0 = 1
    OBVIOUS
  <2>2. b1 \in 0..1 /\ b2 \in 0..1 /\ b3 \in 0..1 /\ b4 \in 0..1 /\ b5 \in 0..1
    BY <1>3 DEF b1, b2, b3, b4, b5
  <2> QED BY <1>4, <2>1, <2>2
<1>6. 5 - 1 = 4 /\ 5 - 2 = 3 /\ 5 - 3 = 2 /\ 5 - 4 = 1 /\ 5 - 5 = 0
  OBVIOUS
<1>7. ASSUME NEW k \in 1..5
      PROVE  (NumberOf(bits) \div 2^(5 - k)) % 2 = bits[k]
  <2>1. k = 1 \/ k = 2 \/ k = 3 \/ k = 4 \/ k = 5
    OBVIOUS
  <2> QED BY <1>5, <1>6, <2>1
<1> QED BY <1>5, <1>7

\* The bits of a byte are the byte.
LEMMA ByteProperties ==
    ASSUME NEW bits \in [1..8 -> Bits]
    PROVE  /\ NumberOf(bits) \in 0..255
           /\ \A x \in 0..255 : (\A k \in 1..8 : bits[k] = (x \div 2^(8 - k)) % 2)
                                    => NumberOf(bits) = x
<1>1. PICK upTo \in [0..8 -> Nat] :
        /\ upTo[0] = 0
        /\ \A k \in 1..8 : upTo[k] = 2 * upTo[k - 1] + bits[k]
        /\ NumberOf(bits) = upTo[8]
  BY NumberProperties
<1>2. \A k \in 1..8 : bits[k] \in 0..1
  BY DEF Bits
<1>3. /\ upTo[1] = bits[1] /\ upTo[2] = 2 * upTo[1] + bits[2]
      /\ upTo[3] = 2 * upTo[2] + bits[3] /\ upTo[4] = 2 * upTo[3] + bits[4]
      /\ upTo[5] = 2 * upTo[4] + bits[5] /\ upTo[6] = 2 * upTo[5] + bits[6]
      /\ upTo[7] = 2 * upTo[6] + bits[7] /\ upTo[8] = 2 * upTo[7] + bits[8]
  BY <1>1, <1>2
<1>4. NumberOf(bits) \in 0..255
  <2>1. /\ bits[1] \in 0..1 /\ bits[2] \in 0..1 /\ bits[3] \in 0..1 /\ bits[4] \in 0..1
        /\ bits[5] \in 0..1 /\ bits[6] \in 0..1 /\ bits[7] \in 0..1 /\ bits[8] \in 0..1
    BY <1>2
  <2>2. \A n \in Nat : \A a \in 0..n : \A b \in 0..1 : 2 * a + b \in 0..(2 * n + 1)
    OBVIOUS
  <2>3. upTo[4] \in 0..15
    <3>1. upTo[1] \in 0..1
      BY <1>3, <2>1
    <3>2. upTo[2] \in 0..3
      BY <1>3, <2>1, <3>1
    <3>3. upTo[3] \in 0..7
      BY <1>3, <2>1, <3>2
    <3> QED BY <1>3, <2>1, <3>3
  <2>4. upTo[5] \in 0..31
    <3>1. 2 * upTo[4] + bits[5] \in 0..(2 * 15 + 1)
      BY <2>1, <2>2, <2>3
    <3> QED BY <1>3, <3>1
  <2>5. upTo[6] \in 0..63
    <3>1. 2 * upTo[5] + bits[6] \in 0..(2 * 31 + 1)
      BY <2>1, <2>2, <2>4
    <3> QED BY <1>3, <3>1
  <2>6. upTo[7] \in 0..127
    <3>1. 2 * upTo[6] + bits[7] \in 0..(2 * 63 + 1)
      BY <2>1, <2>2, <2>5
    <3> QED BY <1>3, <3>1
  <2>7. upTo[8] \in 0..255
    <3>1. 2 * upTo[7] + bits[8] \in 0..(2 * 127 + 1)
      BY <2>1, <2>2, <2>6
    <3> QED BY <1>3, <3>1
  <2> QED BY <1>1, <2>7
<1>5. ASSUME NEW x \in 0..255, \A k \in 1..8 : bits[k] = (x \div 2^(8 - k)) % 2
      PROVE  NumberOf(bits) = x
  <2>1. /\ 8 - 1 = 7 /\ 8 - 2 = 6 /\ 8 - 3 = 5 /\ 8 - 4 = 4
        /\ 8 - 5 = 3 /\ 8 - 6 = 2 /\ 8 - 7 = 1 /\ 8 - 8 = 0
    OBVIOUS
  <2>2. /\ 2^7 = 128 /\ 2^6 = 64 /\ 2^5 = 32 /\ 2^4 = 16
        /\ 2^3 = 8 /\ 2^2 = 4 /\ 2^1 = 2 /\ 2^0 = 1
    OBVIOUS
  <2>3. /\ bits[1] = (x \div 2^7) % 2 /\ bits[2] = (x \div 2^6) % 2
        /\ bits[3] = (x \div 2^5) % 2 /\ bits[4] = (x \div 2^4) % 2
        /\ bits[5] = (x \div 2^3) % 2 /\ bits[6] = (x \div 2^2) % 2
        /\ bits[7] = (x \div 2^1) % 2 /\ bits[8] = (x \div 2^0) % 2
    BY <1>5, <2>1
  <2>4. /\ bits[1] = (x \div 128) % 2 /\ bits[2] = (x \div 64) % 2
        /\ bits[3] = (x \div 32) % 2 /\ bits[4] = (x \div 16) % 2
        /\ bits[5] = (x \div 8) % 2 /\ bits[6] = (x \div 4) % 2
        /\ bits[7] = (x \div 2) % 2 /\ bits[8] = x % 2
    BY <2>2, <2>3
  <2>5. upTo[1] = x \div 128
    BY <1>3, <2>4
  <2>6. upTo[2] = x \div 64
    BY <1>3, <2>4, <2>5
  <2>7. upTo[3] = x \div 32
    BY <1>3, <2>4, <2>6
  <2>8. upTo[4] = x \div 16
    BY <1>3, <2>4, <2>7
  <2>9. upTo[5] = x \div 8
    BY <1>3, <2>4, <2>8
  <2>10. upTo[6] = x \div 4
    BY <1>3, <2>4, <2>9
  <2>11. upTo[7] = x \div 2
    BY <1>3, <2>4, <2>10
  <2> QED BY <1>1, <1>3, <2>4, <2>11
<1> QED BY <1>4, <1>5

\* A bit beyond the last value is 0.
LEMMA BitTypes ==
    ASSUME NEW values \in Seq(Nat), NEW w \in {5, 8}, NEW i \in Nat
    PROVE  BitOf(values, w, i) \in Bits
<1>1. CASE i >= w * Len(values)
  BY <1>1 DEF BitOf, Bits
<1>2. CASE ~(i >= w * Len(values))
  <2>1. i \div w + 1 \in 1..Len(values) /\ w - 1 - (i % w) \in 0..7
    <3>1. Len(values) \in Nat
      BY LenProperties
    <3>2. CASE w = 5
      BY <1>2, <3>1, <3>2
    <3>3. CASE w = 8
      BY <1>2, <3>1, <3>3
    <3> QED BY <3>2, <3>3
  <2>2. values[i \div w + 1] \in Nat
    BY <2>1, ElementOfSeq
  <2>3. \A e \in 0..7 : 2^e \in Nat \ {0}
    <3> TAKE e \in 0..7
    <3>1. CASE e \in {0, 1, 2, 3}
      <4>1. 2^0 \in Nat \ {0} /\ 2^1 \in Nat \ {0} /\ 2^2 \in Nat \ {0} /\ 2^3 \in Nat \ {0}
        OBVIOUS
      <4> QED BY <3>1, <4>1, Zenon
    <3>2. CASE e \in {4, 5, 6, 7}
      <4>1. 2^4 \in Nat \ {0} /\ 2^5 \in Nat \ {0} /\ 2^6 \in Nat \ {0} /\ 2^7 \in Nat \ {0}
        OBVIOUS
      <4> QED BY <3>2, <4>1, Zenon
    <3> QED BY <3>1, <3>2
  <2> DEFINE d == 2^(w - 1 - (i % w))
             x == values[i \div w + 1]
  <2>4. d \in Nat \ {0} /\ x \in Nat
    BY <2>1, <2>2, <2>3
  <2>5. BitOf(values, w, i) = (x \div d) % 2
    BY <1>2 DEF BitOf
  <2>6. (x \div d) % 2 \in 0..1
    <3> HIDE DEF x, d
    <3>1. x \div d \in Int
      BY <2>4
    <3> QED BY <3>1
  <2> QED BY <2>5, <2>6 DEF Bits
<1> QED BY <1>1, <1>2

\* b32encode: digits, and their bits are the bits of the bytes.
LEMMA EncodeProperties ==
    ASSUME NEW bytes \in Seq(Nat)
    PROVE  /\ Encode(bytes) \in Seq(0..31)
           /\ Len(Encode(bytes)) = (8 * Len(bytes) + 4) \div 5
           /\ \A i \in Nat : i < 5 * Len(Encode(bytes)) =>
                 BitOf(Encode(bytes), 5, i) = BitOf(bytes, 8, i)
<1> DEFINE n == (8 * Len(bytes) + 4) \div 5
           group(j) == [k \in 1..5 |-> BitOf(bytes, 8, 5 * (j - 1) + k - 1)]
<1>1. Len(bytes) \in Nat /\ n \in Nat
  BY LenProperties
<1>2. Encode(bytes) = [j \in 1..n |-> NumberOf(group(j))]
  BY DEF Encode, Regrouped
<1> HIDE DEF n
<1>3. ASSUME NEW j \in 1..n
      PROVE  group(j) \in [1..5 -> Bits]
  <2>1. \A k \in 1..5 : 5 * (j - 1) + k - 1 \in Nat
    BY <1>1
  <2> QED BY <2>1, BitTypes
<1>4. \A j \in 1..n : NumberOf(group(j)) \in 0..31
  <2> TAKE j \in 1..n
  <2> HIDE DEF group
  <2> QED BY <1>3, DigitProperties
<1>5. Encode(bytes) \in Seq(0..31) /\ Len(Encode(bytes)) = n
  <2> HIDE DEF group
  <2>1. Encode(bytes) \in [1..n -> 0..31]
    BY <1>2, <1>4
  <2> QED BY <1>1, <2>1, SeqDef, LenProperties
<1>6. ASSUME NEW i \in Nat, i < 5 * n
      PROVE  BitOf(Encode(bytes), 5, i) = BitOf(bytes, 8, i)
  <2> DEFINE j == i \div 5 + 1
             k == (i % 5) + 1
  <2>1. j \in 1..n /\ k \in 1..5 /\ 5 * (j - 1) + k - 1 = i /\ 5 - 1 - (i % 5) = 5 - k
    BY <1>1, <1>6
  <2>2. BitOf(Encode(bytes), 5, i) = (Encode(bytes)[j] \div 2^(5 - k)) % 2
    <3>1. ~(i >= 5 * Len(Encode(bytes)))
      BY <1>1, <1>5, <1>6
    <3>2. BitOf(Encode(bytes), 5, i) = (Encode(bytes)[j] \div 2^(5 - 1 - (i % 5))) % 2
      BY <3>1 DEF BitOf
    <3> HIDE DEF k
    <3> QED BY <2>1, <3>2
  <2>3. Encode(bytes)[j] = NumberOf(group(j))
    <3> HIDE DEF group, j
    <3> QED BY <1>2, <2>1
  <2>4. (NumberOf(group(j)) \div 2^(5 - k)) % 2 = group(j)[k]
    <3> HIDE DEF group, j, k
    <3> QED BY <1>3, <2>1, DigitProperties
  <2>5. group(j)[k] = BitOf(bytes, 8, 5 * (j - 1) + k - 1)
    <3> HIDE DEF j, k
    <3> QED BY <2>1
  <2> HIDE DEF j, k, group
  <2> QED BY <2>1, <2>2, <2>3, <2>4, <2>5
<1> QED BY <1>5, <1>6 DEF n

\* b32decode: bytes.
LEMMA DecodeProperties ==
    ASSUME NEW digits \in Seq(Nat)
    PROVE  /\ Decode(digits) \in Seq(0..255)
           /\ Len(Decode(digits)) = (5 * Len(digits)) \div 8
           /\ \A j \in 1..Len(Decode(digits)), x \in 0..255 :
                 (\A k \in 1..8 : BitOf(digits, 5, 8 * (j - 1) + k - 1) = (x \div 2^(8 - k)) % 2)
                    => Decode(digits)[j] = x
<1> DEFINE n == (5 * Len(digits)) \div 8
           group(j) == [k \in 1..8 |-> BitOf(digits, 5, 8 * (j - 1) + k - 1)]
<1>1. Len(digits) \in Nat /\ n \in Nat
  BY LenProperties
<1>2. Decode(digits) = [j \in 1..n |-> NumberOf(group(j))]
  BY DEF Decode, Regrouped
<1> HIDE DEF n
<1>3. ASSUME NEW j \in 1..n
      PROVE  group(j) \in [1..8 -> Bits]
  <2>1. \A k \in 1..8 : 8 * (j - 1) + k - 1 \in Nat
    BY <1>1
  <2> QED BY <2>1, BitTypes
<1>4. \A j \in 1..n : NumberOf(group(j)) \in 0..255
  <2> TAKE j \in 1..n
  <2> HIDE DEF group
  <2> QED BY <1>3, ByteProperties
<1>5. Decode(digits) \in Seq(0..255) /\ Len(Decode(digits)) = n
  <2> HIDE DEF group
  <2>1. Decode(digits) \in [1..n -> 0..255]
    <3>1. ASSUME NEW S, \A j \in 1..n : NumberOf(group(j)) \in S
          PROVE  Decode(digits) \in [1..n -> S]
      BY <1>2, <3>1, Zenon
    <3> QED BY <1>4, <3>1, Zenon
  <2> QED BY <1>1, <2>1, SeqDef, LenProperties
<1>6. ASSUME NEW j \in 1..n, NEW x \in 0..255,
             \A k \in 1..8 : BitOf(digits, 5, 8 * (j - 1) + k - 1) = (x \div 2^(8 - k)) % 2
      PROVE  Decode(digits)[j] = x
  <2>1. \A k \in 1..8 : group(j)[k] = (x \div 2^(8 - k)) % 2
    BY <1>6
  <2> HIDE DEF group
  <2> QED BY <1>2, <1>3, <2>1, ByteProperties
<1> QED BY <1>5, <1>6 DEF n

\* Sequences of digits and of bytes are sequences of numbers.
LEMMA NaturalSeq ==
    ASSUME NEW S \in SUBSET Nat, NEW s \in Seq(S)
    PROVE  s \in Seq(Nat)
<1>1. Len(s) \in Nat /\ s \in [1..Len(s) -> S]
  BY LenProperties
<1>2. s \in [1..Len(s) -> Nat]
  BY <1>1
<1> QED BY <1>1, <1>2, SeqDef

\* pyotp decodes what build_pyotp has encoded: whatever the bytes, they come back.
THEOREM RoundTrip ==
    ASSUME NEW bytes \in Seq(0..255)
    PROVE  Decode(Encode(bytes)) = bytes
<1> DEFINE digits == Encode(bytes)
           len == Len(bytes)
<1>1. bytes \in Seq(Nat) /\ len \in Nat /\ bytes \in [1..len -> 0..255]
  <2>1. 0..255 \in SUBSET Nat
    OBVIOUS
  <2>2. bytes \in Seq(Nat)
    BY <2>1, NaturalSeq
  <2> QED BY <2>2, LenProperties
<1>2. /\ digits \in Seq(0..31) /\ Len(digits) = (8 * len + 4) \div 5
      /\ \A i \in Nat : i < 5 * Len(digits) => BitOf(digits, 5, i) = BitOf(bytes, 8, i)
  BY <1>1, EncodeProperties
<1>3. digits \in Seq(Nat)
  <2> HIDE DEF digits
  <2>1. 0..31 \in SUBSET Nat
    OBVIOUS
  <2> QED BY <1>2, <2>1, NaturalSeq
<1> HIDE DEF digits, len
<1>4. Decode(digits) \in Seq(0..255) /\ Len(Decode(digits)) = (5 * Len(digits)) \div 8
  BY <1>3, DecodeProperties
<1>5. Len(Decode(digits)) = len /\ 5 * Len(digits) >= 8 * len
  BY <1>1, <1>2, <1>4
<1>6. ASSUME NEW j \in 1..len
      PROVE  Decode(digits)[j] = bytes[j]
  <2>1. bytes[j] \in 0..255
    BY <1>1
  <2>2. ASSUME NEW k \in 1..8
        PROVE  BitOf(digits, 5, 8 * (j - 1) + k - 1) = (bytes[j] \div 2^(8 - k)) % 2
    <3> DEFINE i == 8 * (j - 1) + k - 1
    <3>1. i \in Nat /\ i < 8 * len /\ i \div 8 + 1 = j /\ 8 - 1 - (i % 8) = 8 - k
      BY <1>1
    <3>2. BitOf(digits, 5, i) = BitOf(bytes, 8, i)
      <4> HIDE DEF i
      <4>1. Len(digits) \in Nat
        BY <1>3, LenProperties
      <4>2. i < 5 * Len(digits)
        BY <1>1, <1>5, <3>1, <4>1
      <4> QED BY <1>2, <3>1, <4>2
    <3>3. BitOf(bytes, 8, i) = (bytes[i \div 8 + 1] \div 2^(8 - 1 - (i % 8))) % 2
      BY <1>1, <3>1 DEF BitOf, len
    <3> HIDE DEF i
    <3>4. BitOf(bytes, 8, i) = (bytes[j] \div 2^(8 - k)) % 2
      BY <3>1, <3>3
    <3> QED BY <3>2, <3>4 DEF i
  <2> QED BY <1>3, <1>5, <2>1, <2>2, DecodeProperties
<1>7. Decode(digits) \in [1..len -> 0..255]
  BY <1>4, <1>5, LenProperties
<1>8. Decode(digits) = bytes
  BY <1>1, <1>6, <1>7
<1> QED BY <1>8 DEF digits

\* The text of a secret is its key.
LEMMA KeyProperties ==
    ASSUME NEW c, c.secret \in Text
    PROVE  /\ Key(c) = Ascii(c.secret.digits, c.secret.pad)
           /\ Key(c) \in Seq(0..255)
<1> DEFINE digits == c.secret.digits
           pad == c.secret.pad
           n == Len(digits) + pad
           text == Ascii(digits, pad)
<1>1. digits \in Seq(0..31) /\ pad \in Nat
  BY DEF Text
<1>2. Len(digits) \in Nat /\ n \in Nat
  BY <1>1, LenProperties
<1>3. ASSUME NEW i \in 1..n
      PROVE  (IF i > Len(digits) THEN 61
              ELSE IF digits[i] < 26 THEN 65 + digits[i] ELSE 24 + digits[i]) \in 0..255
  <2> HIDE DEF digits, pad
  <2>1. CASE i > Len(digits)
    BY <2>1
  <2>2. CASE ~(i > Len(digits))
    <3>1. i \in 1..Len(digits)
      BY <1>2, <2>2
    <3>2. digits[i] \in 0..31
      BY <1>1, <3>1, ElementOfSeq
    <3>3. \A d \in 0..31 : (IF d < 26 THEN 65 + d ELSE 24 + d) \in 0..255
      OBVIOUS
    <3> QED BY <2>2, <3>2, <3>3
  <2> QED BY <2>1, <2>2
<1>4. text \in [1..n -> 0..255]
  BY <1>3 DEF Ascii
<1>5. text \in Seq(0..255)
  <2> HIDE DEF text, n
  <2> QED BY <1>2, <1>4, SeqDef
<1>6. Key(c) = Decode(Encode(text))
  BY DEF Key
<1> HIDE DEF text
<1>7. Key(c) = text
  BY <1>5, <1>6, RoundTrip
<1> QED BY <1>5, <1>7 DEF text

-----------------------------------------------------------------------------
(* Steps *)

\* What is made of an input depends on the call and the settings alone.
LEMMA ExtractedUnchanged ==
    ASSUME UNCHANGED <<settings, call>>
    PROVE  /\ Parsing' = Parsing /\ Timed' = Timed
           /\ \A i : /\ Extracted(i)' = Extracted(i)
                     /\ Succeeds(i)' = Succeeds(i)
                     /\ Refusal(i)' = Refusal(i)
                     /\ \A c, t : Made(i, c, t)' = Made(i, c, t)
                     /\ \A t, u, at : Answer(i, t, u, at)' = Answer(i, t, u, at)
<1>1. /\ \A a : ValidAlgorithm(a)' = ValidAlgorithm(a)
      /\ \A d : ValidDigits(d)' = ValidDigits(d)
      /\ \A p : ValidPeriod(p)' = ValidPeriod(p)
  BY DEF ValidAlgorithm, ValidDigits, ValidPeriod
<1>2. \A u : FromUri(u)' = FromUri(u)
  BY <1>1 DEF FromUri, UriPeriod
<1>3. \A i : FromSecret(i)' = FromSecret(i)
  BY <1>1 DEF FromSecret
<1>4. \A image : FromQr(image)' = FromQr(image)
  BY <1>2 DEF FromQr
<1>5. \A i : /\ FromString(i)' = FromString(i)
             /\ Parse(i)' = Parse(i)
             /\ FromItem(i)' = FromItem(i)
  BY <1>2, <1>3, <1>4 DEF FromString, Parse, FromItem
<1>6. \A i : Command(i)' = Command(i)
  BY <1>2, <1>3, <1>4, <1>5 DEF Command, ValidUsage
<1>7. \A i : Extracted(i)' = Extracted(i)
  BY <1>2, <1>3, <1>4, <1>5, <1>6 DEF Extracted, Reads
<1>8. /\ Parsing' = Parsing /\ Timed' = Timed
      /\ \A c : CodeFails(c)' = CodeFails(c)
      /\ \A i, c : Secret(i, c)' = Secret(i, c)
      /\ \A i : Echo(i)' = Echo(i)
  BY DEF Parsing, Timed, CodeFails, Secret, Echo
<1>9. \A i : Succeeds(i)' = Succeeds(i) /\ Refusal(i)' = Refusal(i)
  BY <1>7, <1>8 DEF Succeeds, Refusal
<1>10. \A i, c, t : Made(i, c, t)' = Made(i, c, t)
  BY <1>8 DEF Made
<1> QED BY <1>7, <1>8, <1>9, <1>10 DEF Answer

\* A result stays one of its item's as the clock advances.
LEMMA ResultStays ==
    ASSUME UNCHANGED <<settings, call>>, clock \in Nat, clock' \in Nat, clock <= clock'
    PROVE  \A i, result : ResultOf(i, result) => ResultOf(i, result)'
<1> TAKE i, result
<1> HAVE ResultOf(i, result)
<1>1. CASE Failed(i, result)
  <2>1. Failed(i, result)'
    BY <1>1, ExtractedUnchanged DEF Failed
  <2> QED BY <2>1 DEF ResultOf
<1>2. CASE ~Failed(i, result)
  <2>1. PICK t \in MinTime..clock, u \in MinTime..clock, at \in MinTime..clock :
          t <= u /\ u <= at /\ result = Answer(i, t, u, at)
    BY <1>2 DEF ResultOf
  <2>2. Succeeds(i)'
    BY <1>2, ExtractedUnchanged DEF ResultOf
  <2>3. result = Answer(i, t, u, at)'
    BY <2>1, ExtractedUnchanged
  <2>4. t \in MinTime..clock' /\ u \in MinTime..clock' /\ at \in MinTime..clock'
    BY ConstantsAssumption
  <2> QED BY <2>1, <2>2, <2>3, <2>4 DEF ResultOf
<1> QED BY <1>1, <1>2

\* A result is no error exactly when its item succeeds.
LEMMA ResultVerdict ==
    ASSUME UNCHANGED <<settings, call>>
    PROVE  \A i, result : ResultOf(i, result)' => (result.error = None <=> Succeeds(i)')
<1> TAKE i, result
<1>1. \A t, u, at : Answer(i, t, u, at).error = None
  BY DEF Answer, Made
<1>2. \A t, u, at : Answer(i, t, u, at)'.error = None
  BY <1>1, ExtractedUnchanged
<1> QED BY <1>2, ErrorNames DEF ResultOf, Failed

\* The item that is served is one of the call.
LEMMA CurrentProperties ==
    ASSUME IInv, Serving
    PROVE  /\ Len(results) \in Nat /\ DOMAIN results = 1..Len(results)
           /\ Len(results) + 1 \in DOMAIN call.items
           /\ Len(results) + 1 <= Len(call.items)
           /\ Current = call.items[Len(results) + 1]
           /\ call.endpoint # "batch" => Len(results) + 1 = Len(call.items)
           /\ Accepts(call.endpoint, Current)
<1>1. Len(results) \in Nat /\ DOMAIN results = 1..Len(results) /\ Len(results) < Len(call.items)
  <2>1. results \in Seq(Range(results)) /\ Len(results) < Len(call.items)
    BY DEF IInv, ProgressInv
  <2> QED BY <2>1, LenProperties
<1>2. Len(call.items) \in Nat /\ DOMAIN call.items = 1..Len(call.items)
      /\ (call.endpoint # "batch" => Len(call.items) = 1)
  BY CallProperties DEF IInv
<1>3. Len(results) + 1 \in 1..Len(call.items)
  BY <1>1, <1>2
<1>4. Len(call.items) = 1 => Len(results) + 1 = Len(call.items)
  BY <1>1
<1>5. Current = call.items[Len(results) + 1]
  BY DEF Current
<1>6. Len(results) + 1 \in DOMAIN call.items
  BY <1>2, <1>3
<1>7. Len(results) + 1 <= Len(call.items)
  BY <1>1, <1>2
<1>8. Accepts(call.endpoint, Current)
  BY <1>5, <1>6 DEF IInv, ProgressInv
<1> QED BY <1>1, <1>2, <1>4, <1>5, <1>6, <1>7, <1>8, Zenon

\* A result of the current item takes the place of that item.
LEMMA DeliveredProperties ==
    ASSUME IInv, Serving, UNCHANGED <<clock, settings, call>>,
           NEW result, results' = Append(results, result),
           ResultOf(Current, result)
    PROVE  /\ ResultInv'
           /\ results' \in Seq(Range(results'))
           /\ Len(results') = Len(results) + 1
           /\ Len(results') <= Len(call.items)
           /\ DOMAIN results' = 1..(Len(results) + 1)
           /\ \A n \in 1..Len(results) : results'[n] = results[n]
           /\ results'[Len(results) + 1] = result
<1> DEFINE T == Range(results) \cup {result}
<1>1. results \in Seq(T) /\ result \in T
  <2>1. results \in Seq(Range(results))
    BY DEF IInv, ProgressInv
  <2> QED BY <2>1, LenProperties, SeqDef
<1>2. /\ results' \in Seq(T)
      /\ Len(results') = Len(results) + 1
      /\ \A n \in 1..Len(results) : results'[n] = results[n]
      /\ results'[Len(results) + 1] = result
  <2> HIDE DEF T
  <2> QED BY <1>1, AppendProperties
<1>3. /\ Len(results) \in Nat /\ DOMAIN results = 1..Len(results)
      /\ Len(results) + 1 <= Len(call.items)
      /\ Current = call.items[Len(results) + 1]
  BY CurrentProperties
<1>4. DOMAIN results' = 1..(Len(results) + 1)
  <2> HIDE DEF T
  <2> QED BY <1>2, <1>3, LenProperties
<1>5. results' \in Seq(Range(results'))
  <2>1. \A n \in 1..(Len(results) + 1) : results'[n] \in Range(results')
    BY <1>4 DEF Range
  <2>2. Len(results') \in Nat /\ DOMAIN results' = 1..Len(results')
    BY <1>2, <1>3, <1>4
  <2>3. results' = [n \in 1..Len(results') |-> results'[n]]
    <3> HIDE DEF T
    <3> QED BY <1>2, <2>2, LenProperties
  <2> QED BY <1>2, <2>1, <2>2, <2>3, SeqDef
<1>6. ResultInv'
  <2>1. clock \in Nat /\ clock <= clock' /\ clock' \in Nat
    BY ConstantsAssumption DEF IInv
  <2> SUFFICES ASSUME NEW n \in 1..(Len(results) + 1)
               PROVE  ResultOf(call.items[n], results[n])'
    BY <1>4 DEF ResultInv
  <2>2. ResultOf(call.items[n], results'[n])
    <3>1. CASE n \in 1..Len(results)
      BY <1>2, <1>3, <3>1 DEF IInv, ResultInv
    <3>2. CASE n = Len(results) + 1
      BY <1>2, <1>3, <3>2
    <3> QED BY <1>3, <3>1, <3>2
  <2> QED BY <2>1, <2>2, ResultStays
<1> QED BY <1>2, <1>3, <1>4, <1>5, <1>6

\* What a batch counts.
Successes(rs) == {n \in DOMAIN rs : rs[n].error = None}
Failures(rs)  == {n \in DOMAIN rs : rs[n].error # None}

\* The counts of a batch, one result later.
LEMMA CountedProperties ==
    ASSUME NEW len \in Nat, NEW old, NEW new,
           DOMAIN old = 1..len, DOMAIN new = 1..(len + 1),
           \A n \in 1..len : new[n] = old[n]
    PROVE  /\ new[len + 1].error = None =>
                 /\ Cardinality(Successes(new)) = Cardinality(Successes(old)) + 1
                 /\ Cardinality(Failures(new)) = Cardinality(Failures(old))
           /\ new[len + 1].error # None =>
                 /\ Cardinality(Successes(new)) = Cardinality(Successes(old))
                 /\ Cardinality(Failures(new)) = Cardinality(Failures(old)) + 1
<1>1. IsFiniteSet(Successes(old)) /\ IsFiniteSet(Failures(old))
  <2>1. IsFiniteSet(1..len)
    BY FS_Interval
  <2> QED BY <2>1, FS_Subset DEF Successes, Failures
<1>2. 1..(len + 1) = (1..len) \cup {len + 1} /\ len + 1 \notin 1..len
  OBVIOUS
<1>3. len + 1 \notin Successes(old) /\ len + 1 \notin Failures(old)
  BY <1>2 DEF Successes, Failures
<1>4. CASE new[len + 1].error = None
  <2>1. Successes(new) = Successes(old) \cup {len + 1} /\ Failures(new) = Failures(old)
    BY <1>2, <1>4 DEF Successes, Failures
  <2>2. Cardinality(Successes(new)) = Cardinality(Successes(old)) + 1
    BY <1>1, <1>3, <2>1, FS_AddElement
  <2> QED BY <1>4, <2>1, <2>2
<1>5. CASE new[len + 1].error # None
  <2>1. Failures(new) = Failures(old) \cup {len + 1} /\ Successes(new) = Successes(old)
    BY <1>2, <1>5 DEF Successes, Failures
  <2>2. Cardinality(Failures(new)) = Cardinality(Failures(old)) + 1
    BY <1>1, <1>3, <2>1, FS_AddElement
  <2> QED BY <1>5, <2>1, <2>2
<1> QED BY <1>4, <1>5

\* A result that is delivered, and counted if the call is a batch.
LEMMA DeliverKeeps ==
    ASSUME IInv, Serving, UNCHANGED <<clock, settings, call>>,
           NEW result, ResultOf(Current, result),
           Deliver(result, call.endpoint = "batch" \/ result.error = None),
           pending' = None,
           succeeded' = IF call.endpoint = "batch" /\ result.error = None
                        THEN succeeded + 1 ELSE succeeded,
           failed' = IF call.endpoint = "batch" /\ result.error # None
                     THEN failed + 1 ELSE failed,
           status' \in {0, 200, 400, 413, 422, 500, 503},
           call.endpoint = "batch" => status' = IF pc' = "done" THEN 200 ELSE 0
    PROVE  IInv'
<1> DEFINE len == Len(results)
<1>1. /\ len \in Nat /\ DOMAIN results = 1..len
      /\ len + 1 <= Len(call.items) /\ Len(call.items) \in Nat
      /\ call.endpoint # "batch" => len + 1 = Len(call.items)
  BY CurrentProperties, CallProperties DEF IInv
<1>2. /\ ResultInv'
      /\ results' \in Seq(Range(results'))
      /\ Len(results') = len + 1
      /\ DOMAIN results' = 1..(len + 1)
      /\ \A n \in 1..len : results'[n] = results[n]
      /\ results'[len + 1] = result
  BY DeliveredProperties DEF Deliver
<1>3. pc' \in {"extract", "done"} /\ (pc' = "extract" <=> len + 1 < Len(call.items))
  BY <1>1, <1>2 DEF Deliver
<1>4. PendingInv'
  BY <1>3 DEF PendingInv
<1>5. ProgressInv'
  <2>1. \A n \in DOMAIN call.items : Accepts(call.endpoint, call.items[n])
    BY DEF IInv, ProgressInv
  <2> HIDE DEF len
  <2>2. Len(results') < Len(call'.items) \/ ~Serving'
    BY <1>2, <1>3 DEF Serving
  <2>3. Len(results') <= Len(call'.items) /\ pc' # "start"
    BY <1>1, <1>2, <1>3
  <2> QED BY <1>2, <2>1, <2>2, <2>3 DEF ProgressInv
<1>6. succeeded \in Nat /\ failed \in Nat
  BY DEF IInv
<1>7. BatchIsComplete'
  <2> SUFFICES ASSUME call.endpoint = "batch"
               PROVE  /\ succeeded' = Cardinality(Successes(results'))
                      /\ failed' = Cardinality(Failures(results'))
                      /\ pc' = "done" => status' = 200 /\ Len(results') = Len(call.items)
    <3>1. ASSUME NEW n \in DOMAIN results'
          PROVE  results'[n].error = None <=> Succeeds(call.items[n])'
      <4>1. PICK item : item = call.items[n]
        OBVIOUS
      <4>2. ResultOf(item, results[n])'
        BY <1>2, <4>1 DEF ResultInv
      <4>3. results'[n].error = None <=> Succeeds(item)'
        BY <4>2, ResultVerdict
      <4> QED BY <4>1, <4>3
    <3> QED BY <3>1 DEF BatchIsComplete, Successes, Failures
  <2>1. succeeded = Cardinality(Successes(results)) /\ failed = Cardinality(Failures(results))
    BY DEF IInv, BatchIsComplete, Successes, Failures
  <2>2. pc' = "done" => status' = 200 /\ Len(results') = Len(call.items)
    BY <1>1, <1>2, <1>3
  <2> HIDE DEF len
  <2>3. /\ result.error = None =>
              /\ Cardinality(Successes(results')) = Cardinality(Successes(results)) + 1
              /\ Cardinality(Failures(results')) = Cardinality(Failures(results))
        /\ result.error # None =>
              /\ Cardinality(Successes(results')) = Cardinality(Successes(results))
              /\ Cardinality(Failures(results')) = Cardinality(Failures(results)) + 1
    BY <1>1, <1>2, CountedProperties
  <2> QED BY <2>1, <2>2, <2>3
<1> QED BY <1>2, <1>3, <1>4, <1>5, <1>6, <1>7 DEF IInv

\* An error is answered with one of these statuses; a command has none.
LEMMA StatusTypes ==
    ASSUME NEW error
    PROVE  StatusOf(error) \in {0, 400, 413, 422, 500, 503}
  BY DEF StatusOf

\* What Start raises is an error or nothing.
LEMMA StartErrors ==
    /\ StartError \in {None, "validation_error", "batch_too_large"}
    /\ StartError = None =>
          \A n \in DOMAIN call.items : Accepts(call.endpoint, call.items[n])
    /\ call.endpoint # "batch" /\ StartError # None =>
          /\ StartError = "validation_error"
          /\ ~\A n \in DOMAIN call.items : Accepts(call.endpoint, call.items[n])
<1> DEFINE accepted == \A n \in DOMAIN call.items : Accepts(call.endpoint, call.items[n])
           checks == <<
        Raises("validation_error", call.endpoint = "batch" => Len(call.items) <= MaxItems),
        Raises("validation_error", accepted),
        Raises("batch_too_large", call.endpoint = "batch" => Len(call.items) <= MaxBatch) >>
           failing == {n \in DOMAIN checks : checks[n] # None}
<1>1. StartError = IF failing = {} THEN None ELSE checks[Min(failing)]
  BY DEF StartError, FirstError
<1>2. /\ DOMAIN checks = 1..3
      /\ checks[1] \in {None, "validation_error"}
      /\ checks[2] = IF accepted THEN None ELSE "validation_error"
      /\ checks[3] \in {None, "batch_too_large"}
      /\ call.endpoint # "batch" => checks[1] = None /\ checks[3] = None
  BY DEF Raises
<1>3. "validation_error" # None /\ "batch_too_large" # None
  BY ErrorNames
<1> HIDE DEF checks, accepted
<1>4. failing # {} => Min(failing) \in failing
  <2>1. failing \in SUBSET Nat
    BY <1>2
  <2> HIDE DEF failing
  <2> QED BY <2>1, MinIsLeast
<1>5. CASE failing = {}
  <2>1. checks[2] = None
    BY <1>2, <1>5
  <2> QED BY <1>1, <1>2, <1>3, <1>5, <2>1 DEF accepted
<1>6. CASE failing # {}
  <2> DEFINE n == Min(failing)
  <2>1. n \in 1..3 /\ checks[n] # None
    BY <1>2, <1>4, <1>6
  <2>2. StartError = checks[n]
    BY <1>1, <1>6
  <2> HIDE DEF n, failing
  <2>3. CASE n = 2
    BY <1>2, <2>1, <2>2, <2>3 DEF accepted
  <2>4. CASE n \in {1, 3}
    BY <1>2, <2>1, <2>2, <2>4 DEF accepted
  <2> QED BY <2>1, <2>3, <2>4
<1> QED BY <1>5, <1>6

\* Start: nothing is delivered yet, or the call is refused.
LEMMA StartKeeps ==
    ASSUME IInv, Start
    PROVE  IInv'
<1>1. results = <<>> /\ pending' = None
  BY DEF IInv, Start, ProgressInv, PendingInv
<1>2. /\ Len(results) = 0 /\ DOMAIN results = {}
      /\ Len(call.items) \in Nat /\ Len(call.items) > 0
      /\ DOMAIN call.items = 1..Len(call.items)
  BY <1>1, CallProperties, EmptySeq DEF IInv
<1>3. UNCHANGED <<clock, settings, call, succeeded, failed>> /\ pc' \in {"extract", "done"}
  BY DEF Start
<1>4. status' \in {0, 200, 400, 413, 422, 500, 503}
  BY StatusTypes DEF Start
<1>5. PendingInv'
  BY <1>1, <1>3 DEF PendingInv
<1>6. CASE StartError = None \/ call.endpoint = "batch"
  <2>1. results' = <<>>
    BY <1>6 DEF Start
  <2>2. ResultInv'
    BY <1>1, <1>2, <2>1 DEF ResultInv
  <2>3. ProgressInv'
    <3>1. Serving' => \A n \in DOMAIN call.items : Accepts(call.endpoint, call.items[n])
      BY StartErrors DEF Start, Serving
    <3> QED BY <1>1, <1>2, <1>3, <2>1, <3>1 DEF IInv, ProgressInv, Serving
  <2>4. BatchIsComplete'
    <3>1. call.endpoint = "batch" /\ pc' = "done" => status' \in {413, 422}
      BY StartErrors DEF Start, StatusOf, Commands
    <3> QED BY <1>1, <1>2, <1>3, <2>1, <3>1 DEF IInv, BatchIsComplete
  <2> QED BY <1>3, <1>4, <1>5, <2>2, <2>3, <2>4 DEF IInv
<1>7. CASE StartError # None /\ call.endpoint # "batch"
  <2> DEFINE result == Refusal(Current)
  <2>1. results' = <<result>> /\ pc' = "done"
    BY <1>7 DEF Start
  <2>2. DOMAIN results' = {1} /\ results'[1] = result /\ Len(results') = 1
    <3> HIDE DEF result
    <3> QED BY <2>1
  <2>3. Current = call.items[1]
    BY <1>1, <1>2 DEF Current
  <2>4. Failed(call.items[1], result)
    <3>1. 1 \in DOMAIN call.items /\ \A n \in DOMAIN call.items : n = 1
      <4>1. Len(call.items) = 1
        BY <1>7, CallProperties DEF IInv
      <4> QED BY <1>2, <4>1
    <3>2. ~Accepts(call.endpoint, call.items[1])
      BY <1>7, <3>1, StartErrors
    <3>3. result.error = "validation_error"
      BY DEF Refusal, Failure
    <3> QED BY <2>3, <3>2, <3>3, ErrorNames DEF Failed, Succeeds
  <2>5. ResultInv'
    <3>1. /\ ~Succeeds(call.items[1])' /\ results'[1].error \in Errors
          /\ results'[1] = Refusal(call.items[1])'
      <4>1. ~Succeeds(call.items[1]) /\ result.error \in Errors /\ result = Refusal(call.items[1])
        BY <2>3, <2>4 DEF Failed
      <4> HIDE DEF result
      <4> QED BY <1>3, <2>2, <4>1, ExtractedUnchanged
    <3>2. Failed(call.items[1], results[1])'
      BY <3>1 DEF Failed
    <3> HIDE DEF result
    <3> QED BY <1>3, <2>2, <3>2 DEF ResultInv, ResultOf
  <2>6. results' \in Seq(Range(results'))
    <3> HIDE DEF result
    <3>1. Range(results') = {result}
      BY <2>2 DEF Range
    <3> QED BY <2>1, <3>1
  <2>7. ProgressInv'
    BY <1>2, <1>3, <2>1, <2>2, <2>6 DEF ProgressInv, Serving
  <2>8. BatchIsComplete'
    BY <1>3, <1>7 DEF BatchIsComplete
  <2> QED BY <1>3, <1>4, <1>5, <2>5, <2>7, <2>8 DEF IInv
<1> QED BY <1>6, <1>7

\* An item that raises has its result, an error; outside a batch it ends the call.
LEMMA FailKeeps ==
    ASSUME IInv, Serving, UNCHANGED <<clock, settings, call>>,
           NEW error \in Errors, Fail(error), ~Succeeds(Current)
    PROVE  IInv'
<1> DEFINE result == Failure(error)
<1>1. result.error = error /\ error # None /\ Failed(Current, result)
  BY ErrorNames DEF Failure, Failed
<1>2. ResultOf(Current, result)
  BY <1>1 DEF ResultOf
<1>3. /\ Deliver(result, call.endpoint = "batch")
      /\ pending' = None /\ succeeded' = succeeded
      /\ failed' = IF call.endpoint = "batch" THEN failed + 1 ELSE failed
      /\ status' \in {0, 200, 400, 413, 422, 500, 503}
      /\ call.endpoint = "batch" => status' = IF pc' = "done" THEN 200 ELSE 0
  BY StatusTypes DEF Fail
<1>4. Deliver(result, call.endpoint = "batch" \/ result.error = None)
  BY <1>1, <1>3
<1> HIDE DEF result
<1> QED BY <1>1, <1>2, <1>3, <1>4, DeliverKeeps

\* The answer under way is kept, with nothing delivered.
LEMMA KeptWhileServing ==
    ASSUME IInv, Serving, Serving', PendingInv',
           UNCHANGED <<clock, settings, call, results, succeeded, failed, status>>
    PROVE  IInv'
<1>1. ResultInv'
  <2>1. \A i, result : ResultOf(i, result) => ResultOf(i, result)'
    BY ConstantsAssumption, ResultStays DEF IInv
  <2> QED BY <2>1 DEF IInv, ResultInv
<1>2. ProgressInv'
  BY DEF IInv, ProgressInv, Serving
<1>3. BatchIsComplete'
  BY ExtractedUnchanged DEF IInv, BatchIsComplete, Serving
<1> QED BY <1>1, <1>2, <1>3 DEF IInv, Serving

\* Extract: the item fails, or waits for its answer with the code of this time.
LEMMA ExtractKeeps ==
    ASSUME IInv, Extract
    PROVE  IInv'
<1> DEFINE o == Extracted(Current)
<1>1. pc = "extract" /\ Serving /\ UNCHANGED <<clock, settings, call>>
  BY DEF Extract, Serving
<1>2. Sound(o) /\ Accepts(call.endpoint, Current)
  <2>1. /\ Current = call.items[Len(results) + 1] /\ Len(results) + 1 \in DOMAIN call.items
        /\ Accepts(call.endpoint, Current)
    BY <1>1, CurrentProperties
  <2> QED BY <2>1, InputProperties, ExtractedSound DEF IInv
<1>3. CASE o.error # None /\ Fail(o.error)
  BY <1>1, <1>2, <1>3, FailKeeps DEF Sound, Succeeds
<1>4. CASE CodeFails(o.config) /\ Fail("unexpected")
  BY <1>1, <1>4, ErrorNames, FailKeeps DEF Succeeds
<1>5. CASE /\ o.error = None /\ ~CodeFails(o.config)
           /\ pending' = Made(Current, o.config, clock)
           /\ pc' = "respond"
           /\ UNCHANGED <<results, succeeded, failed, status>>
  <2>1. Current' = Current
    BY <1>1, <1>5 DEF Current
  <2>2. clock \in MinTime..clock /\ clock' = clock
    BY <1>1, ConstantsAssumption DEF IInv
  <2>3. PendingInv'
    <3>1. Succeeds(Current)' /\ pending' = Made(Current, o.config, clock)'
          /\ o.config' = o.config
      BY <1>1, <1>2, <1>5, <2>1, <2>2, ExtractedUnchanged DEF Succeeds
    <3> QED BY <1>5, <2>1, <2>2, <3>1 DEF PendingInv
  <2> QED BY <1>1, <1>5, <2>3, KeptWhileServing DEF Serving
<1> QED BY <1>3, <1>4, <1>5 DEF Extract

\* ReadRemaining: the seconds left are those of a later reading.
LEMMA ReadRemainingKeeps ==
    ASSUME IInv, ReadRemaining
    PROVE  IInv'
<1> DEFINE c == Extracted(Current).config
<1>1. /\ pc = "respond" /\ pc' = "stamp" /\ Timed
      /\ UNCHANGED <<clock, settings, call, results, succeeded, failed, status>>
      /\ pending' = [pending EXCEPT !.remaining = Remaining(pending.config, clock)]
  BY DEF ReadRemaining
<1>2. PICK t \in MinTime..clock : pending = Made(Current, c, t)
  BY <1>1 DEF IInv, PendingInv
<1>3. Succeeds(Current)
  BY <1>1 DEF IInv, PendingInv
<1>4. pending' = [Answer(Current, t, clock, clock) EXCEPT !.at = None]
  <2>1. pending.config = c
    BY <1>2 DEF Made
  <2>2. Answer(Current, t, clock, clock)
          = [Made(Current, c, t) EXCEPT !.remaining = Remaining(c, clock), !.at = clock]
    BY <1>1 DEF Answer
  <2> DEFINE remaining == Remaining(c, clock)
             code == IF Parsing THEN None ELSE CodeAt(c, t)
             codedAt == IF Parsing THEN None ELSE t
             secret == Secret(Current, c)
  <2>3. Made(Current, c, t) =
          [error |-> None, config |-> c, code |-> code, codedAt |-> codedAt,
           secret |-> secret, remaining |-> None, at |-> None]
    BY DEF Made
  <2>4. pending' = [pending EXCEPT !.remaining = remaining]
    BY <1>1, <2>1
  <2> HIDE DEF c, remaining, code, codedAt, secret
  <2>5. pending' = [error |-> None, config |-> c, code |-> code, codedAt |-> codedAt,
                    secret |-> secret, remaining |-> remaining, at |-> None]
    BY <1>2, <2>3, <2>4
  <2>6. Answer(Current, t, clock, clock)
          = [error |-> None, config |-> c, code |-> code, codedAt |-> codedAt,
             secret |-> secret, remaining |-> remaining, at |-> clock]
    <3> DEFINE made == Made(Current, c, t)
               answer == Answer(Current, t, clock, clock)
    <3>1. answer = [made EXCEPT !.remaining = remaining, !.at = clock]
      BY <2>2 DEF remaining
    <3>2. made = [error |-> None, config |-> c, code |-> code, codedAt |-> codedAt,
                  secret |-> secret, remaining |-> None, at |-> None]
      BY <2>3
    <3> HIDE DEF made, answer
    <3>3. answer = [error |-> None, config |-> c, code |-> code, codedAt |-> codedAt,
                    secret |-> secret, remaining |-> remaining, at |-> clock]
      BY <3>1, <3>2
    <3> QED BY <3>3 DEF answer
  <2> QED BY <2>5, <2>6
<1>5. Current' = Current /\ Succeeds(Current)' /\ Timed'
      /\ Answer(Current, t, clock, clock)' = Answer(Current, t, clock, clock)
  <2>1. Current' = Current
    BY <1>1 DEF Current
  <2> QED BY <1>1, <1>3, <2>1, ExtractedUnchanged
<1>6. t \in MinTime..clock' /\ clock' \in MinTime..clock' /\ t <= clock'
  <2>1. clock' = clock
    BY <1>1
  <2>2. clock \in MinTime..MaxTime
    BY Zenon DEF IInv
  <2>3. MinTime \in Nat /\ MaxTime \in Nat
    BY ConstantsAssumption, Zenon
  <2> QED BY <2>1, <2>2, <2>3
<1>7. PendingInv'
  <2>1. pending' = [Answer(Current, t, clock, clock)' EXCEPT !.at = None]
    BY <1>4, <1>5
  <2>2. pc' = "stamp" /\ Succeeds(Current)' /\ Timed'
    BY <1>1, <1>5
  <2>3. \E a, b \in MinTime..clock' :
           a <= b /\ pending' = [Answer(Current, a, b, b)' EXCEPT !.at = None]
    BY <1>6, <2>1
  <2> QED BY <2>2, <2>3 DEF PendingInv
<1> QED BY <1>1, <1>7, KeptWhileServing DEF Serving

\* An answer that is delivered.
LEMMA RespondKeeps ==
    ASSUME IInv, Serving, NEW answer, Respond(answer), Succeeds(Current),
           NEW t \in MinTime..clock, NEW u \in MinTime..clock, t <= u,
           answer = Answer(Current, t, u, clock)
    PROVE  IInv'
<1>1. UNCHANGED <<clock, settings, call>>
  BY DEF Respond
<1>2. ResultOf(Current, answer)
  <2>1. clock \in MinTime..clock /\ u <= clock
    BY ConstantsAssumption DEF IInv
  <2> QED BY <2>1 DEF ResultOf
<1>3. /\ Deliver(answer, TRUE)
      /\ succeeded' = IF call.endpoint = "batch" THEN succeeded + 1 ELSE succeeded
      /\ status' = IF pc' = "done" /\ call.endpoint \notin Commands THEN 200 ELSE 0
      /\ pending' = None /\ failed' = failed
  BY DEF Respond
<1>4. answer.error = None
  BY DEF Answer, Made
<1>5. call.endpoint = "batch" => call.endpoint \notin Commands
  BY DEF Commands
<1>6. Deliver(answer, call.endpoint = "batch" \/ answer.error = None)
  BY <1>3, <1>4
<1> QED BY <1>1, <1>2, <1>3, <1>4, <1>5, <1>6, DeliverKeeps

\* Stamp: the answer is completed by a third reading of the clock.
LEMMA StampKeeps ==
    ASSUME IInv, Stamp
    PROVE  IInv'
<1>1. pc = "stamp" /\ Serving /\ Respond([pending EXCEPT !.at = clock])
  BY DEF Stamp, Serving
<1>2. PICK t \in MinTime..clock, u \in MinTime..clock :
        t <= u /\ pending = [Answer(Current, t, u, u) EXCEPT !.at = None]
  BY <1>1 DEF IInv, PendingInv
<1>3. Timed /\ Succeeds(Current)
  BY <1>1 DEF IInv, PendingInv
<1>4. [pending EXCEPT !.at = clock] = Answer(Current, t, u, clock)
  BY <1>2, <1>3 DEF Answer, Made
<1> QED BY <1>1, <1>2, <1>3, <1>4, RespondKeeps

\* Show: the answer has no time.
LEMMA ShowKeeps ==
    ASSUME IInv, Show
    PROVE  IInv'
<1>1. pc = "respond" /\ Serving /\ ~Timed /\ Respond(pending)
  BY DEF Show, Serving
<1>2. PICK t \in MinTime..clock : pending = Made(Current, Extracted(Current).config, t)
  BY <1>1 DEF IInv, PendingInv
<1>3. Succeeds(Current)
  BY <1>1 DEF IInv, PendingInv
<1>4. pending = Answer(Current, t, t, clock) /\ t <= t
  BY <1>1, <1>2, ConstantsAssumption DEF Answer, IInv
<1> QED BY <1>1, <1>3, <1>4, RespondKeeps

\* The clock moves and nothing else does.
LEMMA UnchangedKeeps ==
    ASSUME IInv, UNCHANGED <<settings, call, pc, pending, results, succeeded, failed, status>>,
           clock' \in MinTime..MaxTime, clock <= clock'
    PROVE  IInv'
<1>1. clock \in Nat /\ clock' \in Nat /\ UNCHANGED <<settings, call>>
  BY ConstantsAssumption DEF IInv
<1>2. ResultInv'
  <2>1. \A i, result : ResultOf(i, result) => ResultOf(i, result)'
    BY <1>1, ResultStays
  <2> QED BY <2>1 DEF IInv, ResultInv
<1>3. PendingInv'
  <2>1. /\ Current' = Current /\ Extracted(Current)' = Extracted(Current)
        /\ Succeeds(Current)' = Succeeds(Current) /\ Timed' = Timed
        /\ \A c, t : Made(Current, c, t)' = Made(Current, c, t)
        /\ \A t, u : Answer(Current, t, u, u)' = Answer(Current, t, u, u)
    <3>1. Current' = Current
      BY DEF Current
    <3> QED BY <3>1, ExtractedUnchanged
  <2>2. \A t \in MinTime..clock : t \in MinTime..clock'
    BY <1>1, ConstantsAssumption
  <2>3. CASE pc = "respond"
    <3>1. PICK t \in MinTime..clock : pending = Made(Current, Extracted(Current).config, t)
      BY <2>3 DEF IInv, PendingInv
    <3>2. pending' = Made(Current, Extracted(Current).config, t)'
      BY <2>1, <3>1
    <3>3. Succeeds(Current)'
      BY <2>1, <2>3 DEF IInv, PendingInv
    <3> QED BY <2>2, <2>3, <3>2, <3>3 DEF PendingInv
  <2>4. CASE pc = "stamp"
    <3>1. PICK t \in MinTime..clock, u \in MinTime..clock :
            t <= u /\ pending = [Answer(Current, t, u, u) EXCEPT !.at = None]
      BY <2>4 DEF IInv, PendingInv
    <3>2. pending' = [Answer(Current, t, u, u)' EXCEPT !.at = None]
      BY <2>1, <3>1
    <3>3. Succeeds(Current)' /\ Timed'
      BY <2>1, <2>4 DEF IInv, PendingInv
    <3> QED BY <2>2, <2>4, <3>1, <3>2, <3>3 DEF PendingInv
  <2>5. CASE pc \notin {"respond", "stamp"}
    BY <2>5 DEF IInv, PendingInv
  <2> QED BY <2>3, <2>4, <2>5
<1>4. ProgressInv'
  BY DEF IInv, ProgressInv, Serving
<1>5. BatchIsComplete'
  BY ExtractedUnchanged DEF IInv, BatchIsComplete
<1> QED BY <1>2, <1>3, <1>4, <1>5 DEF IInv

-----------------------------------------------------------------------------
(* The theorems *)

\* Every result is the answer to the item at its place, in the order of the
\* items, from three readings of the clock.
THEOREM Inductive == Spec => []IInv
<1>1. Init => IInv
  <2> SUFFICES ASSUME Init
               PROVE  IInv
    OBVIOUS
  <2>1. results = <<>> /\ DOMAIN results = {} /\ Len(results) = 0 /\ Len(call.items) \in Nat
    BY CallProperties, EmptySeq DEF Init
  <2>2. {n \in DOMAIN results : results[n].error = None} = {}
        /\ {n \in DOMAIN results : results[n].error # None} = {}
    BY <2>1
  <2>3. BatchIsComplete
    BY <2>1, <2>2, FS_EmptySet DEF Init, BatchIsComplete
  <2>4. ProgressInv
    <3>1. results \in Seq(Range(results))
      BY <2>1, EmptySeq
    <3>2. Len(call.items) > 0
      BY CallProperties DEF Init
    <3> QED BY <2>1, <3>1, <3>2 DEF Init, ProgressInv, Serving
  <2> QED BY <2>1, <2>3, <2>4 DEF Init, IInv, ResultInv, PendingInv
<1>2. IInv /\ [Next]_vars => IInv'
  <2> SUFFICES ASSUME IInv, [Next]_vars
               PROVE  IInv'
    OBVIOUS
  <2>1. CASE Start
    BY <2>1, StartKeeps
  <2>2. CASE Extract
    BY <2>2, ExtractKeeps
  <2>3. CASE ReadRemaining
    BY <2>3, ReadRemainingKeeps
  <2>4. CASE Stamp
    BY <2>4, StampKeeps
  <2>5. CASE Show
    BY <2>5, ShowKeeps
  <2>6. CASE Tick
    <3>1. clock' \in MinTime..MaxTime /\ clock <= clock'
      BY <2>6, ConstantsAssumption DEF Tick, IInv
    <3> QED BY <2>6, <3>1, UnchangedKeeps DEF Tick
  <2>7. CASE UNCHANGED vars
    <3>1. clock' \in MinTime..MaxTime /\ clock <= clock'
      BY <2>7, ConstantsAssumption DEF vars, IInv
    <3> QED BY <2>7, <3>1, UnchangedKeeps DEF vars
  <2> QED BY <2>1, <2>2, <2>3, <2>4, <2>5, <2>6, <2>7 DEF Next
<1> QED BY <1>1, <1>2, PTL DEF Spec

\* What a successful result is made of.
LEMMA SuccessProperties ==
    ASSUME IInv, NEW n \in DOMAIN results, results[n].error = None
    PROVE  \E t, u, at \in MinTime..clock :
              LET i == call.items[n] IN
              /\ t <= u /\ u <= at /\ t \in Nat /\ u \in Nat /\ at \in Nat
              /\ results[n] = Answer(i, t, u, at)
              /\ i \in Item /\ Succeeds(i) /\ Agrees(i)
              /\ Extracted(i) = Outcome(None, Extracted(i).config)
              /\ Supported(Extracted(i).config)
<1>1. ResultOf(call.items[n], results[n]) /\ ~Failed(call.items[n], results[n])
  BY ErrorNames DEF IInv, ResultInv, Failed
<1>2. PICK t \in MinTime..clock, u \in MinTime..clock, at \in MinTime..clock :
        t <= u /\ u <= at /\ results[n] = Answer(call.items[n], t, u, at)
  BY <1>1 DEF ResultOf
<1>3. Succeeds(call.items[n])
  BY <1>1 DEF ResultOf
<1>4. n \in DOMAIN call.items
  BY CallProperties, LenProperties DEF IInv, ProgressInv
<1>5. Sound(Extracted(call.items[n])) /\ Agrees(call.items[n]) /\ call.items[n] \in Item
  BY <1>4, InputProperties, ExtractedSound DEF IInv
<1>6. t \in Nat /\ u \in Nat /\ at \in Nat
  BY ConstantsAssumption DEF IInv
<1> QED BY <1>2, <1>3, <1>5, <1>6, SoundOutcome DEF Succeeds

\* The parts of an answer.
LEMMA AnswerParts ==
    ASSUME NEW i, NEW t, NEW u, NEW at
    PROVE  LET c == Extracted(i).config
               r == Answer(i, t, u, at)
           IN  /\ r.config = c
               /\ r.code = IF Parsing THEN None ELSE CodeAt(c, t)
               /\ r.codedAt = IF Parsing THEN None ELSE t
               /\ r.secret = Secret(i, c)
               /\ r.remaining = IF Timed THEN Remaining(c, u) ELSE None
               /\ r.at = IF Timed THEN at ELSE None
               /\ r = [error |-> None, config |-> r.config, code |-> r.code,
                       codedAt |-> r.codedAt, secret |-> r.secret,
                       remaining |-> r.remaining, at |-> r.at]
<1> DEFINE c == Extracted(i).config
<1>1. CASE Timed
  <2>1. Answer(i, t, u, at) = [Made(i, c, t) EXCEPT !.remaining = Remaining(c, u), !.at = at]
    BY <1>1 DEF Answer
  <2> HIDE DEF c
  <2>2. Answer(i, t, u, at) =
          [error |-> None, config |-> c, code |-> IF Parsing THEN None ELSE CodeAt(c, t),
           codedAt |-> IF Parsing THEN None ELSE t, secret |-> Secret(i, c),
           remaining |-> Remaining(c, u), at |-> at]
    BY <2>1 DEF Made
  <2> QED BY <1>1, <2>2 DEF c
<1>2. CASE ~Timed
  <2>1. Answer(i, t, u, at) = Made(i, c, t)
    BY <1>2 DEF Answer
  <2> HIDE DEF c
  <2>2. Answer(i, t, u, at) =
          [error |-> None, config |-> c, code |-> IF Parsing THEN None ELSE CodeAt(c, t),
           codedAt |-> IF Parsing THEN None ELSE t, secret |-> Secret(i, c),
           remaining |-> None, at |-> None]
    BY <2>1 DEF Made
  <2> QED BY <1>2, <2>2 DEF c
<1> QED BY <1>1, <1>2

\* A batch answers each of its items, and its counters agree with its results.
THEOREM BatchComplete == Spec => []BatchIsComplete
<1>1. IInv => BatchIsComplete
  BY DEF IInv
<1> QED BY <1>1, Inductive, PTL

\* A slot and what is left of it, when that is read at u and the answer is stamped at.
LEMMA Slots ==
    ASSUME NEW period \in SupportedPeriods,
           NEW t \in Nat, NEW u \in Nat, NEW at \in Nat, t <= u, u <= at
    PROVE  LET slotEnd == (t \div period + 1) * period
               stated  == at + (period - (u % period))
           IN  stated >= slotEnd /\ (at < slotEnd => stated - slotEnd <= at - t)
<1>1. CASE period = 15
  BY <1>1
<1>2. CASE period = 30
  BY <1>2
<1>3. CASE period = 60
  BY <1>3
<1>4. CASE period = 90
  BY <1>4
<1>5. CASE period = 120
  BY <1>5
<1>6. CASE period = 300
  BY <1>6
<1> QED BY <1>1, <1>2, <1>3, <1>4, <1>5, <1>6 DEF SupportedPeriods

\* Slots and offsets within them are numbers.
LEMMA SlotsAreNat ==
    ASSUME NEW period \in SupportedPeriods, NEW t \in Nat
    PROVE  t \div period \in Nat /\ t % period \in Nat
  BY DEF SupportedPeriods

\* No code ends later than its answer says, and one that is still good when it is
\* answered no earlier than that by more than the time the answer took.
THEOREM ExpiryStated == Spec => []ExpiryNotUnderstated
<1>1. IInv => ExpiryNotUnderstated
  <2> SUFFICES ASSUME IInv, NEW n \in DOMAIN results,
                      results[n].error = None, results[n].remaining # None
               PROVE  LET r       == results[n]
                          slotEnd == (r.code.moving + 1) * r.config.period
                          stated  == r.at + r.remaining
                      IN  /\ stated >= slotEnd
                          /\ r.at < slotEnd => stated - slotEnd <= r.at - r.codedAt
    BY DEF ExpiryNotUnderstated, Answered
  <2> DEFINE c == Extracted(call.items[n]).config
  <2>1. PICK t \in MinTime..clock, u \in MinTime..clock, at \in MinTime..clock :
          /\ t <= u /\ u <= at /\ t \in Nat /\ u \in Nat /\ at \in Nat
          /\ results[n] = Answer(call.items[n], t, u, at)
          /\ Supported(c)
    BY SuccessProperties
  <2>2. Timed /\ ~Parsing
    BY <2>1, AnswerParts DEF Timed, Parsing, Commands
  <2>3. /\ results[n].remaining = Remaining(c, u) /\ results[n].code = CodeAt(c, t)
        /\ results[n].config = c /\ results[n].at = at /\ results[n].codedAt = t
    BY <2>1, <2>2, AnswerParts
  <2>4. c.type = "totp" /\ c.period \in SupportedPeriods
    BY <2>1, <2>3 DEF Remaining, Supported
  <2>5. /\ results[n].remaining = c.period - (u % c.period)
        /\ results[n].code.moving = t \div c.period
    BY <2>3, <2>4 DEF Remaining, CodeAt
  <2>6. LET slotEnd == (t \div c.period + 1) * c.period
            stated  == at + (c.period - (u % c.period))
        IN  stated >= slotEnd /\ (at < slotEnd => stated - slotEnd <= at - t)
    BY <2>1, <2>4, Slots
  <2> HIDE DEF c
  <2> QED BY <2>3, <2>5, <2>6
<1> QED BY <1>1, Inductive, PTL

\* A code is only ever computed from supported parameters.
THEOREM ParametersSupported == Spec => []OnlySupportedParameters
<1>1. IInv => OnlySupportedParameters
  <2> SUFFICES ASSUME IInv, NEW n \in DOMAIN results,
                      results[n].error = None, results[n].code # None
               PROVE  LET c == results[n].config IN
                      /\ c.algorithm \in SupportedAlgorithms
                      /\ c.digits \in SupportedDigits
                      /\ c.type = "totp" => c.period \in SupportedPeriods
                      /\ results[n].code.moving >= 0
    BY DEF OnlySupportedParameters, Answered
  <2> DEFINE c == Extracted(call.items[n]).config
  <2>1. PICK t \in MinTime..clock, u \in MinTime..clock, at \in MinTime..clock :
          /\ t \in Nat /\ results[n] = Answer(call.items[n], t, u, at)
          /\ Succeeds(call.items[n]) /\ Supported(c)
    BY SuccessProperties
  <2>2. ~Parsing /\ results[n].code = CodeAt(c, t) /\ results[n].config = c
    BY <2>1, AnswerParts
  <2>3. c.type = "hotp" => c.counter \in Int /\ c.counter >= 0
    BY <2>1, <2>2 DEF Succeeds, CodeFails, Supported
  <2>4. c.type = "totp" => c.period \in SupportedPeriods /\ t \div c.period >= 0
    BY <2>1, SlotsAreNat DEF Supported
  <2>5. /\ c.type \in {"totp", "hotp"} /\ c.digits \in SupportedDigits
        /\ c.algorithm \in SupportedAlgorithms
    BY <2>1 DEF Supported, Config
  <2> HIDE DEF c
  <2> QED BY <2>2, <2>3, <2>4, <2>5 DEF CodeAt
<1> QED BY <1>1, Inductive, PTL

\* What the endpoint for one kind reads, and when it refuses that for its length only.
LEMMA WouldReadCases ==
    ASSUME NEW i, NEW config
    PROVE  /\ FromUri(i.uri) = Outcome(None, config) => WouldRead("from-uri", i, config)
           /\ FromQr(i.image) = Outcome(None, config) => WouldRead("from-qr-base64", i, config)
           /\ /\ FromSecret(i) = Outcome(None, config)
              /\ i.counter # None => i.counter >= 0
              => WouldRead("from-secret", i, config)
<1>1. /\ Reads("from-uri", i) = FromUri(i.uri)
      /\ Reads("from-qr-base64", i) = FromQr(i.image)
      /\ Reads("from-secret", i) = FromSecret(i)
  BY DEF Reads, Commands
<1>2. /\ Fits("from-uri", i) => Accepts("from-uri", i)
      /\ Fits("from-qr-base64", i) => Accepts("from-qr-base64", i)
      /\ Fits("from-secret", i) /\ (i.counter # None => i.counter >= 0)
            => Accepts("from-secret", i)
  BY DEF Accepts
<1> QED BY <1>1, <1>2 DEF WouldRead

\* from-string, a batch and the command line take nothing that the endpoint for the
\* kind of the input would read otherwise, or refuse for more than its length.
THEOREM AllEntrancesAgree == Spec => []EntrancesAgree
<1>1. IInv => EntrancesAgree
  <2> SUFFICES ASSUME IInv, call.endpoint \in {"from-string", "batch", "code"},
                      NEW n \in DOMAIN results, results[n].error = None
               PROVE  LET i      == call.items[n]
                          alone  == IF call.endpoint = "from-string" THEN Bare(i.secret) ELSE i
                          config == results[n].config
                      IN  \/ i.uri # None    /\ WouldRead("from-uri", i, config)
                          \/ i.image # None  /\ WouldRead("from-qr-base64", i, config)
                          \/ i.secret # None /\ WouldRead("from-secret", alone, config)
    BY DEF EntrancesAgree, Answered
  <2> DEFINE i == call.items[n]
             alone == IF call.endpoint = "from-string" THEN Bare(i.secret) ELSE i
             config == results[n].config
  <2>1. PICK t \in MinTime..clock, u \in MinTime..clock, at \in MinTime..clock :
          /\ results[n] = Answer(i, t, u, at)
          /\ i \in Item /\ Succeeds(i) /\ Agrees(i)
          /\ Extracted(i) = Outcome(None, Extracted(i).config)
    BY SuccessProperties
  <2>2. /\ Extracted(i) = Outcome(None, config) /\ Extracted(i).error = None
        /\ ~CodeFails(config)
    BY <2>1, AnswerParts DEF Succeeds
  <2>3. CASE i.uri # None /\ Extracted(i) = FromUri(i.uri)
    BY <2>2, <2>3, WouldReadCases
  <2>4. CASE i.image # None /\ Extracted(i) = FromQr(i.image)
    BY <2>2, <2>4, WouldReadCases
  <2>5. CASE i.secret # None /\ Extracted(i) = FromSecret(alone)
    <3>1. alone \in Item
      BY <2>1, <2>5, ItemFields, BareType
    <3>2. FromSecret(alone) = Outcome(None, config) /\ Outcome(None, config).config = config
      BY <2>2, <2>5 DEF Outcome
    <3>3. config.counter = alone.counter /\ (alone.counter # None => config.type = "hotp")
      <4>1. settings \in Configured
        BY DEF IInv
      <4> HIDE DEF alone, config
      <4> QED BY <2>2, <2>5, <3>1, <3>2, <4>1, FromSecretSound
    <3>4. alone.counter # None => alone.counter >= 0
      <4>1. ~Parsing
        BY DEF Parsing
      <4>2. alone.counter # None => alone.counter \in Int
        BY <3>1, ItemFields
      <4> HIDE DEF alone, config
      <4> QED BY <2>2, <3>3, <4>1, <4>2 DEF CodeFails
    <3> HIDE DEF alone, config
    <3>5. WouldRead("from-secret", alone, config)
      BY <3>2, <3>4, WouldReadCases
    <3> QED BY <2>5, <3>5 DEF alone, config
  <2> QED BY <2>1, <2>2, <2>3, <2>4, <2>5 DEF Agrees
<1> QED BY <1>1, Inductive, PTL

\* The key of every code is the text of the secret itself, for any secret.
THEOREM KeysAreTexts == Spec => []KeyIsText
<1>1. IInv => KeyIsText
  <2> SUFFICES ASSUME IInv, NEW n \in DOMAIN results,
                      results[n].error = None, results[n].code # None
               PROVE  LET secret == results[n].config.secret IN
                      results[n].code.key = Ascii(secret.digits, secret.pad)
    BY DEF KeyIsText, Answered
  <2> DEFINE c == Extracted(call.items[n]).config
  <2>1. PICK t \in MinTime..clock, u \in MinTime..clock, at \in MinTime..clock :
          results[n] = Answer(call.items[n], t, u, at) /\ Supported(c)
    BY SuccessProperties
  <2>2. results[n].code = CodeAt(c, t) /\ results[n].config = c
    BY <2>1, AnswerParts
  <2>3. c.secret \in Text
    BY <2>1 DEF Supported, Config
  <2> HIDE DEF c
  <2>4. CodeAt(c, t).key = Key(c)
    BY DEF CodeAt
  <2> QED BY <2>2, <2>3, <2>4, KeyProperties
<1> QED BY <1>1, Inductive, PTL

\* What generate_code returns.
LEMMA CodeType ==
    ASSUME NEW c, Supported(c), ~(c.type = "hotp" /\ c.counter < 0), NEW t \in Nat
    PROVE  CodeAt(c, t) \in Code
<1>1. Key(c) \in Seq(0..255)
  BY KeyProperties DEF Supported, Config
<1>2. c.type = "hotp" => c.counter \in Nat
  BY DEF Supported
<1>3. c.type = "totp" => t \div c.period \in Nat
  BY SlotsAreNat DEF Supported
<1>4. c.type \in {"totp", "hotp"}
  BY DEF Supported, Config
<1> QED BY <1>1, <1>2, <1>3, <1>4 DEF CodeAt, Code

\* Whatever an item that succeeds is answered with is a result, whole or in parts.
LEMMA AnswerType ==
    ASSUME IInv, NEW n \in DOMAIN call.items, Succeeds(call.items[n]),
           NEW t \in Nat, NEW u \in Nat, NEW at \in Nat
    PROVE  /\ Answer(call.items[n], t, u, at) \in Result
           /\ [Answer(call.items[n], t, u, at) EXCEPT !.at = None] \in Result
           /\ Made(call.items[n], Extracted(call.items[n]).config, t) \in Result
<1> DEFINE i == call.items[n]
           c == Extracted(i).config
           a == Answer(i, t, u, at)
           m == Made(i, c, t)
<1>1. Supported(c)
  BY InputProperties, ExtractedSound, SoundOutcome DEF IInv, Succeeds
<1>2. c \in Config /\ c.secret \in Text
  BY <1>1 DEF Supported, Config
<1>3. ~Parsing => CodeAt(c, t) \in Code
  BY <1>1, CodeType DEF Succeeds, CodeFails
<1>4. Remaining(c, u) \in Optional(Int)
  <2>1. c.type = "totp" => c.period \in SupportedPeriods /\ u % c.period \in Nat
    BY <1>1, SlotsAreNat DEF Supported
  <2>2. c.type = "totp" => c.period - (u % c.period) \in Int
    BY <2>1 DEF SupportedPeriods
  <2> QED BY <2>2 DEF Remaining, Optional
<1>5. Secret(i, c) \in Optional(Text)
  BY <1>2 DEF Secret, Optional
<1>6. /\ a.config = c /\ a.code \in Optional(Code) /\ a.codedAt \in Optional(Nat)
      /\ a.secret \in Optional(Text) /\ a.remaining \in Optional(Int) /\ a.at \in Optional(Nat)
  BY <1>3, <1>4, <1>5, AnswerParts DEF Optional
<1>7. a = [error |-> None, config |-> a.config, code |-> a.code, codedAt |-> a.codedAt,
           secret |-> a.secret, remaining |-> a.remaining, at |-> a.at]
  BY AnswerParts
<1>8. m = [error |-> None, config |-> c, code |-> a.code, codedAt |-> a.codedAt,
           secret |-> a.secret, remaining |-> None, at |-> None]
  BY AnswerParts DEF Made
<1> HIDE DEF i, c, a, m
<1>9. a \in Result /\ [a EXCEPT !.at = None] \in Result
  BY <1>2, <1>6, <1>7 DEF Result, Optional
<1>10. m \in Result
  BY <1>2, <1>6, <1>8 DEF Result, Optional
<1> QED BY <1>9, <1>10 DEF i, c, a, m

\* A failure is a result, and so is a refusal, with a secret of the input.
LEMMA FailedType ==
    ASSUME IInv, NEW n \in DOMAIN call.items, NEW result, Failed(call.items[n], result)
    PROVE  result \in Result
<1> DEFINE i == call.items[n]
<1>1. i \in Item
  BY InputProperties DEF IInv
<1>2. Echo(i) \in Optional(Text)
  <2>1. i.secret \in Optional(Text) /\ (i.uri # None => i.uri.secret \in Optional(Text))
    BY <1>1 DEF Item, Uri, Optional
  <2> QED BY <2>1 DEF Echo, Optional
<1>3. CASE result = Failure(result.error)
  BY <1>3 DEF Failed, Failure, Result, Optional
<1>4. CASE result = Refusal(i)
  <2>1. result = [error |-> "validation_error", config |-> None, code |-> None,
                  codedAt |-> None, secret |-> Echo(i), remaining |-> None, at |-> None]
    BY <1>4 DEF Refusal, Failure
  <2> QED BY <1>2, <2>1, ErrorNames DEF Result, Optional
<1> QED BY <1>3, <1>4 DEF Failed

\* Every variable has its type.
THEOREM TypeCorrect == Spec => []TypeOK
<1>1. IInv => TypeOK
  <2> SUFFICES ASSUME IInv
               PROVE  TypeOK
    OBVIOUS
  <2>1. MinTime..clock \subseteq Nat
    BY ConstantsAssumption DEF IInv
  <2>2. pending \in Optional(Result)
    <3>1. CASE pc = "respond"
      <4>1. Current = call.items[Len(results) + 1] /\ Len(results) + 1 \in DOMAIN call.items
        BY <3>1, CurrentProperties DEF Serving
      <4>2. PICK t \in MinTime..clock : pending = Made(Current, Extracted(Current).config, t)
        BY <3>1 DEF IInv, PendingInv
      <4>3. Succeeds(Current) /\ t \in Nat
        BY <2>1, <3>1 DEF IInv, PendingInv
      <4> QED BY <4>1, <4>2, <4>3, AnswerType DEF Optional
    <3>2. CASE pc = "stamp"
      <4>1. Current = call.items[Len(results) + 1] /\ Len(results) + 1 \in DOMAIN call.items
        BY <3>2, CurrentProperties DEF Serving
      <4>2. PICK t \in MinTime..clock, u \in MinTime..clock :
              pending = [Answer(Current, t, u, u) EXCEPT !.at = None]
        BY <3>2 DEF IInv, PendingInv
      <4>3. Succeeds(Current) /\ t \in Nat /\ u \in Nat
        BY <2>1, <3>2 DEF IInv, PendingInv
      <4> QED BY <4>1, <4>2, <4>3, AnswerType DEF Optional
    <3>3. CASE pc \notin {"respond", "stamp"}
      BY <3>3 DEF IInv, PendingInv, Optional
    <3> QED BY <3>1, <3>2, <3>3
  <2>3. ASSUME NEW n \in DOMAIN results
        PROVE  results[n] \in Result
    <3>1. n \in DOMAIN call.items
      BY CallProperties, LenProperties DEF IInv, ProgressInv
    <3>2. CASE Failed(call.items[n], results[n])
      BY <3>1, <3>2, FailedType
    <3>3. CASE ~Failed(call.items[n], results[n])
      <4>0. ResultOf(call.items[n], results[n])
        BY DEF IInv, ResultInv
      <4>1. PICK t \in MinTime..clock, u \in MinTime..clock, at \in MinTime..clock :
              results[n] = Answer(call.items[n], t, u, at)
        BY <3>3, <4>0, Zenon DEF ResultOf
      <4>2. Succeeds(call.items[n])
        BY <3>3, <4>0, Zenon DEF ResultOf
      <4>3. t \in Nat /\ u \in Nat /\ at \in Nat
        BY <2>1, <4>1
      <4>4. Answer(call.items[n], t, u, at) \in Result
        BY <3>1, <4>2, <4>3, AnswerType
      <4> QED BY <4>1, <4>4
    <3> QED BY <3>2, <3>3
  <2>4. results \in Seq(Result)
    <3>1. Len(results) \in Nat /\ DOMAIN results = 1..Len(results)
          /\ results = [n \in 1..Len(results) |-> results[n]]
      BY LenProperties DEF IInv, ProgressInv
    <3>2. results \in [1..Len(results) -> Result]
      BY <2>3, <3>1
    <3> QED BY <3>1, <3>2, SeqDef
  <2> QED BY <2>2, <2>4 DEF IInv, TypeOK
<1> QED BY <1>1, Inductive, PTL
=============================================================================
