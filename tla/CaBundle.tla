------------------------------ MODULE CaBundle ------------------------------
(***************************************************************************)
(* CaBundle::from_response (protocol/ca_bundle.rs): when the agent takes a *)
(* signed envelope for a CA bundle, and the TrustedUserCAKeys body that it *)
(* renders from one.                                                       *)
(*                                                                         *)
(* An envelope travels: its fields are filled in by whoever makes it, well *)
(* or badly; holders of signing keys sign it; anything may happen to it on *)
(* its way; and it is delivered, perhaps more than once, while the agent's *)
(* clock moves.  Signatures and digests are ideal: a signature names its   *)
(* key and the payload it was made over, a digest is what it was made of.  *)
(***************************************************************************)
EXTENDS Naturals, Sequences, FiniteSets

CONSTANTS
    KeyPool,         \* CA key entries: [id, algo, blob, comment]; id 0 is no
                     \* usable key_id, blob Absent no usable key material
    KeyLists,        \* the lists of entries an envelope may start from
    SigningKeys,     \* signing-key material
    PinChoices,      \* expected_signing_key: some of SigningKeys, or Absent
    MaxKeys,         \* MAX_KEYS (64 in the code)
    Grace,           \* CLOCK_SKEW_GRACE (60 s in the code)
    MaxTime,         \* bound: clock and timestamps run over 0..MaxTime
    MaxEdits,        \* bound: changes made to the envelope
    MaxSigns,        \* bound: signatures made
    MaxDeliveries,   \* bound: times the envelope arrives
    Absent           \* a missing field, no pin

Entry(id, algo, blob, comment) ==
    [id |-> id, algo |-> algo, blob |-> blob, comment |-> comment]

ASSUME BundleAssumption ==
    /\ \A k \in KeyPool : k.id \in Nat /\ k = Entry(k.id, k.algo, k.blob, k.comment)
    /\ KeyLists \subseteq Seq(KeyPool)
    /\ MaxKeys \in Nat \ {0} /\ MaxTime \in Nat \ {0} /\ Grace \in Nat
    /\ Absent \notin SigningKeys /\ PinChoices \subseteq SigningKeys \cup {Absent}
    /\ MaxEdits \in Nat /\ MaxSigns \in Nat /\ MaxDeliveries \in Nat

Times == 0..MaxTime

SupportedVersion == 1
SignatureAlgorithm == "ssh-ed25519"
AllowedAlgorithms ==
    {"ssh-ed25519", "ssh-rsa", "rsa-sha2-256", "rsa-sha2-512", "ecdsa-sha2-nistp256",
     "ecdsa-sha2-nistp384", "ecdsa-sha2-nistp521", "sk-ssh-ed25519@openssh.com",
     "sk-ecdsa-sha2-nistp256@openssh.com"}

VARIABLES
    wire,       \* the envelope, CaBundleResponse
    signed,     \* what has been signed, with which key
    expected,   \* the pin from_response is called with
    verdict,    \* what the last delivery came to
    accepted,   \* every envelope accepted so far, and when
    edits, signs, deliveries

bundleVars == <<wire, signed, expected, verdict, accepted, edits, signs, deliveries>>

-----------------------------------------------------------------------------
(* Canonical encodings.                                                     *)

\* Vec::sort_by on key_id, which is stable: an entry's place is after the ones
\* that precede it.
Precedes(keys, i, j) ==
    \/ keys[i].id < keys[j].id
    \/ keys[i].id = keys[j].id /\ i < j

Place(keys, i) == Cardinality({j \in DOMAIN keys : Precedes(keys, j, i)}) + 1

KeysById(keys) ==
    [n \in DOMAIN keys |-> keys[CHOOSE i \in DOMAIN keys : Place(keys, i) = n]]

\* An entry's public_key line, comment included.
Line(key) == <<key.algo, key.blob, key.comment>>

\* append_keys_array: the members the canonical JSON has for a key.
CanonicalKeys(keys) ==
    [i \in DOMAIN keys |-> <<KeysById(keys)[i].id, Line(KeysById(keys)[i])>>]

\* compute_fingerprint over canonical_json: generation and keys only.
ComputeFingerprint(generation, keys) == <<generation, CanonicalKeys(keys)>>

\* canonical_signing_payload: the full envelope.
SigningPayload(raw) ==
    <<raw.version, raw.created, raw.expires, raw.fp, raw.gen, CanonicalKeys(raw.keys)>>

\* verify_signature.
VerifySignature(raw) ==
    /\ raw.signature # Absent
    /\ raw.signature.by = raw.signingKey
    /\ raw.signature.payload = SigningPayload(raw)

-----------------------------------------------------------------------------
(* from_response: the error of the first rule that fails, else "Ok".        *)

(* Rules are tried in this order; the pin is Absent when there is none yet. *)

Rule(fails, error) == [fails |-> fails, error |-> error]

\* Mutant: any signing key will do.
PinIgnored(raw, pin) ==
    << Rule(raw.version # SupportedVersion, "UnsupportedVersion"),
       Rule(raw.algorithm # SignatureAlgorithm, "UnsupportedSignatureAlgorithm"),
       Rule(raw.signingKey \notin SigningKeys, "SignatureInvalid"),
       Rule(raw.fp = Absent, "MissingFingerprint"),
       Rule(~VerifySignature(raw), "SignatureInvalid") >>

AuthenticationRules(raw, pin) ==
    << Rule(raw.version # SupportedVersion, "UnsupportedVersion"),
       Rule(raw.algorithm # SignatureAlgorithm, "UnsupportedSignatureAlgorithm"),
       Rule(raw.signingKey \notin SigningKeys, "SignatureInvalid"),
       Rule(pin # Absent /\ pin # raw.signingKey, "SigningKeyMismatch"),
       Rule(raw.fp = Absent, "MissingFingerprint"),
       Rule(~VerifySignature(raw), "SignatureInvalid") >>

ValidateKeyId(id) == id # 0

\* validate_ed25519_public_key.
ValidateEd25519PublicKey(key) == key.algo = "ssh-ed25519" /\ key.blob # Absent

FingerprintsEqual(x, y) == x = y

Adjacent(keys) == {i \in 1..Len(keys) : i + 1 \in DOMAIN keys}

\* Mutant: an expired bundle is let through in its last moment.
WindowClosed(raw, at) ==
    IF Absent \in {raw.created, raw.expires}
    THEN << Rule(TRUE, "InvalidTimestamp") >>
    ELSE << Rule(raw.expires <= raw.created, "InvalidTimestamp"),
            Rule(at > raw.expires, "Expired"),
            Rule(raw.created > at + Grace, "NotYetValid") >>

ContentRules(raw) ==
    << Rule(raw.gen = 0, "MissingGeneration"),
       Rule(Len(raw.keys) < 1, "Empty"),
       Rule(Len(raw.keys) > MaxKeys, "TooManyKeys"),
       Rule(\E i \in DOMAIN raw.keys :
               ~ValidateKeyId(raw.keys[i].id) \/ ~ValidateEd25519PublicKey(raw.keys[i]),
            "InvalidKey"),
       Rule(\E i \in Adjacent(raw.keys) :
               KeysById(raw.keys)[i].id = KeysById(raw.keys)[i + 1].id,
            "DuplicateKeyId"),
       Rule(\E i, j \in DOMAIN raw.keys : i # j /\ Line(raw.keys[i]) = Line(raw.keys[j]),
            "DuplicatePublicKey"),
       Rule(~FingerprintsEqual(ComputeFingerprint(raw.gen, raw.keys), raw.fp),
            "FingerprintMismatch") >>

WindowRules(raw, at) ==
    IF Absent \in {raw.created, raw.expires}
    THEN << Rule(TRUE, "InvalidTimestamp") >>
    ELSE << Rule(raw.expires <= raw.created, "InvalidTimestamp"),
            Rule(at >= raw.expires, "Expired"),
            Rule(raw.created > at + Grace, "NotYetValid") >>

FirstError(rules) ==
    LET failing == {i \in DOMAIN rules : rules[i].fails}
    IN  rules[CHOOSE i \in failing : \A j \in failing : i <= j].error

Passes(rules) == \A i \in DOMAIN rules : ~rules[i].fails

\* Mutant: content is judged before the envelope is authenticated.
ContentBeforeSignature(raw, at, pin) ==
    LET rules == ContentRules(raw) \o AuthenticationRules(raw, pin) \o WindowRules(raw, at)
    IN  IF Passes(rules) THEN "Ok" ELSE FirstError(rules)

FromResponse(raw, at, pin) ==
    LET rules == AuthenticationRules(raw, pin) \o ContentRules(raw) \o WindowRules(raw, at)
    IN  IF Passes(rules) THEN "Ok" ELSE FirstError(rules)

-----------------------------------------------------------------------------
(* Rendering, and the re-parse that guards it.                              *)

\* render_key_line: the entry's own comment is replaced by its id.
RenderKeyLine(key) == [algo |-> key.algo, blob |-> key.blob, comment |-> key.id]

\* Mutant: keys are rendered in the order in which they came.
RenderInWireOrder(raw) ==
    [version |-> raw.version, gen |-> raw.gen,
     fp |-> ComputeFingerprint(raw.gen, raw.keys),
     lines |-> [i \in DOMAIN raw.keys |-> RenderKeyLine(raw.keys[i])]]

\* render_trusted_user_ca_keys.
Render(raw) ==
    [version |-> raw.version, gen |-> raw.gen,
     fp |-> ComputeFingerprint(raw.gen, raw.keys),
     lines |-> [i \in DOMAIN raw.keys |-> RenderKeyLine(KeysById(raw.keys)[i])]]

IsValidBase64(blob) == blob # Absent

\* CaPublicKey::parse: more algorithms than from_response takes, and a look at
\* the encoding only.
ParsesKey(line) == line.algo \in AllowedAlgorithms /\ IsValidBase64(line.blob)

\* TrustedCaKeys::parse, on each line that is not a comment.
Parses(lines) == \A i \in DOMAIN lines : ParsesKey(lines[i])

-----------------------------------------------------------------------------
BundleInit ==
    /\ \E keys \in KeyLists, c \in {0, MaxTime - 1} :
          wire = [version |-> SupportedVersion, gen |-> 1,
                  fp |-> ComputeFingerprint(1, keys), created |-> c,
                  expires |-> MaxTime, keys |-> keys,
                  algorithm |-> SignatureAlgorithm,
                  signingKey |-> Absent, signature |-> Absent]
    /\ signed = {}
    /\ expected \in PinChoices
    /\ verdict = "none"
    /\ accepted = {}
    /\ edits = 0
    /\ signs = 0
    /\ deliveries = 0

\* A holder of a signing key signs the envelope as it stands (external).
Sign ==
    /\ signs < MaxSigns
    /\ \E k \in SigningKeys :
          LET s == [by |-> k, payload |-> SigningPayload(wire)]
          IN  /\ wire' = [wire EXCEPT !.signature = s, !.signingKey = k]
              /\ signed' = signed \cup {[by |-> k, envelope |-> wire]}
    /\ signs' = signs + 1
    /\ UNCHANGED <<expected, verdict, accepted, edits, deliveries>>

\* A field is made wrong, by the maker before signing or in transit after it;
\* a generation of 0 is an absent one.  Keys are reordered, or one of them is
\* replaced.
Edit ==
    /\ edits < MaxEdits
    /\ edits' = edits + 1
    /\ \/ wire' \in {[wire EXCEPT !.version = 2], [wire EXCEPT !.version = Absent],
                     [wire EXCEPT !.algorithm = Absent], [wire EXCEPT !.fp = Absent],
                     [wire EXCEPT !.signature = Absent], [wire EXCEPT !.created = Absent],
                     [wire EXCEPT !.signingKey = Absent]}
       \/ \E g \in {0, 2} : wire' = [wire EXCEPT !.gen = g]
       \/ \E k \in SigningKeys : wire' = [wire EXCEPT !.signingKey = k]
       \/ \E t \in Times : wire' = [wire EXCEPT !.expires = t]
       \/ wire' = [wire EXCEPT !.keys = [i \in 1..Len(@) |-> @[Len(@) - i + 1]]]
       \/ \E i \in DOMAIN wire.keys, k \in KeyPool : wire' = [wire EXCEPT !.keys[i] = k]
       \/ wire' = [wire EXCEPT !.fp = ComputeFingerprint(wire.gen, wire.keys)]
    /\ UNCHANGED <<signed, expected, verdict, accepted, signs, deliveries>>

\* The agent receives the envelope, at a time of its own (wall) clock.
Deliver ==
    /\ deliveries < MaxDeliveries
    /\ deliveries' = deliveries + 1
    /\ \E at \in Times :
          /\ verdict' = FromResponse(wire, at, expected)
          /\ accepted' = IF verdict' = "Ok"
                         THEN accepted \cup {[envelope |-> wire, at |-> at]}
                         ELSE accepted
    /\ UNCHANGED <<wire, signed, expected, edits, signs>>

BundleNext == Sign \/ Edit \/ Deliver

BundleSpec == BundleInit /\ [][BundleNext]_bundleVars

-----------------------------------------------------------------------------
(* Properties.                                                              *)

\* What a signer vouched for: the envelope, whatever the order of its keys.
SameContent(a, b) ==
    /\ a.version = b.version /\ a.gen = b.gen /\ a.fp = b.fp
    /\ a.created = b.created /\ a.expires = b.expires
    /\ Len(a.keys) = Len(b.keys)
    /\ \A x \in KeyPool : Cardinality({i \in DOMAIN a.keys : a.keys[i] = x})
                        = Cardinality({i \in DOMAIN b.keys : b.keys[i] = x})

\* Whatever happened to an envelope before it arrived, an accepted one says in
\* every field what the key it names has signed, and that key is the pinned one
\* when the agent has a pin.
AcceptedWasSigned ==
    \A a \in accepted :
        /\ \E s \in signed : s.by = a.envelope.signingKey
                             /\ SameContent(s.envelope, a.envelope)
        /\ expected # Absent => a.envelope.signingKey = expected

ContentErrors ==
    {"MissingGeneration", "Empty", "TooManyKeys", "InvalidKey", "DuplicateKeyId",
     "DuplicatePublicKey", "FingerprintMismatch", "InvalidTimestamp", "Expired",
     "NotYetValid"}

\* "Authenticate first, then trust the content": a delivery that ends in an
\* error about content was of something that the named key really signed.
ContentJudgedOnlyIfSigned ==
    [][verdict' \in ContentErrors /\ accepted' = accepted /\ wire' = wire =>
          \/ verdict' = verdict
          \/ \E s \in signed : s.by = wire.signingKey /\ SameContent(s.envelope, wire)]_bundleVars

\* The ETag identifies the file: two accepted envelopes with one fingerprint,
\* in whatever order their keys came and whoever signed them, render to the
\* same TrustedUserCAKeys body.  synchronize relies on it to skip the helper.
FingerprintIdentifiesFile ==
    \A a, b \in accepted :
        a.envelope.fp = b.envelope.fp => Render(a.envelope) = Render(b.envelope)

\* The body rendered from an accepted envelope always survives the re-parse in
\* CaSyncService::apply, trusts at least one and at most MaxKeys keys, all of
\* them Ed25519, names no key id twice, and was taken inside the envelope's
\* validity window.
AcceptedIsUsable ==
    \A a \in accepted :
        LET lines == Render(a.envelope).lines
        IN  /\ Parses(lines)
            /\ Len(lines) \in 1..MaxKeys
            /\ \A i \in DOMAIN lines : lines[i].algo = "ssh-ed25519"
            /\ \A i, j \in DOMAIN lines : lines[i].comment = lines[j].comment => i = j
            /\ a.at < a.envelope.expires
            /\ a.envelope.created <= a.at + Grace
=============================================================================
