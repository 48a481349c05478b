------------------------------ MODULE Attestation ------------------------------
(***************************************************************************)
(* Attesting the confidential VM.                                          *)
(*                                                                         *)
(* doAttestTEE makes a nonce, sends it to the guest and verifies the token *)
(* that comes back: an assertion about the guest, signed by an attestation *)
(* service (MAA), whose keys are fetched when it is verified.  Several     *)
(* attestations may be in flight for one VM, which may be restarted with   *)
(* another image meanwhile; the guest may answer with any token it was     *)
(* ever given, and services change their keys.                             *)
(*                                                                         *)
(* The VM, the guest and the services are external.  A service on the      *)
(* allowlist signs what it finds; anybody else, the guest included, may    *)
(* sign any assertion with keys of their own and name any issuer in it.    *)
(* RSA signatures are unforgeable: nobody signs with another's key.  What  *)
(* a verdict allows, and how long, is in TEESession.                       *)
(***************************************************************************)
EXTENDS Naturals, Sequences, FiniteSets

CONSTANTS
    Attempts,       \* attestations in flight
    Signers,        \* attestation services, and anybody else who signs tokens
    AllowedIssuers, \* TEE_MAA_ISSUERS
    Measurements,   \* launch measurements
    Guests,         \* what the VM may boot; snp: attestation type sevsnpvm,
                    \* compliant: azure-compliant-cvm
    Expected,       \* TEE_EXPECTED_MEASUREMENT, or None
    None,
    KeyIds,         \* names of a signer's keys (kid)
    MaxBoots, MaxTokens, MaxChallenges

ASSUME AttestationAssumption ==
    /\ AllowedIssuers \subseteq Signers
    /\ Guests \subseteq [snp : BOOLEAN, compliant : BOOLEAN, debuggable : BOOLEAN,
                         measurement : Measurements]
    /\ None \notin Measurements /\ Expected \in Measurements \cup {None}
    /\ MaxBoots \in Nat /\ MaxTokens \in Nat /\ MaxChallenges \in Nat

VARIABLES
    boots,      \* what the VM has booted, the running guest last
    keys,       \* the keys each service publishes
    tokens,     \* tokens the guest may answer with
    expired,    \* those whose exp, plus the leeway, has passed
    attempt,    \* attestations in flight
    nonces,     \* challenges made
    verdicts    \* history: recorded verdicts

vars == <<boots, keys, tokens, expired, attempt, nonces, verdicts>>

\* boot is history: the guest that ran when the challenge was made.
Attempt(pc, nonce, boot, token, jwks) ==
    [pc |-> pc, nonce |-> nonce, boot |-> boot, token |-> token, jwks |-> jwks]

Idle == Attempt("idle", 0, 0, None, {})

End(a) == attempt' = [attempt EXCEPT ![a] = Idle]

\* A key is its owner's: only the owner signs with it.
KeysOf(s) == {[owner |-> s, kid |-> k] : k \in KeyIds}

\* issuer is what the token claims, key what it was signed with.  boot is
\* history: the guest that ran then.
Token(issuer, key, n, g) ==
    [issuer |-> issuer, key |-> key, nonce |-> n, guest |-> g, boot |-> Len(boots)]

Init ==
    /\ boots \in {<<g>> : g \in Guests}
    /\ keys = [s \in Signers |-> KeysOf(s)]
    /\ tokens = {} /\ expired = {}
    /\ attempt = [a \in Attempts |-> Idle]
    /\ nonces = 0
    /\ verdicts = {}

(***************************************************************************)
(* The VM and the attestation services                                     *)
(***************************************************************************)
Boot ==
    /\ Len(boots) < MaxBoots
    /\ \E g \in Guests : boots' = Append(boots, g)
    /\ UNCHANGED <<keys, tokens, expired, attempt, nonces, verdicts>>

\* An allowed service signs what it finds, with a nonce the guest gives it.
Mint(i, n) ==
    /\ i \in AllowedIssuers /\ Cardinality(tokens) < MaxTokens
    /\ \E k \in keys[i] : tokens' = tokens \cup {Token(i, k, n, boots[Len(boots)])}
    /\ UNCHANGED <<boots, keys, expired, attempt, nonces, verdicts>>

\* Anybody else signs anything, in anybody's name.
Forge(s, i, n, g) ==
    /\ s \notin AllowedIssuers /\ Cardinality(tokens) < MaxTokens
    /\ \E k \in KeysOf(s) : tokens' = tokens \cup {Token(i, k, n, g)}
    /\ UNCHANGED <<boots, keys, expired, attempt, nonces, verdicts>>

Expire(t) ==
    /\ expired' = expired \cup {t}
    /\ UNCHANGED <<boots, keys, tokens, attempt, nonces, verdicts>>

\* A service publishes other keys of its own, or none.  Only those of the
\* allowed services are ever fetched.
RotateKeys(i) ==
    /\ i \in AllowedIssuers
    /\ \E ks \in SUBSET KeysOf(i) : keys' = [keys EXCEPT ![i] = ks]
    /\ UNCHANGED <<boots, tokens, expired, attempt, nonces, verdicts>>

(***************************************************************************)
(* doAttestTEE                                                             *)
(***************************************************************************)
NewAttestationNonce == nonces + 1

Challenge(a) ==
    /\ attempt[a] = Idle /\ nonces < MaxChallenges
    /\ AllowedIssuers # {}
    /\ nonces' = nonces + 1
    /\ attempt' = [attempt EXCEPT ![a] =
           Attempt("asked", NewAttestationNonce, Len(boots), None, {})]
    /\ UNCHANGED <<boots, keys, tokens, expired, verdicts>>

Answered(a) ==
    /\ attempt[a].pc = "asked"
    /\ \E t \in tokens :
          attempt' = [attempt EXCEPT ![a] = Attempt("issuer", @.nonce, @.boot, t, {})]
    /\ UNCHANGED <<boots, keys, tokens, expired, nonces, verdicts>>

issuerAllowed(i) == i \in AllowedIssuers

\* Every key the issuer publishes.
fetchJWKS(i) == keys[i]

\* The issuer the token claims is checked before that issuer's keys are
\* fetched; keys may change before the token is verified with them.
FetchKeys(a) ==
    /\ attempt[a].pc = "issuer" /\ issuerAllowed(attempt[a].token.issuer)
    /\ fetchJWKS(attempt[a].token.issuer) # {}
    /\ attempt' = [attempt EXCEPT ![a] =
           Attempt("verify", @.nonce, @.boot, @.token, fetchJWKS(@.token.issuer))]
    /\ UNCHANGED <<boots, keys, tokens, expired, nonces, verdicts>>

\* Mutant of SignatureValid: the claims are parsed, not verified.
SignatureUnchecked(a) == attempt[a].jwks # {}

\* The kid of the token picks the key it is verified with, so it passes if it
\* was signed with one of the fetched keys and says which.
SignatureValid(a) == attempt[a].token.key \in attempt[a].jwks

\* Mutant of NonceMatches: a token for any challenge will do.
NonceMade(a) == attempt[a].token.nonce \in 1..nonces

NonceMatches(a) == attempt[a].token.nonce = attempt[a].nonce

GuestAcceptable(g) ==
    /\ g.snp /\ g.compliant /\ ~g.debuggable
    /\ Expected = None \/ g.measurement = Expected

\* VerifyMAAToken, after the keys have arrived.
Verifies(a) ==
    /\ SignatureValid(a)
    /\ attempt[a].token \notin expired
    /\ NonceMatches(a)
    /\ GuestAcceptable(attempt[a].token.guest)

RecordVerdict(a) ==
    /\ attempt[a].pc = "verify" /\ Verifies(a)
    /\ verdicts' = verdicts \cup {[challenge |-> attempt[a].nonce, token |-> attempt[a].token,
                                   boot |-> attempt[a].boot]}
    /\ End(a)
    /\ UNCHANGED <<boots, keys, tokens, expired, nonces>>

\* The token is not accepted.
Rejected(a) ==
    /\ \/ attempt[a].pc = "verify" /\ ~Verifies(a)
       \/ attempt[a].pc = "issuer" /\ ~issuerAllowed(attempt[a].token.issuer)
    /\ End(a)
    /\ UNCHANGED <<boots, keys, tokens, expired, nonces, verdicts>>

\* The guest or the service cannot be reached, or answers without a token or
\* with no usable key.
Unreachable(a) ==
    /\ attempt[a].pc \in {"asked", "issuer"}
    /\ End(a)
    /\ UNCHANGED <<boots, keys, tokens, expired, nonces, verdicts>>

AttestStep(a) ==
    \/ Challenge(a) \/ Answered(a) \/ FetchKeys(a)
    \/ RecordVerdict(a) \/ Rejected(a) \/ Unreachable(a)

Next ==
    \/ Boot
    \/ \E i \in Signers, n \in 1..nonces : Mint(i, n)
    \/ \E s, i \in Signers, n \in 1..nonces, g \in Guests : Forge(s, i, n, g)
    \/ \E t \in tokens : Expire(t)
    \/ \E i \in Signers : RotateKeys(i)
    \/ \E a \in Attempts : AttestStep(a)

Spec == Init /\ [][Next]_vars

(***************************************************************************)
(* Properties                                                              *)
(***************************************************************************)
AllKeys == UNION {KeysOf(s) : s \in Signers}

AttemptType ==
    [pc : {"idle", "asked", "issuer", "verify"}, nonce : 0..nonces, boot : 0..Len(boots),
     token : tokens \cup {None}, jwks : SUBSET AllKeys]

\* The type invariant.
TypeOK ==
    /\ boots \in Seq(Guests) /\ boots # <<>>
    /\ keys \in [Signers -> SUBSET AllKeys] /\ \A s \in Signers : keys[s] \subseteq KeysOf(s)
    /\ nonces \in Nat
    /\ tokens \subseteq [issuer : Signers, key : AllKeys, nonce : 1..nonces, guest : Guests,
                         boot : 1..Len(boots)]
    /\ expired \subseteq tokens
    /\ attempt \in [Attempts -> AttemptType]
    /\ \A a \in Attempts : attempt[a].pc \in {"issuer", "verify"} => attempt[a].token \in tokens
    /\ verdicts \subseteq [challenge : 1..nonces, token : tokens, boot : 0..Len(boots)]

\* What a verdict says was true of the VM: it then ran a non-debuggable,
\* compliant SEV-SNP guest, of the expected image if one is pinned
\* (VerifyMAAToken), whatever tokens anybody else signs in the service's name.
VerdictsAreTrue ==
    \A v \in verdicts : LET g == boots[v.token.boot] IN
        g.snp /\ g.compliant /\ ~g.debuggable /\ Expected \in {None, g.measurement}

\* The token of a verdict was made after its challenge ("it carries the nonce
\* we just generated"), so it is not about a guest that had been replaced
\* before, and it is the proof of that verdict only, however attestations of
\* the same VM overlap.
VerdictsAreFresh ==
    /\ \A v \in verdicts : v.token.boot >= v.boot
    /\ \A v, w \in verdicts : v.token = w.token => v = w
===============================================================================
