--------------------------- MODULE AttestationProofs ---------------------------
(***************************************************************************)
(* Proofs about Attestation, for any number of attestations in flight, any *)
(* signers, guests and bounds.                                             *)
(***************************************************************************)
EXTENDS Attestation, SequenceTheorems, TLAPS

\* A token an allowed service signed says what ran then, whatever it claims.
TokensTrue ==
    \A t \in tokens : t.key.owner \in AllowedIssuers => t.guest = boots[t.boot]

\* A token is verified with keys of allowed services only.
IssuerChecked ==
    \A a \in Attempts : attempt[a].pc = "verify" =>
        \A k \in attempt[a].jwks : k.owner \in AllowedIssuers

\* What a recorded verdict was checked for.
VerdictsChecked ==
    \A v \in verdicts :
        /\ v.token.key.owner \in AllowedIssuers
        /\ GuestAcceptable(v.token.guest)
        /\ v.token.nonce = v.challenge

\* No token was signed for a challenge before the challenge was made.
TokensFollowChallenge ==
    \A a \in Attempts, t \in tokens :
        (attempt[a].pc # "idle" /\ t.nonce = attempt[a].nonce) => t.boot >= attempt[a].boot

\* A challenge belongs to one attestation, or to one verdict.
ChallengesUnique ==
    /\ \A a, b \in Attempts :
          (attempt[a].pc # "idle" /\ attempt[b].pc # "idle" /\ attempt[a].nonce = attempt[b].nonce)
              => a = b
    /\ \A a \in Attempts, v \in verdicts :
          attempt[a].pc # "idle" => attempt[a].nonce # v.challenge
    /\ \A v, w \in verdicts : v.challenge = w.challenge => v = w

\* What makes the verdicts true and fresh: the inductive invariant.
IInv ==
    /\ TypeOK /\ TokensTrue /\ IssuerChecked /\ VerdictsChecked
    /\ TokensFollowChallenge /\ ChallengesUnique
    /\ \A v \in verdicts : v.token.boot >= v.boot

(***************************************************************************)
(* Type correctness                                                        *)
(***************************************************************************)
\* Appending keeps what was booted.
LEMMA AppendKeeps ==
    ASSUME NEW S, NEW s \in Seq(S), NEW e \in S
    PROVE  /\ Append(s, e) \in Seq(S) /\ Append(s, e) # <<>>
           /\ Len(s) \in Nat /\ Len(Append(s, e)) = Len(s) + 1
           /\ \A i \in 1..Len(s) : Append(s, e)[i] = s[i]
  BY AppendProperties, LenProperties

\* The state is well typed initially.
LEMMA InitType == Init => TypeOK
<1> SUFFICES ASSUME Init PROVE TypeOK
  OBVIOUS
<1>1. PICK g \in Guests : boots = <<g>>
  BY DEF Init
<1>3. \A s \in Signers : KeysOf(s) \subseteq AllKeys
  BY DEF AllKeys
<1>4. keys \in [Signers -> SUBSET AllKeys] /\ \A s \in Signers : keys[s] \subseteq KeysOf(s)
  BY <1>3 DEF Init
<1>2. boots \in Seq(Guests) /\ boots # <<>> /\ Len(boots) = 1
  BY <1>1
<1> QED
  BY <1>2, <1>4 DEF Init, TypeOK, AttemptType, Idle, Attempt

\* An attestation that ends leaves the others as they are.
LEMMA EndType ==
    ASSUME TypeOK, NEW a \in Attempts, End(a)
    PROVE  /\ attempt' \in [Attempts -> AttemptType]
           /\ attempt'[a].pc = "idle"
           /\ \A b \in Attempts : b = a \/ attempt'[b] = attempt[b]
<1>1. Idle \in AttemptType /\ Idle.pc = "idle"
  BY DEF Idle, Attempt, AttemptType, TypeOK
<1> QED
  BY <1>1 DEF End, TypeOK

\* Signing a token leaves the state well typed.
LEMMA NewTokenType ==
    ASSUME TypeOK, NEW i \in Signers, NEW k \in AllKeys, NEW n \in 1..nonces, NEW g \in Guests,
           tokens' = tokens \cup {Token(i, k, n, g)},
           UNCHANGED <<boots, keys, expired, attempt, nonces, verdicts>>
    PROVE  TypeOK'
<1>1. Len(boots) \in 1..Len(boots)
  BY LenProperties, EmptySeq DEF TypeOK
<1>2. /\ tokens \subseteq tokens'
      /\ tokens' \subseteq [issuer : Signers, key : AllKeys, nonce : 1..nonces, guest : Guests,
                             boot : 1..Len(boots)]
  BY <1>1 DEF TypeOK, Token
<1>3. AttemptType \subseteq AttemptType'
  BY <1>2 DEF AttemptType
<1> QED
  BY <1>2, <1>3 DEF TypeOK

\* Every step keeps the state well typed.
LEMMA TypeStep == TypeOK /\ [Next]_vars => TypeOK'
<1> SUFFICES ASSUME TypeOK, [Next]_vars PROVE TypeOK'
  OBVIOUS
<1> USE AttestationAssumption
<1>1. CASE Boot
  <2>1. PICK g \in Guests : boots' = Append(boots, g)
    BY <1>1 DEF Boot
  <2>2. boots' \in Seq(Guests) /\ boots' # <<>> /\ Len(boots) \in Nat /\ Len(boots') = Len(boots) + 1
    BY <2>1, AppendKeeps DEF TypeOK
  <2> QED
    BY <1>1, <2>2 DEF Boot, TypeOK, AttemptType
<1>2. ASSUME NEW i \in Signers, NEW n \in 1..nonces, Mint(i, n) PROVE TypeOK'
  <2>1. Len(boots) \in 1..Len(boots) /\ boots[Len(boots)] \in Guests
    BY LenProperties, EmptySeq DEF TypeOK
  <2>2. PICK k \in keys[i] : tokens' = tokens \cup {Token(i, k, n, boots[Len(boots)])}
    BY <1>2 DEF Mint
  <2>3. k \in AllKeys
    BY <2>2 DEF TypeOK
  <2> QED
    BY <1>2, <2>1, <2>2, <2>3, NewTokenType DEF Mint
<1>7. ASSUME NEW s \in Signers, NEW i \in Signers, NEW n \in 1..nonces, NEW g \in Guests,
             Forge(s, i, n, g)
      PROVE  TypeOK'
  <2>1. PICK k \in KeysOf(s) : tokens' = tokens \cup {Token(i, k, n, g)}
    BY <1>7 DEF Forge
  <2>2. k \in AllKeys
    BY <2>1 DEF AllKeys
  <2> QED
    BY <1>7, <2>1, <2>2, NewTokenType DEF Forge
<1>3. ASSUME NEW t \in tokens, Expire(t) PROVE TypeOK'
  BY <1>3 DEF Expire, TypeOK, AttemptType
<1>4. ASSUME NEW i \in Signers, RotateKeys(i) PROVE TypeOK'
  <2>1. KeysOf(i) \subseteq AllKeys
    BY DEF AllKeys
  <2>2. PICK ks \in SUBSET KeysOf(i) : keys' = [keys EXCEPT ![i] = ks]
    BY <1>4 DEF RotateKeys
  <2>3. keys' \in [Signers -> SUBSET AllKeys] /\ \A s \in Signers : keys'[s] \subseteq KeysOf(s)
    BY <2>1, <2>2 DEF TypeOK
  <2> QED
    BY <1>4, <2>3 DEF RotateKeys, TypeOK, AttemptType
<1>5. ASSUME NEW a \in Attempts, AttestStep(a) PROVE TypeOK'
  <2>1. CASE Challenge(a)
    <3>1. nonces' = nonces + 1 /\ UNCHANGED <<boots, keys, tokens, expired, verdicts>>
      BY <2>1 DEF Challenge
    <3>2. Len(boots) \in Nat /\ nonces \in Nat
      BY LenProperties DEF TypeOK
    <3>3. AttemptType \subseteq AttemptType'
      BY <3>1, <3>2 DEF AttemptType
    <3>4. Attempt("asked", NewAttestationNonce, Len(boots), None, {}) \in AttemptType'
      BY <3>1, <3>2 DEF Attempt, AttemptType, NewAttestationNonce
    <3>5. attempt' = [attempt EXCEPT ![a] = Attempt("asked", NewAttestationNonce, Len(boots), None, {})]
      BY <2>1 DEF Challenge
    <3>6. attempt' \in [Attempts -> AttemptType']
      BY <3>3, <3>4, <3>5 DEF TypeOK
    <3>7. \A b \in Attempts : attempt'[b].pc \in {"issuer", "verify"} => attempt'[b].token \in tokens
      BY <3>5 DEF TypeOK, Attempt
    <3> QED
      BY <3>1, <3>2, <3>6, <3>7 DEF TypeOK
  <2>2. CASE Answered(a)
    <3>1. PICK t \in tokens :
             attempt' = [attempt EXCEPT ![a] = Attempt("issuer", attempt[a].nonce, attempt[a].boot, t, {})]
      BY <2>2 DEF Answered
    <3>2. UNCHANGED <<boots, keys, tokens, expired, nonces, verdicts>>
      BY <2>2 DEF Answered
    <3> QED
      BY <3>1, <3>2 DEF TypeOK, Attempt, AttemptType
  <2>3. CASE FetchKeys(a)
    <3>1. attempt[a].token \in tokens /\ keys[attempt[a].token.issuer] \in SUBSET AllKeys
      BY <2>3 DEF FetchKeys, TypeOK
    <3>2. attempt' = [attempt EXCEPT ![a] = Attempt("verify", attempt[a].nonce, attempt[a].boot,
                          attempt[a].token, keys[attempt[a].token.issuer])]
      BY <2>3 DEF FetchKeys, fetchJWKS
    <3>3. UNCHANGED <<boots, keys, tokens, expired, nonces, verdicts>>
      BY <2>3 DEF FetchKeys
    <3> QED
      BY <3>1, <3>2, <3>3 DEF TypeOK, Attempt, AttemptType
  <2>4. CASE RecordVerdict(a)
    <3>1. /\ attempt[a].token \in tokens /\ attempt[a].token.nonce = attempt[a].nonce
          /\ attempt[a].boot \in 0..Len(boots)
      BY <2>4 DEF RecordVerdict, Verifies, NonceMatches, TypeOK, AttemptType
    <3>2. attempt[a].nonce \in 1..nonces
      BY <3>1 DEF TypeOK
    <3>3. verdicts' \subseteq [challenge : 1..nonces, token : tokens, boot : 0..Len(boots)]
      BY <2>4, <3>1, <3>2 DEF RecordVerdict, TypeOK
    <3>4. UNCHANGED <<boots, keys, tokens, expired, nonces>> /\ End(a)
      BY <2>4 DEF RecordVerdict
    <3> QED
      BY <3>3, <3>4, EndType DEF TypeOK, AttemptType
  <2>5. CASE Rejected(a)
    BY <2>5, EndType DEF Rejected, TypeOK, AttemptType
  <2>6. CASE Unreachable(a)
    BY <2>6, EndType DEF Unreachable, TypeOK, AttemptType
  <2> QED
    BY <1>5, <2>1, <2>2, <2>3, <2>4, <2>5, <2>6 DEF AttestStep
<1>6. CASE UNCHANGED vars
  BY <1>6 DEF vars, TypeOK, AttemptType
<1> QED
  BY <1>1, <1>2, <1>3, <1>4, <1>5, <1>6, <1>7 DEF Next

\* The state of Attestation is well typed, for any services, guests and
\* bounds: tokens and verdicts only name challenges, boots and tokens there are.
THEOREM TypeCorrect == Spec => []TypeOK
<1> QED
  BY InitType, TypeStep, PTL DEF Spec

(***************************************************************************)
(* True and fresh verdicts                                                 *)
(***************************************************************************)
\* Nothing is signed, challenged or recorded initially.
LEMMA InitInv == Init => IInv
<1> SUFFICES ASSUME Init PROVE IInv
  OBVIOUS
<1> QED
  BY InitType DEF Init, IInv, TokensTrue, IssuerChecked, VerdictsChecked,
     TokensFollowChallenge, ChallengesUnique, Idle, Attempt

\* A challenge is new: no token, verdict or other attestation has its nonce.
LEMMA ChallengeInv ==
    ASSUME IInv, TypeOK', NEW a \in Attempts, Challenge(a)
    PROVE  IInv'
<1>1. nonces \in Nat /\ nonces' = nonces + 1 /\ UNCHANGED <<boots, tokens, verdicts>>
  BY DEF Challenge, IInv, TypeOK
<1>2. attempt' = [attempt EXCEPT ![a] = Attempt("asked", nonces + 1, Len(boots), None, {})]
  BY DEF Challenge, NewAttestationNonce
<1>3. /\ attempt'[a].pc = "asked" /\ attempt'[a].nonce = nonces + 1
      /\ \A b \in Attempts : b = a \/ attempt'[b] = attempt[b]
  BY <1>2 DEF IInv, TypeOK, Attempt
<1>4. /\ \A b \in Attempts : attempt[b].nonce # nonces + 1
      /\ \A v \in verdicts : v.challenge # nonces + 1
      /\ \A t \in tokens : t.nonce # nonces + 1
  BY <1>1 DEF IInv, TypeOK, AttemptType
<1>5. TokensTrue' /\ IssuerChecked' /\ VerdictsChecked'
  BY <1>1, <1>3 DEF IInv, TokensTrue, IssuerChecked, VerdictsChecked, GuestAcceptable
<1>6. TokensFollowChallenge'
  BY <1>1, <1>3, <1>4 DEF IInv, TokensFollowChallenge
<1>7. ChallengesUnique'
  BY <1>1, <1>3, <1>4 DEF IInv, ChallengesUnique
<1> QED
  BY <1>1, <1>5, <1>6, <1>7 DEF IInv

\* The answer and the keys leave an attestation its challenge.
LEMMA AnswerInv ==
    ASSUME IInv, TypeOK', NEW a \in Attempts, Answered(a) \/ FetchKeys(a)
    PROVE  IInv'
<1>1. UNCHANGED <<boots, tokens, verdicts>>
  BY DEF Answered, FetchKeys
<1>2. /\ attempt[a].pc # "idle"
      /\ attempt'[a].nonce = attempt[a].nonce /\ attempt'[a].boot = attempt[a].boot
      /\ attempt'[a].pc = "verify" => \A k \in attempt'[a].jwks : k.owner \in AllowedIssuers
      /\ \A b \in Attempts : b = a \/ attempt'[b] = attempt[b]
  <2>1. CASE Answered(a)
    BY <2>1 DEF Answered, Attempt, IInv, TypeOK
  <2>2. CASE FetchKeys(a)
    <3>1. /\ attempt[a].token.issuer \in AllowedIssuers /\ attempt[a].pc = "issuer"
          /\ attempt' = [attempt EXCEPT ![a] = Attempt("verify", attempt[a].nonce, attempt[a].boot,
                             attempt[a].token, keys[attempt[a].token.issuer])]
      BY <2>2 DEF FetchKeys, issuerAllowed, fetchJWKS
    <3>2. \A k \in keys[attempt[a].token.issuer] : k.owner \in AllowedIssuers
      BY <3>1, AttestationAssumption DEF IInv, TypeOK, KeysOf
    <3> QED
      BY <3>1, <3>2 DEF Attempt, IInv, TypeOK
  <2> QED
    BY <2>1, <2>2
<1>3. TokensTrue' /\ IssuerChecked' /\ VerdictsChecked'
  BY <1>1, <1>2 DEF IInv, TokensTrue, IssuerChecked, VerdictsChecked, GuestAcceptable
<1>4. TokensFollowChallenge' /\ ChallengesUnique'
  BY <1>1, <1>2 DEF IInv, TokensFollowChallenge, ChallengesUnique
<1> QED
  BY <1>1, <1>3, <1>4 DEF IInv

\* An attestation ends without a verdict.
LEMMA EndInv ==
    ASSUME IInv, TypeOK', NEW a \in Attempts, End(a), UNCHANGED <<boots, tokens, verdicts>>
    PROVE  IInv'
<1>1. attempt'[a].pc = "idle" /\ \A b \in Attempts : b = a \/ attempt'[b] = attempt[b]
  BY EndType DEF IInv
<1>2. TokensTrue' /\ IssuerChecked' /\ VerdictsChecked'
  BY <1>1 DEF IInv, TokensTrue, IssuerChecked, VerdictsChecked, GuestAcceptable
<1>3. TokensFollowChallenge' /\ ChallengesUnique'
  BY <1>1 DEF IInv, TokensFollowChallenge, ChallengesUnique
<1> QED
  BY <1>2, <1>3 DEF IInv

\* An attestation ends with a verdict on its own challenge.
LEMMA VerdictInv ==
    ASSUME IInv, TypeOK', NEW a \in Attempts, RecordVerdict(a)
    PROVE  IInv'
<1> DEFINE new == [challenge |-> attempt[a].nonce, token |-> attempt[a].token,
                   boot |-> attempt[a].boot]
<1>1. verdicts' = verdicts \cup {new} /\ UNCHANGED <<boots, tokens>>
  BY DEF RecordVerdict
<1>2. attempt'[a].pc = "idle" /\ \A b \in Attempts : b = a \/ attempt'[b] = attempt[b]
  BY EndType DEF IInv, RecordVerdict
<1>3. /\ attempt[a].pc = "verify" /\ attempt[a].token \in tokens
      /\ attempt[a].token.nonce = attempt[a].nonce
      /\ attempt[a].token.key \in attempt[a].jwks
      /\ GuestAcceptable(attempt[a].token.guest)
  BY DEF RecordVerdict, Verifies, SignatureValid, NonceMatches, IInv, TypeOK
<1>4. attempt[a].token.key.owner \in AllowedIssuers /\ attempt[a].token.boot >= attempt[a].boot
  BY <1>3 DEF IInv, IssuerChecked, TokensFollowChallenge
<1>5. TokensTrue' /\ IssuerChecked' /\ TokensFollowChallenge'
  BY <1>1, <1>2 DEF IInv, TokensTrue, IssuerChecked, TokensFollowChallenge
<1>6. VerdictsChecked'
  BY <1>1, <1>3, <1>4 DEF IInv, VerdictsChecked, GuestAcceptable
<1>7. ChallengesUnique'
  <2>1. \A v \in verdicts : v.challenge # new.challenge
    BY <1>3 DEF IInv, ChallengesUnique
  <2>2. \A b \in Attempts : b # a /\ attempt[b].pc # "idle" => attempt[b].nonce # new.challenge
    BY <1>3 DEF IInv, ChallengesUnique
  <2> QED
    BY <1>1, <1>2, <2>1, <2>2 DEF IInv, ChallengesUnique
<1>8. \A v \in verdicts' : v.token.boot >= v.boot
  BY <1>1, <1>4 DEF IInv
<1> QED
  BY <1>5, <1>6, <1>7, <1>8 DEF IInv

\* A token is signed: a true one, or with a key of nobody allowed.
LEMMA NewTokenInv ==
    ASSUME IInv, TypeOK', NEW i, NEW k, NEW n, NEW g,
           tokens' = tokens \cup {Token(i, k, n, g)},
           k.owner \in AllowedIssuers => g = boots[Len(boots)],
           UNCHANGED <<boots, keys, expired, attempt, nonces, verdicts>>
    PROVE  IInv'
<1>1. Len(boots) \in 1..Len(boots)
  BY LenProperties, EmptySeq DEF IInv, TypeOK
<1>2. TokensTrue'
  BY DEF IInv, TokensTrue, Token
<1>3. \A a \in Attempts : attempt[a].boot \in 0..Len(boots)
  BY DEF IInv, TypeOK, AttemptType
<1>4. \A a \in Attempts : attempt[a].boot <= Len(boots)
  BY <1>1, <1>3
<1>5. TokensFollowChallenge'
  BY <1>1, <1>4 DEF IInv, TokensFollowChallenge, Token
<1> QED
  BY <1>2, <1>5 DEF IInv, IssuerChecked, VerdictsChecked, ChallengesUnique, GuestAcceptable

\* Every step keeps the invariant.
LEMMA InvStep == IInv /\ [Next]_vars => IInv'
<1> SUFFICES ASSUME IInv, [Next]_vars PROVE IInv'
  OBVIOUS
<1>0. TypeOK'
  BY TypeStep DEF IInv
<1> USE AttestationAssumption
<1>1. CASE Boot
  <2>1. PICK g \in Guests : boots' = Append(boots, g)
    BY <1>1 DEF Boot
  <2>2. \A i \in 1..Len(boots) : boots'[i] = boots[i]
    BY <2>1, AppendKeeps DEF IInv, TypeOK
  <2>3. UNCHANGED <<tokens, attempt, verdicts>>
    BY <1>1 DEF Boot
  <2>4. TokensTrue'
    BY <2>2, <2>3 DEF IInv, TypeOK, TokensTrue
  <2> QED
    BY <1>0, <2>3, <2>4 DEF IInv, IssuerChecked, VerdictsChecked, TokensFollowChallenge,
       ChallengesUnique, GuestAcceptable
<1>2. ASSUME NEW i \in Signers, NEW n \in 1..nonces, Mint(i, n) PROVE IInv'
  <2>1. PICK k \in keys[i] : tokens' = tokens \cup {Token(i, k, n, boots[Len(boots)])}
    BY <1>2 DEF Mint
  <2> QED
    BY <1>0, <1>2, <2>1, NewTokenInv DEF Mint
<1>7. ASSUME NEW s \in Signers, NEW i \in Signers, NEW n \in 1..nonces, NEW g \in Guests,
             Forge(s, i, n, g)
      PROVE  IInv'
  <2>1. PICK k \in KeysOf(s) : tokens' = tokens \cup {Token(i, k, n, g)}
    BY <1>7 DEF Forge
  <2>2. k.owner \notin AllowedIssuers
    BY <1>7, <2>1 DEF Forge, KeysOf
  <2> QED
    BY <1>0, <1>7, <2>1, <2>2, NewTokenInv DEF Forge
<1>3. ASSUME NEW t \in tokens, Expire(t) PROVE IInv'
  BY <1>0, <1>3 DEF Expire, IInv, TokensTrue, IssuerChecked, VerdictsChecked,
     TokensFollowChallenge, ChallengesUnique, GuestAcceptable
<1>4. ASSUME NEW i \in Signers, RotateKeys(i) PROVE IInv'
  BY <1>0, <1>4 DEF RotateKeys, IInv, TokensTrue, IssuerChecked, VerdictsChecked,
     TokensFollowChallenge, ChallengesUnique, GuestAcceptable
<1>5. ASSUME NEW a \in Attempts, AttestStep(a) PROVE IInv'
  <2>1. CASE Challenge(a)
    BY <1>0, <2>1, ChallengeInv DEF IInv
  <2>2. CASE Answered(a) \/ FetchKeys(a)
    BY <1>0, <2>2, AnswerInv DEF IInv
  <2>3. CASE RecordVerdict(a)
    BY <1>0, <2>3, VerdictInv DEF IInv
  <2>4. CASE Rejected(a) \/ Unreachable(a)
    BY <1>0, <2>4, EndInv DEF Rejected, Unreachable
  <2> QED
    BY <1>5, <2>1, <2>2, <2>3, <2>4 DEF AttestStep
<1>6. CASE UNCHANGED vars
  BY <1>0, <1>6 DEF vars, IInv, TokensTrue, IssuerChecked, VerdictsChecked,
     TokensFollowChallenge, ChallengesUnique, GuestAcceptable
<1> QED
  BY <1>1, <1>2, <1>3, <1>4, <1>5, <1>6, <1>7 DEF Next

\* A verdict is true of the VM: a token passes only if it was signed with a
\* key an allowed service published, whatever issuer it names, and that service
\* saw the guest the token describes (VerifyMAAToken), however attestations,
\* forged tokens, reboots and key changes interleave.
THEOREM TrueVerdicts == Spec => []VerdictsAreTrue
<1>1. IInv => VerdictsAreTrue
  BY DEF IInv, VerdictsChecked, TokensTrue, TypeOK, GuestAcceptable, VerdictsAreTrue
<1> QED
  BY <1>1, InitInv, InvStep, PTL DEF Spec

\* A verdict is fresh: its token was made after its challenge, which no other
\* attestation and no other verdict has (NewAttestationNonce).
THEOREM FreshVerdicts == Spec => []VerdictsAreFresh
<1>1. IInv => VerdictsAreFresh
  BY DEF IInv, VerdictsChecked, ChallengesUnique, VerdictsAreFresh
<1> QED
  BY <1>1, InitInv, InvStep, PTL DEF Spec
================================================================================
