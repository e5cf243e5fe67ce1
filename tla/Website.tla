------------------------------ MODULE Website ------------------------------
(***************************************************************************)
(* The verifier of code/python/protocol.py: class Website.  Each site has  *)
(* its own nonce table, account table and root bundle; they share a clock, *)
(* which is time.time().  The calls of one site come one after another,    *)
(* but a verification takes time and reads the clock three times: the      *)
(* clock and the other sites may move between its reads.  A call that      *)
(* raises or returns False before its second look is a stutter.            *)
(***************************************************************************)
EXTENDS Integers, TokenProof

CONSTANTS
    Sites,
    Domain,        \* per site: Website.domain
    Required,      \* per site: Website.required_threshold
    Bundles,       \* the bundles that verify_root_bundle takes: well-formed and signed
                   \*   under the key they carry, whosever it is
    Tokens,        \* the tokens a site can be handed
    NoBundle,      \* the site has not been constructed yet
    Absent,        \* nonces.get(nonce) is None
    Idle,          \* the site is in no call of verify_token
    TTL,           \* NONCE_TTL_SECONDS
    EpochSeconds,  \* EPOCH_SECONDS
    MaxTime,       \* bound on the clock
    MaxNonces      \* bound on the challenges answered

ASSUME TTLAssumption == TTL \in Nat
ASSUME EpochAssumption == EpochSeconds \in Nat \ {0}
ASSUME BundleAssumption == \A b \in Bundles : b.issued_at \in Nat /\ b # NoBundle
ASSUME BoundAssumption == MaxNonces \in Nat
ASSUME DomainAssumption ==
    \A s \in Sites : Domain[s] \in Seq({Domain[s][i] : i \in DOMAIN Domain[s]})
ASSUME AbsentAssumption == Absent \notin [issued : Nat, consumed : BOOLEAN]
ASSUME IdleAssumption ==
    Idle \notin [reads : {"epoch", "first_seen"}, token : Tokens, nonce : Nat, asked : Nat]

VARIABLES
    bundle,     \* per site: the root bundle it verifies against
    nonces,     \* per site: nonce -> (issued, consumed), or Absent
    accounts,   \* per site: the set of (key, first seen)
    call,       \* per site: the call of verify_token in progress, before which read
                \*   of the clock, or Idle
    now,        \* time.time()
    minted,     \* history: site and time of every nonce, the nonce is the position
    accepted    \* history: every call of verify_token that returned True

vars == <<bundle, nonces, accounts, call, now, minted, accepted>>

Nonces == 1 .. MaxNonces
Entries == [issued : Nat, consumed : BOOLEAN]
Calls == [reads : {"epoch", "first_seen"}, token : Tokens, nonce : Nat, asked : Nat]

Init == /\ bundle = [s \in Sites |-> NoBundle]
        /\ nonces = [s \in Sites |-> [n \in Nonces |-> Absent]]
        /\ accounts = [s \in Sites |-> {}]
        /\ call = [s \in Sites |-> Idle]
        /\ now = 0
        /\ minted = <<>>
        /\ accepted = <<>>

-----------------------------------------------------------------------------
(* Slips a maintainer could make in the operations below. *)

AfterTheDeadline(entry) == now - entry.issued > TTL + 1

AtTheDeadline(entry) == now - entry.issued >= TTL

SweepUnusedOnly(s, n) ==
    /\ nonces[s][n] # Absent
    /\ nonces[s][n].consumed \/ now - nonces[s][n].issued <= TTL

SmallerTreeOnly(s, b) == b.tree_size < bundle[s].tree_size

AnyEntry(s, n) == nonces[s][n] # Absent

SeenNow(s, key) ==
    {r \in accounts[s] : r.key # key} \cup {[key |-> key, first_seen |-> now]}

ExpiryAsFirstSeen(s, key) ==
    IF \E r \in accounts[s] : r.key = key THEN accounts[s]
    ELSE accounts[s] \cup {[key |-> key, first_seen |-> now + TTL]}

ConsumeFirst(s, n) ==
    /\ call[s] = Idle
    /\ nonces[s][n] # Absent /\ ~nonces[s][n].consumed
    /\ nonces' = [nonces EXCEPT ![s][n].consumed = TRUE]
    /\ UNCHANGED <<bundle, accounts, call, now, minted, accepted>>

-----------------------------------------------------------------------------
current_epoch == now \div EpochSeconds

Expired(entry) == now - entry.issued > TTL

(* _check_bundle; that its signature is good under its own key is what Bundles says, and
   the site compares that key with no other. *)
CheckBundle(s, b) == b.threshold = Required[s]

StaleBundle(s, b) == b.issued_at < bundle[s].issued_at

Create(s, b) ==
    /\ bundle[s] = NoBundle
    /\ CheckDomain(Domain[s]) /\ CheckBundle(s, b)
    /\ bundle' = [bundle EXCEPT ![s] = b]
    /\ UNCHANGED <<nonces, accounts, call, now, minted, accepted>>

UpdateRoot(s, b) ==
    /\ bundle[s] # NoBundle /\ call[s] = Idle
    /\ CheckBundle(s, b)
    /\ ~StaleBundle(s, b)
    /\ bundle' = [bundle EXCEPT ![s] = b]
    /\ UNCHANGED <<nonces, accounts, call, now, minted, accepted>>

(* The sweep drops every expired entry, consumed or not. *)
Kept(s, n) == nonces[s][n] # Absent /\ ~Expired(nonces[s][n])

Challenge(s) ==
    /\ bundle[s] # NoBundle /\ call[s] = Idle
    /\ Len(minted) < MaxNonces
    /\ minted' = Append(minted, [site |-> s, at |-> now])
    /\ nonces' = [nonces EXCEPT ![s] =
           [n \in Nonces |-> IF n = Len(minted) + 1 THEN [issued |-> now, consumed |-> FALSE]
                             ELSE IF Kept(s, n) THEN nonces[s][n] ELSE Absent]]
    /\ UNCHANGED <<bundle, accounts, call, now, accepted>>

(* The nonce was issued here and not consumed. *)
Open(s, n) == nonces[s][n] # Absent /\ ~nonces[s][n].consumed

(* The labels of the token that need no clock. *)
LabelsMatch(s, token) == token.domain = Domain[s] /\ token.threshold = Required[s]

EpochMatches(token) == token.epoch - current_epoch \in -1 .. 1

(* The proof, against the site's own root, domain, threshold and nonce. *)
ProofVerifies(s, token, n) ==
    LET root == bundle[s].root
        cd == CtxDomain(Domain[s], Required[s]) IN
    Verify(token.proof, ContextDigest(cd, token.epoch),
           ContextBytes(cd, token.epoch, root, token.temp_key, n), token.temp_key, root)

Consumed(entry) == [entry EXCEPT !.consumed = TRUE]

(* accounts.setdefault(tk, time.time()) *)
Remember(s, key) ==
    IF \E r \in accounts[s] : r.key = key THEN accounts[s]
    ELSE accounts[s] \cup {[key |-> key, first_seen |-> now]}

(* verify_token up to its second look at the clock: past the deadline the entry is
   deleted and the call returns, in time and with the right labels it goes on.  Every
   other branch returns False and changes nothing. *)
VerifyExpired(s, n) ==
    /\ call[s] = Idle
    /\ Open(s, n) /\ Expired(nonces[s][n])
    /\ nonces' = [nonces EXCEPT ![s][n] = Absent]
    /\ UNCHANGED <<bundle, accounts, call, now, minted, accepted>>

VerifyInTime(s, token, n) ==
    /\ bundle[s] # NoBundle /\ call[s] = Idle
    /\ Open(s, n) /\ ~Expired(nonces[s][n])
    /\ LabelsMatch(s, token)
    /\ call' = [call EXCEPT ![s] = [reads |-> "epoch", token |-> token, nonce |-> n,
                                    asked |-> now]]
    /\ UNCHANGED <<bundle, nonces, accounts, now, minted, accepted>>

(* The second look: current_epoch(). *)
VerifyEpoch(s) ==
    /\ call[s] # Idle /\ call[s].reads = "epoch"
    /\ call' = [call EXCEPT ![s] = IF EpochMatches(@.token)
                                   THEN [@ EXCEPT !.reads = "first_seen"] ELSE Idle]
    /\ UNCHANGED <<bundle, nonces, accounts, now, minted, accepted>>

(* The proof, and when it verifies the third look, the date of a new account. *)
VerifyAccept(s) ==
    LET token == call[s].token
        n == call[s].nonce IN
    /\ call[s] # Idle /\ call[s].reads = "first_seen"
    /\ ProofVerifies(s, token, n)
    /\ nonces' = [nonces EXCEPT ![s][n] = Consumed(@)]
    /\ accounts' = [accounts EXCEPT ![s] = Remember(s, token.temp_key)]
    /\ accepted' = Append(accepted, [site |-> s, nonce |-> n, token |-> token,
                                     asked |-> call[s].asked, at |-> now, bundle |-> bundle[s]])
    /\ call' = [call EXCEPT ![s] = Idle]
    /\ UNCHANGED <<bundle, now, minted>>

VerifyReject(s) ==
    /\ call[s] # Idle /\ call[s].reads = "first_seen"
    /\ ~ProofVerifies(s, call[s].token, call[s].nonce)
    /\ call' = [call EXCEPT ![s] = Idle]
    /\ UNCHANGED <<bundle, nonces, accounts, now, minted, accepted>>

Tick == /\ now < MaxTime
        /\ now' = now + 1
        /\ UNCHANGED <<bundle, nonces, accounts, call, minted, accepted>>

Next == \/ \E s \in Sites, b \in Bundles : Create(s, b) \/ UpdateRoot(s, b)
        \/ \E s \in Sites : Challenge(s)
        \/ \E s \in Sites, n \in Nonces : VerifyExpired(s, n)
        \/ \E s \in Sites, token \in Tokens, n \in Nonces : VerifyInTime(s, token, n)
        \/ \E s \in Sites : VerifyEpoch(s) \/ VerifyAccept(s) \/ VerifyReject(s)
        \/ Tick

Spec == Init /\ [][Next]_vars

-----------------------------------------------------------------------------
Accounts == [key : {t.temp_key : t \in Tokens}, first_seen : Nat]
Challenges == [site : Sites, at : Nat]
Acceptances == [site : Sites, nonce : Nonces, token : Tokens, asked : Nat, at : Nat,
                bundle : Bundles]

(* The type of every variable; an acceptance is of a nonce that was issued, and neither
   it nor an account lies in the future. *)
TypeOK ==
    /\ bundle \in [Sites -> Bundles \cup {NoBundle}]
    /\ nonces \in [Sites -> [Nonces -> Entries \cup {Absent}]]
    /\ accounts \in [Sites -> SUBSET Accounts]
    /\ call \in [Sites -> Calls \cup {Idle}]
    /\ \A s \in Sites : \A r \in accounts[s] : r.first_seen <= now
    /\ now \in Nat
    /\ minted \in Seq(Challenges) /\ Len(minted) <= MaxNonces
    /\ accepted \in Seq(Acceptances)
    /\ \A i \in DOMAIN accepted :
           accepted[i].nonce <= Len(minted) /\ accepted[i].at <= now

(* "A token works once and only once": over the life of all the sites no nonce is
   accepted twice, although consumed entries are swept from the table, expired ones are
   deleted, and the same token may be delivered again at any time and anywhere. *)
NonceAcceptedOnce ==
    \A i, j \in DOMAIN accepted : accepted[i].nonce = accepted[j].nonce => i = j

(* An acceptance answers a challenge of the same site, at most TTL seconds old when the
   site was asked; the deadline counts from the challenge, not from any later look at the
   entry.  The epoch of the token was near the current one at some moment of the call,
   however long the proof took to verify. *)
AcceptedInTime ==
    \A i \in DOMAIN accepted :
        LET challenge == minted[accepted[i].nonce] IN
        /\ accepted[i].site = challenge.site
        /\ accepted[i].asked - challenge.at \in 0 .. TTL
        /\ \E t \in accepted[i].asked .. accepted[i].at :
               accepted[i].token.epoch - t \div EpochSeconds \in -1 .. 1

(* One token, one visitor: a proof made with independent seeds, as prove() draws them, is
   accepted once by all the sites together, however often and wherever it is delivered, and
   whatever its labels were changed to.  Of other proofs it says nothing: "a wallet that
   deviates from honest randomness [...] can craft tokens of its own that verify under
   several challenge vectors"; these are delivered as well, and a nonce takes one at most. *)
TokenAcceptedOnce ==
    \A i, j \in DOMAIN accepted :
        (accepted[i].token.proof.bound /\ accepted[i].token.proof = accepted[j].token.proof)
            => i = j

(* A failed verification burns nothing and a successful one is never lost: the entries
   marked consumed are exactly those accepted and not yet swept. *)
ConsumedMeansAccepted ==
    \A s \in Sites, n \in Nonces :
        nonces[s][n] # Absent =>
            (nonces[s][n].consumed <=> \E i \in DOMAIN accepted : accepted[i].nonce = n)

(* Until its deadline a challenge can be answered, and once only: no sweep, no late or
   failed attempt and no other visitor takes it away, so a retry after a failure still finds
   it open, and nothing but an acceptance closes it. *)
ChallengesStayAnswerable ==
    \A n \in DOMAIN minted :
        LET challenge == minted[n] IN
        now - challenge.at <= TTL =>
            (Open(challenge.site, n) <=> \A i \in DOMAIN accepted : accepted[i].nonce # n)

(* The acceptances of a site. *)
Here(s) == {i \in DOMAIN accepted : accepted[i].site = s}

(* The account table is the list of the site's accepted pseudonyms: every acceptance has
   an account, and every account is dated by the first acceptance of its key. *)
AccountsAreFirstAcceptances ==
    \A s \in Sites :
        /\ \A i \in Here(s) : \E r \in accounts[s] : r.key = accepted[i].token.temp_key
        /\ \A r \in accounts[s] : \E i \in Here(s) :
               /\ r = [key |-> accepted[i].token.temp_key, first_seen |-> accepted[i].at]
               /\ \A j \in Here(s) : accepted[j].token.temp_key = r.key => i <= j

(* The table does not leak: whenever a challenge is answered, every entry left in the
   site's table is younger than the deadline, consumed ones included. *)
SweepIsComplete ==
    [][\A s \in Sites : (minted' # minted /\ nonces'[s] # nonces[s]) =>
          \A n \in Nonces : nonces'[s][n] # Absent => now - nonces'[s][n].issued <= TTL]_vars


=============================================================================
