-------------------------- MODULE AgeVerification --------------------------
(***************************************************************************)
(* The whole protocol of code/python/protocol.py: the authority enrols     *)
(* holders and publishes bundles, wallets turn a bundle and a challenge    *)
(* into a token, sites verify tokens offline.  A token travels on a        *)
(* network that may delay, duplicate, redirect or relabel it.  Root        *)
(* bundles are public: any site and any wallet may use any of them.  A     *)
(* bundle is verified under the key it carries and that key is compared    *)
(* with no other, so bundles of other authorities circulate as well.       *)
(***************************************************************************)
EXTENDS Integers, Sequences

CONSTANTS
    Holders,       \* citizens; each has one wallet
    Age,           \* per holder
    Instances,     \* the thresholds the authority runs an instance for
    NoThreshold,   \* the single-set instance
    AdultAge,      \* what "of age" means for the single-set instance
    Sites, Domain, Required,
    OtherBundles,  \* bundles that another authority signed with its own key
    OtherDomains,  \* what else a wallet may be told to be the name of the site
    Hash, Bar,     \* the separators of a domain string
    Answers,       \* what users answer when their wallet asks (allow_repin)
    EmptyLeaf, NoIndex, NoFile, NoBundle, Absent, Idle,
    Capacity, TTL, EpochSeconds,
    Savers,               \* bound: the holders whose wallets are saved and restarted
    MaxExchanges,         \* bound on the bundles published and the requests, together
    MaxEnrolments,        \* bound on the enrolments in any two trees together
    MaxGaTime, MaxBundles, MaxTime, MaxNonces, MaxCalls   \* bounds

VARIABLES
    registry, tree, nextIndex, gaNow, published,            \* the authority
    wallet, file, calls, given, unsaved, lost,              \* the wallets
    bundle, nonces, accounts, call, now, minted, accepted,  \* the sites
    tokens                                                  \* every token ever made

gaVars == <<registry, tree, nextIndex, gaNow, published>>
walletVars == <<wallet, file, calls, given, unsaved, lost>>
siteVars == <<bundle, nonces, accounts, call, now, minted, accepted>>
vars == <<gaVars, walletVars, siteVars, tokens>>

Domains == {Domain[s] : s \in Sites} \cup OtherDomains
Epochs == 0 .. MaxTime \div EpochSeconds + 1

Crypto == INSTANCE TokenProof

Authority == INSTANCE GovernmentAuthority
    WITH Citizens <- Holders, Leaves <- {Crypto!LeafHash(h) : h \in Holders},
         MaxTime <- MaxGaTime

Malformed == {r \in Domains \X Instances : ~Crypto!Encodable(r[1], r[2])}

Wallet == INSTANCE CitizenWallet
    WITH Wallets <- Holders, Instances <- Instances \cup {NoThreshold},
         MaxIndex <- Capacity - 1

(* What any bundle and any token looks like; the actions below choose among those that
   circulate and those that were made. *)
Chars == {Hash, Bar} \cup UNION {{d[i] : i \in DOMAIN d} : d \in Domains}
Contexts == Seq(Nat \cup Chars)
Keys == Holders \X Contexts
Roots == [Authority!Slots -> Holders \cup {EmptyLeaf}]
Proofs == [ctx : Contexts, bytes : Seq(Nat \cup Chars \cup Roots \cup Keys), bound : BOOLEAN,
           key : Keys, root : Roots]

Site == INSTANCE Website
    WITH Bundles <- Authority!Bundles,
         Tokens <- [domain : Domains, threshold : Instances, epoch : Nat,
                    temp_key : Keys, proof : Proofs]

ASSUME CapacityAssumption == Capacity \in Nat \ {0}
ASSUME HolderAssumption == EmptyLeaf \notin Holders
ASSUME IndexAssumption == NoIndex \notin Nat
ASSUME ThresholdAssumption == /\ Instances \subseteq Crypto!Thresholds \cup {NoThreshold}
                              /\ NoThreshold \notin Nat
ASSUME SeparatorAssumption == Hash # Bar /\ Hash \notin 0 .. 9 /\ Bar \notin 0 .. 9
ASSUME CirculationAssumption == OtherBundles \subseteq Authority!Bundles
ASSUME SaverAssumption == Savers \subseteq Holders
ASSUME AnswerAssumption == Answers \subseteq BOOLEAN
ASSUME DomainAssumption == Domains \subseteq Seq(Chars)
ASSUME SiteAssumption == /\ TTL \in Nat /\ EpochSeconds \in Nat \ {0} /\ MaxNonces \in Nat
                         /\ NoBundle \notin Authority!Bundles
                         /\ Absent \notin Site!Entries /\ Idle \notin Site!Calls

Init == /\ Authority!Init /\ Wallet!Init /\ Site!Init
        /\ tokens = {}

-----------------------------------------------------------------------------
(* The identity check that precedes enrolment. *)
Qualifies(h, a) == Age[h] >= (IF a = NoThreshold THEN AdultAge ELSE a)

(* enroll_with: the authority enrols, the wallet keeps the index it is given. *)
EnrollWith(h, a) ==
    /\ \A b \in Instances \ {a} : nextIndex[a] + nextIndex[b] < MaxEnrolments
    /\ Authority!Enroll(a, h, Qualifies(h, a), Crypto!LeafHash(h))
    /\ Wallet!EnrollWith(h, a, nextIndex[a])
    /\ UNCHANGED <<siteVars, tokens>>

Revoke(h, a) ==
    /\ Authority!Revoke(a, h)
    /\ UNCHANGED <<walletVars, siteVars, tokens>>

Publish(a) ==
    /\ Len(published) + Len(calls) < MaxExchanges
    /\ Authority!PublishRootBundle(a)
    /\ UNCHANGED <<walletVars, siteVars, tokens>>

PublishedBundles == {published[k] : k \in DOMAIN published}

(* What verify_root_bundle lets pass, in a wallet and in a site. *)
CirculatingBundles == PublishedBundles \cup OtherBundles

(* make_token, up to its result: the root comes from the bundle the wallet was shown, the
   path from the tree its caller passed. *)
TokenMade(h, b, leaves, domain, epoch, nonce) ==
    LET a == b.threshold
        cd == Crypto!CtxDomain(domain, a)
        ctx == Crypto!ContextDigest(cd, epoch)
        key == Crypto!TempKey(h, ctx)
        bytes == Crypto!ContextBytes(cd, epoch, b.root, key, nonce) IN
    [temp_key |-> key, epoch |-> epoch, domain |-> domain, threshold |-> a,
     proof |-> Crypto!Prove(h, leaves, Wallet!LeafIndexFor(wallet[h], a), ctx, bytes)]

MakeToken(h, b, leaves, domain, epoch, nonce, allow) ==
    /\ Len(published) + Len(calls) < MaxExchanges
    /\ Wallet!MakeToken(h, domain, b.threshold, allow)
    /\ tokens' = IF Wallet!Outcome(wallet[h], domain, b.threshold, allow) = "token"
                 THEN tokens \cup {TokenMade(h, b, leaves, domain, epoch, nonce)}
                 ELSE tokens
    /\ UNCHANGED <<gaVars, siteVars>>

(* save, and a restart from what it wrote. *)
SaveOrLoad(h) ==
    /\ Wallet!Save(h) \/ Wallet!Load(h)
    /\ UNCHANGED <<gaVars, siteVars, tokens>>

(* What may arrive: a token that was made, its labels rewritten on the way. *)
Relabelled(t, d, a, e) == [t EXCEPT !.domain = d, !.threshold = a, !.epoch = e]

Deliverable ==
    {Relabelled(t, d, a, e) :
        t \in tokens, d \in Domains, a \in Instances, e \in Epochs}

Create(s, b) == Site!Create(s, b) /\ UNCHANGED <<gaVars, walletVars, tokens>>
UpdateRoot(s, b) == Site!UpdateRoot(s, b) /\ UNCHANGED <<gaVars, walletVars, tokens>>
Challenge(s) == Site!Challenge(s) /\ UNCHANGED <<gaVars, walletVars, tokens>>

(* verify_token: a token is delivered with a nonce, and the call goes on. *)
VerifyToken(s, n) ==
    /\ \/ Site!VerifyExpired(s, n)
       \/ \E token \in Deliverable : Site!VerifyInTime(s, token, n)
    /\ UNCHANGED <<gaVars, walletVars, tokens>>

VerifyGoesOn(s) ==
    /\ Site!VerifyEpoch(s) \/ Site!VerifyAccept(s) \/ Site!VerifyReject(s)
    /\ UNCHANGED <<gaVars, walletVars, tokens>>

AuthorityTick == Authority!Tick /\ UNCHANGED <<walletVars, siteVars, tokens>>
SiteTick == Site!Tick /\ UNCHANGED <<gaVars, walletVars, tokens>>

(* The tree passed to make_token is what the authority publishes at this moment, or what
   the bundle was made from. *)
TreesFor(b) == {tree[b.threshold], b.root}

Next ==
    \/ \E h \in Holders, a \in Instances : EnrollWith(h, a) \/ Revoke(h, a)
    \/ \E a \in Instances : Publish(a)
    \/ \E h \in Holders, b \in CirculatingBundles, d \in Domains, e \in {Site!current_epoch},
          n \in DOMAIN minted, allow \in Answers :
          \E leaves \in TreesFor(b) : MakeToken(h, b, leaves, d, e, n, allow)
    \/ \E h \in Savers : SaveOrLoad(h)
    \/ \E s \in Sites, b \in CirculatingBundles : Create(s, b) \/ UpdateRoot(s, b)
    \/ \E s \in Sites : Challenge(s) \/ VerifyGoesOn(s)
    \/ \E s \in Sites, n \in DOMAIN minted : VerifyToken(s, n)
    \/ AuthorityTick
    \/ SiteTick

Spec == Init /\ [][Next]_vars

-----------------------------------------------------------------------------
(* The holder whose secret a proof was made from. *)
Holder(token) == token.proof.key[1]

(* Soundness end to end: whoever a site accepts is a member of the root the site verified
   against, and if that root is one of this authority's, they satisfy the site's age
   threshold, whatever the network does.  Which authority's bundles a site uses is its
   caller's business: nothing in the code compares the key of a bundle with a known one. *)
AcceptedHoldersQualify ==
    \A i \in DOMAIN accepted :
        LET e == accepted[i]
            h == Holder(e.token) IN
        /\ \E slot \in DOMAIN e.bundle.root : e.bundle.root[slot] = Crypto!LeafHash(h)
        /\ e.bundle \in PublishedBundles => Qualifies(h, Required[e.site])

(* Consent: an accepted holder had asked, in their own wallet, for a token for this very
   domain and threshold; no relabelling or redirection, and no domain with a separator in
   it, turns a token into one for another site or another age. *)
AcceptedWasRequested ==
    \A i \in DOMAIN accepted :
        \E k \in DOMAIN calls :
            /\ calls[k].wallet = Holder(accepted[i].token)
            /\ calls[k].domain = Domain[accepted[i].site]
            /\ calls[k].threshold = Required[accepted[i].site]
            /\ calls[k].outcome = "token"

(* A challenge of this site, answered by the wallet of h for the bundle that the site has
   and with the tree as it is now: a token comes of it, and its proof verifies there as
   long as the site's root is that of the tree. *)
ServedAt(s, h) ==
    LET a == Required[s]
        b == bundle[s]
        Answer(n) == TokenMade(h, b, tree[a], Domain[s], Site!current_epoch, n) IN
    /\ Wallet!Outcome(wallet[h], Domain[s], a, TRUE) = "token"
    /\ \A n \in DOMAIN minted : Site!ProofVerifies(s, Answer(n), n) <=> b.root = tree[a]

(* A holder the registry lists is served by every site of that threshold, in any order of
   enrolments in several trees, revocations, re-enrolments, saves and restarts: the wallet
   knows the slot the registry knows, confirmed requests give tokens, and their proofs
   verify.  There are two exceptions and no others: the wallet was restarted from a file
   older than its enrolment, or the site's bundle is older than the tree. *)
EnrolledHolderIsServed ==
    \A h \in Holders, a \in Instances :
        registry[a][h] # NoIndex /\ a \notin lost[h] =>
            /\ Wallet!LeafIndexFor(wallet[h], a) = registry[a][h]
            /\ \A s \in Sites : bundle[s] # NoBundle /\ Required[s] = a => ServedAt(s, h)

(* "stale bundle, possible rollback": when a site takes a bundle of this authority, every
   older one of its threshold, up to the date of the bundle it had, has that one's root in
   its future: a leaf revoked in any of them is not in the new root.  Only bundles of one
   and the same second may come in the wrong order; bundles of others in between change
   nothing. *)
SiteRootsMoveForward ==
    [][\A s \in Sites : bundle[s] # NoBundle /\ bundle'[s] \in PublishedBundles =>
          \A p \in PublishedBundles :
              (p.threshold = Required[s] /\ p.issued_at <= bundle[s].issued_at) =>
                  \/ Authority!Extends(p.root, p.tree_size, bundle'[s].root, bundle'[s].tree_size)
                  \/ /\ p.issued_at = bundle'[s].issued_at
                     /\ Authority!Extends(bundle'[s].root, bundle'[s].tree_size,
                                          p.root, p.tree_size)]_vars

(* "stale bundle, possible rollback": a site never goes back from one bundle of the
   authority to an earlier one. *)
SiteNeverRollsBack ==
    [][\A s \in Sites : bundle[s] \in PublishedBundles /\ bundle'[s] \in PublishedBundles =>
          Authority!Extends(bundle[s].root, bundle[s].tree_size,
                            bundle'[s].root, bundle'[s].tree_size)]_vars

=============================================================================
