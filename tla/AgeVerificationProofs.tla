----------------------- MODULE AgeVerificationProofs -----------------------
(* The protocol as a whole, for every number of holders, sites and thresholds, every age
   and every tree: who is accepted is of age, is a member and has consented. *)
EXTENDS AgeVerification, SequenceTheorems, TLAPS

Issuer == INSTANCE GovernmentAuthorityProofs
    WITH Citizens <- Holders, Leaves <- {Crypto!LeafHash(h) : h \in Holders},
         MaxTime <- MaxGaTime

Verifiers == INSTANCE WebsiteProofs
    WITH Bundles <- Authority!Bundles,
         Tokens <- [domain : Domains, threshold : Instances, epoch : Nat,
                    temp_key : Keys, proof : Proofs]

Slots == 0 .. Capacity - 1
AllInstances == Instances \cup {NoThreshold}
Indices == Slots \cup {NoIndex}

(* A sequence of whatever is in it. *)
IsSeq(s) == s \in Seq({s[i] : i \in DOMAIN s})

(* What is in a sequence may be taken for what it is a sequence of. *)
LEMMA SeqOfItsOwn ==
    ASSUME NEW S, NEW s \in Seq(S)
    PROVE  IsSeq(s)
  <1>1. s \in [1 .. Len(s) -> S] /\ Len(s) \in Nat
    BY SMT
  <1>2. s \in [1 .. Len(s) -> {s[i] : i \in DOMAIN s}]
    BY <1>1
  <1> QED BY <1>1, <1>2, SeqDef DEF IsSeq

(* Appending changes nothing that was there. *)
LEMMA Appended ==
    ASSUME NEW s, IsSeq(s), NEW e
    PROVE  /\ IsSeq(Append(s, e))
           /\ Len(s) \in Nat /\ DOMAIN s = 1 .. Len(s)
           /\ DOMAIN Append(s, e) = DOMAIN s \cup {Len(s) + 1}
           /\ \A i \in DOMAIN s : Append(s, e)[i] = s[i]
           /\ Append(s, e)[Len(s) + 1] = e
           /\ Len(s) + 1 \notin DOMAIN s
  <1> DEFINE R == {s[i] : i \in DOMAIN s}
             W == R \cup {e}
             t == Append(s, e)
  <1>1. s \in Seq(W) /\ e \in W
    BY SMT DEF IsSeq
  <1> HIDE DEF W
  <1>2. Len(s) \in Nat /\ DOMAIN s = 1 .. Len(s)
    BY <1>1, SMT
  <1>3. /\ t \in Seq(W) /\ Len(t) = Len(s) + 1
        /\ \A i \in 1 .. Len(s) : t[i] = s[i]
        /\ t[Len(s) + 1] = e
    BY <1>1, SMT
  <1>4. DOMAIN t = 1 .. Len(s) + 1
    BY <1>3, SMT
  <1>5. DOMAIN t = DOMAIN s \cup {Len(s) + 1} /\ Len(s) + 1 \notin DOMAIN s
    BY <1>2, <1>4, SMT
  <1>6. IsSeq(t)
    BY <1>3, SeqOfItsOwn
  <1> QED BY <1>2, <1>3, <1>5, <1>6

(* The assumptions under which the theorems of the parts hold are among the protocol's. *)
LEMMA AuthorityAssumptions ==
    Issuer!CapacityAssumption /\ Issuer!LeafAssumption /\ Issuer!NoIndexAssumption
  BY CapacityAssumption, HolderAssumption, IndexAssumption
  DEF Issuer!CapacityAssumption, Issuer!LeafAssumption, Issuer!NoIndexAssumption, Crypto!LeafHash

LEMMA SiteAssumptions ==
    /\ Verifiers!SeparatorAssumption /\ Verifiers!NoThresholdIsNoNumber
    /\ Verifiers!TTLAssumption /\ Verifiers!EpochAssumption /\ Verifiers!BoundAssumption
    /\ Verifiers!BundleAssumption /\ Verifiers!DomainAssumption
    /\ Verifiers!AbsentAssumption /\ Verifiers!IdleAssumption
  <1>1. Verifiers!SeparatorAssumption /\ Verifiers!NoThresholdIsNoNumber
    BY SeparatorAssumption, ThresholdAssumption
    DEF Verifiers!SeparatorAssumption, Verifiers!NoThresholdIsNoNumber
  <1>2. Verifiers!TTLAssumption /\ Verifiers!EpochAssumption /\ Verifiers!BoundAssumption
    BY SiteAssumption
    DEF Verifiers!TTLAssumption, Verifiers!EpochAssumption, Verifiers!BoundAssumption
  <1>3. Verifiers!BundleAssumption
    BY SiteAssumption DEF Verifiers!BundleAssumption, Authority!Bundles
  <1>4. Verifiers!AbsentAssumption /\ Verifiers!IdleAssumption
    BY SiteAssumption
    DEF Verifiers!AbsentAssumption, Verifiers!IdleAssumption, Site!Entries, Site!Calls
  <1>5. Verifiers!DomainAssumption
    <2>1. ASSUME NEW s \in Sites
          PROVE  Domain[s] \in Seq({Domain[s][i] : i \in DOMAIN Domain[s]})
      <3>1. Domain[s] \in Seq(Chars)
        BY DomainAssumption DEF Domains
      <3>2. IsSeq(Domain[s])
        BY <3>1, SeqOfItsOwn
      <3> QED BY <3>2 DEF IsSeq
    <2> QED BY <2>1 DEF Verifiers!DomainAssumption
  <1> QED BY <1>1, <1>2, <1>3, <1>4, <1>5

(* The field of a deployment is a string. *)
LEMMA CtxDomainType ==
    ASSUME NEW k \in AllInstances, NEW c \in Seq(Chars)
    PROVE  Crypto!CtxDomain(c, k) \in Seq(Chars \cup 0 .. 9)
  <1> DEFINE U == Chars \cup 0 .. 9
  <1>0. k \in Crypto!Thresholds \cup {NoThreshold}
    BY ThresholdAssumption DEF AllInstances
  <1>1. c \in Seq(U)
    BY SeqMonotonic
  <1>2. CASE k = NoThreshold
    BY <1>1, <1>2 DEF Crypto!CtxDomain
  <1>3. CASE k # NoThreshold
    <2>1. k \in Nat
      BY <1>0, <1>3, SMT DEF Crypto!Thresholds
    <2>2. Crypto!Decimal(k) \in Seq(0 .. 9)
      <3>1. Crypto!Width(k) \in Nat
        BY DEF Crypto!Width
      <3>2. \A i \in 1 .. Crypto!Width(k) :
               (k \div Crypto!Weight[Crypto!Width(k) + 1 - i]) % 10 \in 0 .. 9
        <4>1. \A j \in 1 .. 5 : Crypto!Weight[j] \in Nat \ {0}
          BY SMT DEF Crypto!Weight
        <4>2. \A i \in 1 .. Crypto!Width(k) : Crypto!Width(k) + 1 - i \in 1 .. 5
          BY <2>1, SMT DEF Crypto!Width
        <4>3. \A w \in Nat \ {0} : (k \div w) % 10 \in 0 .. 9
          <5> SUFFICES ASSUME NEW w \in Nat \ {0} PROVE (k \div w) % 10 \in 0 .. 9
            OBVIOUS
          <5>1. k \div w \in Nat
            BY <2>1, SMT
          <5> QED BY <5>1, SMT
        <4> QED BY <4>1, <4>2, <4>3
      <3>3. Crypto!Decimal(k) \in [1 .. Crypto!Width(k) -> 0 .. 9]
        BY <3>2 DEF Crypto!Decimal
      <3> DEFINE W == Crypto!Width(k)
                 D == Crypto!Decimal(k)
      <3>4. D \in [1 .. W -> 0 .. 9] /\ W \in Nat
        BY <3>1, <3>3
      <3> HIDE DEF W, D
      <3>5. D \in Seq(0 .. 9)
        BY <3>4, SeqDef
      <3> QED BY <3>5 DEF D
    <2>3. Crypto!Decimal(k) \in Seq(U)
      BY <2>2, SeqMonotonic
    <2>4. <<Hash>> \in Seq(U)
      BY SMT DEF Chars
    <2>5. c \o <<Hash>> \o Crypto!Decimal(k) \in Seq(U)
      BY <1>1, <2>3, <2>4, ConcatProperties
    <2> QED BY <1>3, <2>5 DEF Crypto!CtxDomain
  <1> QED BY <1>2, <1>3

(* Two contexts of two deployments differ. *)
LEMMA ContextsDiffer ==
    ASSUME NEW d \in Seq(Chars), NEW e \in Seq(Chars),
           Crypto!CheckDomain(d), Crypto!CheckDomain(e),
           NEW m \in AllInstances, NEW n \in AllInstances, NEW p, NEW q,
           Crypto!ContextDigest(Crypto!CtxDomain(d, m), p)
             = Crypto!ContextDigest(Crypto!CtxDomain(e, n), q)
    PROVE  d = e /\ m = n
  <1> DEFINE f == Crypto!CtxDomain(d, m)
             g == Crypto!CtxDomain(e, n)
             U == Chars \cup 0 .. 9 \cup {p, q}
  <1>1. m \in Crypto!Thresholds \cup {NoThreshold} /\ n \in Crypto!Thresholds \cup {NoThreshold}
    BY ThresholdAssumption DEF AllInstances
  <1>2. ASSUME NEW k \in AllInstances, NEW c \in Seq(Chars)
        PROVE  Crypto!CtxDomain(c, k) \in Seq(U)
    BY CtxDomainType, SeqMonotonic
  <1>3. f \in Seq(U) /\ g \in Seq(U)
    BY <1>2
  <1> DEFINE tf == <<Bar, p>>
             tg == <<Bar, q>>
  <1>4. tf \in Seq(U) /\ tg \in Seq(U) /\ Len(tf) = 2 /\ Len(tg) = 2
    BY SMT DEF Chars
  <1>5. f \o tf = g \o tg
    BY DEF Crypto!ContextDigest
  <1> HIDE DEF f, g, U, tf, tg
  <1>6. /\ Len(f \o tf) = Len(f) + 2 /\ \A i \in 1 .. Len(f) : (f \o tf)[i] = f[i]
        /\ Len(g \o tg) = Len(g) + 2 /\ \A i \in 1 .. Len(g) : (g \o tg)[i] = g[i]
        /\ Len(f) \in Nat /\ Len(g) \in Nat
    <2>1. \A a, b \in Seq(U) : /\ Len(a \o b) = Len(a) + Len(b) /\ Len(a) \in Nat
                                /\ \A i \in 1 .. Len(a) : (a \o b)[i] = a[i]
      BY ConcatProperties, LenProperties, SMT
    <2> QED BY <1>3, <1>4, <2>1
  <1>7. Len(f) = Len(g) /\ \A i \in 1 .. Len(f) : f[i] = g[i]
    BY <1>5, <1>6, SMT
  <1>8. f = g
    BY <1>3, <1>7, SeqEqual
  <1>9. Crypto!CtxDomain(d, m) = Crypto!CtxDomain(e, n)
    BY <1>8 DEF f, g
  <1>10. Verifiers!CheckDomain(d) /\ Verifiers!CheckDomain(e)
    BY DEF Crypto!CheckDomain, Verifiers!CheckDomain
  <1>11. Crypto!Weight = Verifiers!Weight
    BY DEF Crypto!Weight, Verifiers!Weight
  <1>12. \A k \in Nat : Crypto!Width(k) = Verifiers!Width(k)
    BY DEF Crypto!Width, Verifiers!Width
  <1>13. \A k \in Nat : Crypto!Decimal(k) = Verifiers!Decimal(k)
    BY <1>11, <1>12 DEF Crypto!Decimal, Verifiers!Decimal
  <1>14. Crypto!Thresholds = Verifiers!Thresholds /\ \A k \in Verifiers!Thresholds : k \in Nat
    BY SMT DEF Crypto!Thresholds, Verifiers!Thresholds
  <1>15. ASSUME NEW k \in Crypto!Thresholds \cup {NoThreshold}, NEW c
         PROVE  Crypto!CtxDomain(c, k) = Verifiers!CtxDomain(c, k)
    BY <1>13, <1>14 DEF Crypto!CtxDomain, Verifiers!CtxDomain
  <1>16. /\ m \in Verifiers!Thresholds \cup {NoThreshold}
         /\ n \in Verifiers!Thresholds \cup {NoThreshold}
         /\ Verifiers!CtxDomain(d, m) = Verifiers!CtxDomain(e, n)
    BY <1>1, <1>9, <1>14, <1>15
  <1> QED BY SiteAssumptions, <1>10, <1>16, Verifiers!FieldsAreUnambiguous

-----------------------------------------------------------------------------
(* What the histories say about each other. *)

(* A leaf is that of a holder who qualifies for the tree it is in. *)
LeavesQualify(leaves, a) ==
    \A i \in Slots : leaves[i] # EmptyLeaf => Qualifies(leaves[i], a)

(* The slot of a registered holder has their leaf and is the index they were given last;
   no index given is still to be handed out. *)
HoldersAreServed ==
    \A a \in Instances, h \in Holders :
        /\ given[h][a] # NoIndex => given[h][a] < nextIndex[a]
        /\ registry[a][h] # NoIndex => /\ tree[a][registry[a][h]] = Crypto!LeafHash(h)
                                       /\ given[h][a] = registry[a][h]

TreesQualify == \A a \in Instances : LeavesQualify(tree[a], a)

BundlesQualify ==
    \A k \in DOMAIN published : LeavesQualify(published[k].root, published[k].threshold)

WalletMemories ==
    [leaf_index : Indices, indices : [AllInstances -> Indices],
     pins : [Domains -> AllInstances], past : SUBSET Nat]

(* Of the indices an authority gave, a memory knows all but those it misses. *)
KnowsIndices(mem, gave, missing) ==
    \A a \in AllInstances \ missing :
        a # NoThreshold \/ gave[a] # NoIndex => Wallet!LeafIndexFor(mem, a) = gave[a]

(* A wallet, its file and what they lack. *)
WalletOK(mem, saved, gave, missing, unfiled) ==
    /\ mem \in WalletMemories /\ gave \in [AllInstances -> Indices]
    /\ KnowsIndices(mem, gave, missing)
    /\ saved # NoFile => /\ Wallet!Loaded(saved) \in WalletMemories
                         /\ KnowsIndices(Wallet!Loaded(saved), gave, unfiled)

WalletsOK ==
    /\ wallet = [h \in Holders |-> wallet[h]] /\ file = [h \in Holders |-> file[h]]
    /\ given = [h \in Holders |-> given[h]] /\ lost = [h \in Holders |-> lost[h]]
    /\ unsaved = [h \in Holders |-> unsaved[h]]
    /\ \A h \in Holders : WalletOK(wallet[h], file[h], given[h], lost[h], unsaved[h])

(* The proof came out of a wallet, in this call of make_token and an epoch that had begun,
   for a domain and a threshold its holder asked for, and proves their leaf in its root. *)
Requested(p, entry, t) ==
    LET h == entry.wallet
        d == entry.domain
        a == entry.threshold IN
    /\ entry.outcome = "token"
    /\ h \in Holders /\ d \in Domains /\ a \in Instances /\ Crypto!Encodable(d, a)
    /\ p.ctx = Crypto!ContextDigest(Crypto!CtxDomain(d, a), t \div EpochSeconds)
    /\ p.key = Crypto!TempKey(h, p.ctx)
    /\ \E slot \in Slots : p.root[slot] = Crypto!LeafHash(h)

Genuine(p, log, time) == \E k \in DOMAIN log, t \in 0 .. time : Requested(p, log[k], t)

IsToken(t) == t = [temp_key |-> t.temp_key, epoch |-> t.epoch, domain |-> t.domain,
                   threshold |-> t.threshold, proof |-> t.proof]

TokensAreGenuine == \A t \in tokens : IsToken(t) /\ Genuine(t.proof, calls, now)

(* The bundle of a site circulates and is for its threshold. *)
ForSite(b, s, bundles) ==
    b \in bundles /\ b.threshold = Required[s] /\ Crypto!CheckDomain(Domain[s])

SitesUseCirculating ==
    \A s \in Sites : bundle[s] # NoBundle => ForSite(bundle[s], s, CirculatingBundles)

IsCall(c) == c = [reads |-> c.reads, token |-> c.token, nonce |-> c.nonce, asked |-> c.asked]

CallsAreGenuine ==
    \A s \in Sites : call[s] # Idle =>
        /\ bundle[s] # NoBundle
        /\ IsCall(call[s])
        /\ Genuine(call[s].token.proof, calls, now)

(* What an acceptance rests on. *)
AcceptedIsGenuine(e, bundles, log, time) ==
    /\ e.site \in Sites
    /\ ForSite(e.bundle, e.site, bundles)
    /\ Genuine(e.token.proof, log, time)
    /\ e.token.proof.ctx = Crypto!ContextDigest(
           Crypto!CtxDomain(Domain[e.site], Required[e.site]), e.token.epoch)
    /\ e.token.proof.root = e.bundle.root

AcceptedAreGenuine ==
    \A i \in DOMAIN accepted : AcceptedIsGenuine(accepted[i], CirculatingBundles, calls, now)

(* The inductive invariant, in the parts that the actions disturb. *)
AuthorityPart == Issuer!Inv /\ TreesQualify /\ BundlesQualify
WalletPart == WalletsOK /\ IsSeq(calls) /\ HoldersAreServed
SitePart == /\ now \in Nat /\ IsSeq(accepted)
            /\ bundle = [s \in Sites |-> bundle[s]]
            /\ call = [s \in Sites |-> call[s]]
            /\ SitesUseCirculating

Inv == /\ AuthorityPart
       /\ WalletPart
       /\ SitePart
       /\ TokensAreGenuine
       /\ CallsAreGenuine
       /\ AcceptedAreGenuine

-----------------------------------------------------------------------------
(* The authority of the composition is the authority. *)

(* Every step of the protocol is one of the authority or leaves it alone. *)
LEMMA AuthoritySteps == [Next]_vars => [Issuer!Next]_(Issuer!vars)
  <1> SUFFICES ASSUME [Next]_vars PROVE Issuer!Next \/ UNCHANGED gaVars
    BY DEF gaVars, Issuer!vars
  <1>1. ASSUME NEW h \in Holders, NEW a \in Instances, EnrollWith(h, a)
        PROVE  Issuer!Next
    <2>1. Issuer!Enroll(a, h, TRUE, Crypto!LeafHash(h))
      BY <1>1 DEF EnrollWith, Authority!Enroll, Issuer!Enroll, Authority!TreeFull, Issuer!TreeFull,
         Authority!NextSlot, Issuer!NextSlot
    <2> QED BY <2>1 DEF Issuer!Next
  <1>2. ASSUME NEW h \in Holders, NEW a \in Instances, Revoke(h, a)
        PROVE  Issuer!Next
    <2>1. Issuer!Revoke(a, h)
      BY <1>2 DEF Revoke, Authority!Revoke, Issuer!Revoke
    <2> QED BY <2>1 DEF Issuer!Next
  <1>3. ASSUME NEW a \in Instances, Publish(a)
        PROVE  Issuer!Next
    <2>1. Issuer!PublishRootBundle(a)
      BY <1>3 DEF Publish, Authority!PublishRootBundle, Issuer!PublishRootBundle,
         Authority!Bundle, Issuer!Bundle
    <2> QED BY <2>1 DEF Issuer!Next
  <1>4. ASSUME AuthorityTick
        PROVE  Issuer!Next
    <2>1. Issuer!Tick
      BY <1>4 DEF AuthorityTick, Authority!Tick, Issuer!Tick
    <2> QED BY <2>1 DEF Issuer!Next
  <1>5. ASSUME NEW h, NEW b, NEW l, NEW d, NEW e, NEW n, NEW allow,
               MakeToken(h, b, l, d, e, n, allow) \/ SaveOrLoad(h)
        PROVE  UNCHANGED gaVars
    BY <1>5 DEF MakeToken, SaveOrLoad
  <1>6. ASSUME NEW s, NEW b, Create(s, b) \/ UpdateRoot(s, b)
        PROVE  UNCHANGED gaVars
    BY <1>6 DEF Create, UpdateRoot
  <1>7. ASSUME NEW s, Challenge(s) \/ VerifyGoesOn(s)
        PROVE  UNCHANGED gaVars
    BY <1>7 DEF Challenge, VerifyGoesOn
  <1>8. ASSUME NEW s, NEW n, VerifyToken(s, n)
        PROVE  UNCHANGED gaVars
    BY <1>8 DEF VerifyToken
  <1>9. CASE SiteTick \/ UNCHANGED vars
    BY <1>9 DEF SiteTick, vars
  <1> QED BY <1>1, <1>2, <1>3, <1>4, <1>5, <1>6, <1>7, <1>8, <1>9 DEF Next

LEMMA AuthorityInit == Init => Issuer!Init
  BY DEF Init, Authority!Init, Issuer!Init, Authority!EmptyTree, Issuer!EmptyTree,
     Authority!Slots, Issuer!Slots

(* The protocol implements the authority: what is proved of one authority alone holds of
   it when wallets and sites use its trees and bundles. *)
THEOREM AuthorityRefined == Spec => Issuer!Spec
  BY AuthorityInit, AuthoritySteps, PTL DEF Spec, Issuer!Spec

-----------------------------------------------------------------------------
(* What the authority's invariant says of the variables. *)
LEMMA AuthorityTypes ==
    ASSUME Issuer!Inv
    PROVE  /\ registry \in [Instances -> [Holders -> Slots \cup {NoIndex}]]
           /\ tree \in [Instances -> [Slots -> Holders \cup {EmptyLeaf}]]
           /\ nextIndex \in [Instances -> 0 .. Capacity]
           /\ IsSeq(published)
           /\ \A k \in DOMAIN published :
                 /\ published[k].threshold \in Instances
                 /\ published[k].root \in [Slots -> Holders \cup {EmptyLeaf}]
                 /\ published[k].issued_at \in Nat
           /\ \A a \in Instances, h \in Holders :
                 registry[a][h] # NoIndex => registry[a][h] < nextIndex[a]
  <1>1. {Crypto!LeafHash(h) : h \in Holders} = Holders
    BY DEF Crypto!LeafHash
  <1>2. /\ registry \in [Instances -> [Holders -> Slots \cup {NoIndex}]]
        /\ tree \in [Instances -> [Slots -> Holders \cup {EmptyLeaf}]]
        /\ nextIndex \in [Instances -> 0 .. Capacity]
        /\ published \in Seq(Issuer!Bundles)
    BY <1>1 DEF Issuer!Inv, Issuer!TypeOK, Issuer!Slots, Slots
  <1>3. \A k \in DOMAIN published : published[k] \in Issuer!Bundles
    BY <1>2, SMT
  <1>4. \A b \in Issuer!Bundles :
           /\ b.threshold \in Instances
           /\ b.root \in [Slots -> Holders \cup {EmptyLeaf}]
           /\ b.issued_at \in Nat
    BY <1>1 DEF Issuer!Bundles, Issuer!Slots, Slots
  <1>5. \A a \in Instances, h \in Holders :
           registry[a][h] # NoIndex => registry[a][h] < nextIndex[a]
    BY DEF Issuer!Inv, Issuer!InstanceOK
  <1> QED BY <1>2, <1>3, <1>4, <1>5, SeqOfItsOwn

(* A bundle that circulates is one of the authority's or of another authority's. *)
LEMMA BundleTypes ==
    ASSUME Issuer!Inv, NEW b \in CirculatingBundles
    PROVE  /\ b \in Authority!Bundles
           /\ b.threshold \in Instances
           /\ b.root \in [Slots -> Holders \cup {EmptyLeaf}]
           /\ b.issued_at \in Nat
  <1>1. PublishedBundles \subseteq Authority!Bundles
    <2>1. published \in Seq(Issuer!Bundles)
      BY DEF Issuer!Inv, Issuer!TypeOK
    <2>2. \A k \in DOMAIN published : published[k] \in Issuer!Bundles
      BY <2>1, SMT
    <2> QED BY <2>2 DEF PublishedBundles, Issuer!Bundles, Authority!Bundles, Issuer!Slots,
                Authority!Slots
  <1>2. b \in Authority!Bundles
    BY <1>1, CirculationAssumption DEF CirculatingBundles
  <1>3. {Crypto!LeafHash(h) : h \in Holders} = Holders
    BY DEF Crypto!LeafHash
  <1> QED BY <1>2, <1>3 DEF Authority!Bundles, Authority!Slots, Slots

(* An enrolment, with what it does in each place. *)
LEMMA EnrollFacts ==
    ASSUME Issuer!Inv, NEW h \in Holders, NEW a \in Instances, EnrollWith(h, a)
    PROVE  /\ Qualifies(h, a) /\ registry[a][h] = NoIndex
           /\ nextIndex[a] \in Slots /\ nextIndex[a] # NoIndex
           /\ registry' = [registry EXCEPT ![a] = [registry[a] EXCEPT ![h] = nextIndex[a]]]
           /\ tree' = [tree EXCEPT ![a] = [tree[a] EXCEPT ![nextIndex[a]] = h]]
           /\ nextIndex' = [nextIndex EXCEPT ![a] = nextIndex[a] + 1]
           /\ Wallet!EnrollWith(h, a, nextIndex[a])
           /\ UNCHANGED <<published, gaNow, calls, siteVars, tokens>>
  <1>1. Authority!Enroll(a, h, Qualifies(h, a), h) /\ Wallet!EnrollWith(h, a, nextIndex[a])
    BY DEF EnrollWith, Crypto!LeafHash
  <1>2. nextIndex[a] \in 0 .. Capacity /\ ~(nextIndex[a] >= Capacity)
    BY <1>1, AuthorityTypes DEF Authority!Enroll, Authority!TreeFull
  <1>3. nextIndex[a] \in Slots /\ nextIndex[a] # NoIndex
    BY <1>2, CapacityAssumption, IndexAssumption, SMT DEF Slots
  <1>4. registry' = [registry EXCEPT ![a] = [registry[a] EXCEPT ![h] = nextIndex[a]]]
        /\ tree' = [tree EXCEPT ![a] = [tree[a] EXCEPT ![nextIndex[a]] = h]]
    BY <1>1, AuthorityTypes DEF Authority!Enroll, Authority!NextSlot
  <1>5. nextIndex' = [nextIndex EXCEPT ![a] = nextIndex[a] + 1]
    BY <1>1 DEF Authority!Enroll, Authority!NextSlot
  <1>6. UNCHANGED <<published, gaNow, calls, siteVars, tokens>>
    BY <1>1 DEF EnrollWith, Authority!Enroll, Wallet!EnrollWith
  <1> QED BY <1>1, <1>3, <1>4, <1>5, <1>6 DEF Authority!Enroll

LEMMA RevokeFacts ==
    ASSUME Issuer!Inv, NEW h \in Holders, NEW a \in Instances, Revoke(h, a)
    PROVE  /\ registry[a][h] \in Slots
           /\ registry' = [registry EXCEPT ![a] = [registry[a] EXCEPT ![h] = NoIndex]]
           /\ tree' = [tree EXCEPT ![a] = [tree[a] EXCEPT ![registry[a][h]] = EmptyLeaf]]
           /\ UNCHANGED <<nextIndex, published, gaNow, walletVars, siteVars, tokens>>
  <1>1. Authority!Revoke(a, h) /\ UNCHANGED <<walletVars, siteVars, tokens>>
    BY DEF Revoke
  <1> QED BY <1>1, AuthorityTypes DEF Authority!Revoke

(* A publication. *)
LEMMA PublishFacts ==
    ASSUME NEW a \in Instances, Publish(a)
    PROVE  /\ published' = Append(published, [root |-> tree[a], tree_size |-> nextIndex[a],
                                              issued_at |-> gaNow, threshold |-> a])
           /\ UNCHANGED <<registry, tree, nextIndex, walletVars, siteVars, tokens>>
  BY DEF Publish, Authority!PublishRootBundle, Authority!Bundle

(* Every other action leaves the trees and the bundles alone. *)
LEMMA OtherActions ==
    ASSUME [Next]_vars
    PROVE  \/ \E h \in Holders, a \in Instances : EnrollWith(h, a) \/ Revoke(h, a)
           \/ \E a \in Instances : Publish(a)
           \/ UNCHANGED <<registry, tree, nextIndex, published>>
  <1>1. ASSUME NEW h, NEW b, NEW l, NEW d, NEW e, NEW n, NEW allow,
               MakeToken(h, b, l, d, e, n, allow) \/ SaveOrLoad(h)
        PROVE  UNCHANGED gaVars
    BY <1>1 DEF MakeToken, SaveOrLoad
  <1>2. ASSUME NEW s, NEW b, Create(s, b) \/ UpdateRoot(s, b)
        PROVE  UNCHANGED gaVars
    BY <1>2 DEF Create, UpdateRoot
  <1>3. ASSUME NEW s, Challenge(s) \/ VerifyGoesOn(s)
        PROVE  UNCHANGED gaVars
    BY <1>3 DEF Challenge, VerifyGoesOn
  <1>4. ASSUME NEW s, NEW n, VerifyToken(s, n)
        PROVE  UNCHANGED gaVars
    BY <1>4 DEF VerifyToken
  <1>5. CASE SiteTick \/ UNCHANGED vars
    BY <1>5 DEF SiteTick, vars, gaVars
  <1>6. CASE AuthorityTick
    BY <1>6 DEF AuthorityTick, Authority!Tick
  <1> QED BY <1>1, <1>2, <1>3, <1>4, <1>5, <1>6 DEF Next, gaVars

(* Every leaf in a tree or in a bundle is of a holder who was checked for it, in every
   order of enrolments, revocations and publications. *)
LEMMA AuthorityNext ==
    ASSUME AuthorityPart, [Next]_vars
    PROVE  AuthorityPart'
  <1>1. Issuer!Inv'
    BY AuthorityAssumptions, AuthoritySteps, Issuer!NextInv DEF AuthorityPart
  <1>2. TreesQualify'
    <2>1. ASSUME NEW h \in Holders, NEW a \in Instances, EnrollWith(h, a),
                 NEW b \in Instances, NEW i \in Slots, tree'[b][i] # EmptyLeaf
          PROVE  Qualifies(tree'[b][i], b)
      <3>1. /\ tree' = [tree EXCEPT ![a] = [tree[a] EXCEPT ![nextIndex[a]] = h]]
            /\ tree \in [Instances -> [Slots -> Holders \cup {EmptyLeaf}]]
            /\ Qualifies(h, a) /\ nextIndex[a] \in Slots
        BY <2>1, EnrollFacts, AuthorityTypes DEF AuthorityPart
      <3>2. CASE b = a /\ i = nextIndex[a]
        BY <3>1, <3>2
      <3>3. CASE ~(b = a /\ i = nextIndex[a])
        <4>1. tree'[b][i] = tree[b][i]
          BY <3>1, <3>3
        <4> QED BY <4>1, <2>1 DEF AuthorityPart, TreesQualify, LeavesQualify
      <3> QED BY <3>2, <3>3
    <2>2. ASSUME NEW h \in Holders, NEW a \in Instances, Revoke(h, a),
                 NEW b \in Instances, NEW i \in Slots, tree'[b][i] # EmptyLeaf
          PROVE  Qualifies(tree'[b][i], b)
      <3>1. /\ tree' = [tree EXCEPT ![a] = [tree[a] EXCEPT ![registry[a][h]] = EmptyLeaf]]
            /\ tree \in [Instances -> [Slots -> Holders \cup {EmptyLeaf}]]
            /\ registry[a][h] \in Slots
        BY <2>2, RevokeFacts, AuthorityTypes DEF AuthorityPart
      <3>2. tree'[b][i] = tree[b][i]
        BY <3>1, <2>2
      <3> QED BY <3>2, <2>2 DEF AuthorityPart, TreesQualify, LeavesQualify
    <2>3. ASSUME NEW a \in Instances, Publish(a)
          PROVE  tree' = tree
      BY <2>3, PublishFacts
    <2> QED BY <2>1, <2>2, <2>3, OtherActions
        DEF AuthorityPart, TreesQualify, LeavesQualify, Qualifies
  <1>3. BundlesQualify'
    <2>1. CASE published' = published
      BY <2>1 DEF AuthorityPart, BundlesQualify, LeavesQualify, Qualifies
    <2>2. ASSUME NEW a \in Instances, Publish(a)
          PROVE  BundlesQualify'
      <3> DEFINE b == [root |-> tree[a], tree_size |-> nextIndex[a],
                       issued_at |-> gaNow, threshold |-> a]
                 n == Len(published) + 1
      <3>1. published' = Append(published, b) /\ IsSeq(published)
        BY <2>2, PublishFacts, AuthorityTypes DEF AuthorityPart
      <3>2. b.root = tree[a] /\ b.issued_at = gaNow /\ b.threshold = a
        OBVIOUS
      <3> HIDE DEF b
      <3>3. /\ DOMAIN published' = DOMAIN published \cup {n}
            /\ \A k \in DOMAIN published : published'[k] = published[k]
            /\ published'[n] = b
        BY <3>1, Appended
      <3> HIDE DEF n
      <3> QED BY <3>2, <3>3
              DEF AuthorityPart, BundlesQualify, TreesQualify, LeavesQualify, Qualifies
    <2>3. ASSUME NEW h \in Holders, NEW a \in Instances, EnrollWith(h, a) \/ Revoke(h, a)
          PROVE  published' = published
      BY <2>3, EnrollFacts, RevokeFacts DEF AuthorityPart
    <2> QED BY <2>1, <2>2, <2>3, OtherActions
  <1> QED BY <1>1, <1>2, <1>3 DEF AuthorityPart

-----------------------------------------------------------------------------
(* A restart from a save gives back the wallet that was saved. *)
LEMMA RoundTrip ==
    ASSUME NEW mem \in WalletMemories
    PROVE  Wallet!Loaded(Wallet!Saved(mem)) = mem
  <1> DEFINE Kept == {a \in AllInstances : mem.indices[a] # NoIndex}
             entries == {[key |-> Wallet!KeyText(a), index |-> mem.indices[a]] : a \in Kept}
             Named(a) == {e \in entries : Wallet!TextKey(e.key) = a}
             indices == [a \in AllInstances |->
                            IF Named(a) = {} THEN NoIndex
                            ELSE (CHOOSE e \in Named(a) : TRUE).index]
  <1>1. \A a \in AllInstances : Wallet!TextKey(Wallet!KeyText(a)) = a
    BY DEF Wallet!TextKey, Wallet!KeyText
  <1>2. ASSUME NEW a \in AllInstances
        PROVE  indices[a] = mem.indices[a]
    <2>1. CASE mem.indices[a] = NoIndex
      <3>1. Named(a) = {}
        BY <1>1, <2>1
      <3> QED BY <2>1, <3>1
    <2>2. CASE mem.indices[a] # NoIndex
      <3>1. Named(a) = {[key |-> Wallet!KeyText(a), index |-> mem.indices[a]]}
        BY <1>1, <2>2
      <3>2. (CHOOSE e \in Named(a) : TRUE).index = mem.indices[a] /\ Named(a) # {}
        <4> HIDE DEF Named
        <4>1. (CHOOSE e \in Named(a) : TRUE) \in Named(a)
          BY <3>1
        <4> QED BY <3>1, <4>1
      <3> HIDE DEF Named
      <3> QED BY <3>2
    <2> QED BY <2>1, <2>2
  <1>3. indices = mem.indices
    BY <1>2 DEF WalletMemories
  <1>4. Wallet!Loaded(Wallet!Saved(mem)) =
          [leaf_index |-> mem.leaf_index, indices |-> indices, pins |-> mem.pins,
           past |-> mem.past]
    BY DEF Wallet!Loaded, Wallet!Saved, AllInstances
  <1> QED BY <1>3, <1>4 DEF WalletMemories

(* What an enrolment does to a wallet: its index is known, those of other authorities stay
   known, and the file lacks it. *)
LEMMA EnrolledOK ==
    ASSUME NEW mem, NEW saved, NEW gave, NEW missing, NEW unfiled,
           WalletOK(mem, saved, gave, missing, unfiled),
           NEW a \in AllInstances, NEW idx \in Indices
    PROVE  WalletOK(Wallet!AfterEnrolment(mem, a, idx), saved, [gave EXCEPT ![a] = idx],
                    missing \ {a}, unfiled \cup {a})
  <1> DEFINE after == Wallet!AfterEnrolment(mem, a, idx)
             gave2 == [gave EXCEPT ![a] = idx]
  <1>1. /\ after.indices = [mem.indices EXCEPT ![a] = idx]
        /\ after.leaf_index = Wallet!LeafIndexAfter(mem, a, idx)
        /\ mem.indices \in [AllInstances -> Indices]
        /\ after \in WalletMemories
    BY DEF Wallet!AfterEnrolment, Wallet!LeafIndexAfter, WalletMemories, WalletOK
  <1>2. /\ gave2 \in [AllInstances -> Indices] /\ gave2[a] = idx
        /\ \A b \in AllInstances \ {a} : gave2[b] = gave[b]
    BY DEF WalletOK
  <1> HIDE DEF after, gave2
  <1>3. ASSUME NEW b \in AllInstances \ (missing \ {a}), b # NoThreshold \/ gave2[b] # NoIndex
        PROVE  Wallet!LeafIndexFor(after, b) = gave2[b]
    <2>1. CASE b = a
      BY <1>1, <1>2, <2>1 DEF Wallet!LeafIndexFor, Wallet!LeafIndexAfter
    <2>2. CASE b # a
      <3>1. Wallet!LeafIndexFor(mem, b) = gave[b] /\ gave2[b] = gave[b]
        BY <1>2, <1>3, <2>2 DEF WalletOK, KnowsIndices
      <3> QED BY <1>1, <1>3, <2>2, <3>1 DEF Wallet!LeafIndexFor, Wallet!LeafIndexAfter
    <2> QED BY <2>1, <2>2
  <1>4. saved # NoFile => KnowsIndices(Wallet!Loaded(saved), gave2, unfiled \cup {a})
    BY <1>2 DEF WalletOK, KnowsIndices
  <1> QED BY <1>1, <1>2, <1>3, <1>4 DEF WalletOK, KnowsIndices, after, gave2

(* A call of make_token leaves the indices alone, whatever its outcome. *)
LEMMA CalledOK ==
    ASSUME NEW mem, NEW saved, NEW gave, NEW missing, NEW unfiled,
           WalletOK(mem, saved, gave, missing, unfiled),
           NEW d \in Domains, NEW a \in AllInstances, NEW allow, NEW n \in Nat
    PROVE  WalletOK(Wallet!AfterCall(mem, d, a, allow, n), saved, gave, missing, unfiled)
  <1> DEFINE after == Wallet!AfterCall(mem, d, a, allow, n)
             pins == IF Wallet!Warns(mem, d, a, allow) THEN mem.pins
                     ELSE Wallet!PinsAfter(mem, d, a)
  <1>0. mem \in WalletMemories
    BY DEF WalletOK
  <1>1. pins \in [Domains -> AllInstances]
    BY <1>0 DEF Wallet!PinsAfter, WalletMemories
  <1>2. after \in WalletMemories
    BY <1>0, <1>1 DEF Wallet!AfterCall, WalletMemories
  <1>3. after.leaf_index = mem.leaf_index /\ after.indices = mem.indices
    BY <1>0 DEF Wallet!AfterCall, WalletMemories
  <1> HIDE DEF after
  <1>4. \A b : Wallet!LeafIndexFor(after, b) = Wallet!LeafIndexFor(mem, b)
    BY <1>3 DEF Wallet!LeafIndexFor
  <1> QED BY <1>2, <1>4 DEF WalletOK, KnowsIndices, after

(* After a save the file lacks what the memory misses, after a restart the memory misses
   what the file lacks. *)
LEMMA SavedOrLoadedOK ==
    ASSUME NEW mem, NEW saved, NEW gave, NEW missing, NEW unfiled,
           WalletOK(mem, saved, gave, missing, unfiled)
    PROVE  /\ WalletOK(mem, Wallet!Saved(mem), gave, missing, missing)
           /\ saved # NoFile => WalletOK(Wallet!Loaded(saved), saved, gave, unfiled, unfiled)
  BY RoundTrip DEF WalletOK

(* A step of one wallet. *)
LEMMA OneWallet ==
    ASSUME WalletsOK, NEW h \in Holders,
           NEW mem, NEW saved, NEW gave, NEW missing, NEW unfiled,
           WalletOK(mem, saved, gave, missing, unfiled),
           wallet' = [wallet EXCEPT ![h] = mem], file' = [file EXCEPT ![h] = saved],
           given' = [given EXCEPT ![h] = gave], lost' = [lost EXCEPT ![h] = missing],
           unsaved' = [unsaved EXCEPT ![h] = unfiled]
    PROVE  WalletsOK'
  <1>1. ASSUME NEW f, NEW g, NEW v, f = [k \in Holders |-> f[k]], g = [f EXCEPT ![h] = v]
        PROVE  /\ g = [k \in Holders |-> g[k]] /\ g[h] = v
               /\ \A k \in Holders \ {h} : g[k] = f[k]
    BY <1>1
  <1>2. /\ wallet' = [k \in Holders |-> wallet'[k]] /\ wallet'[h] = mem
        /\ \A k \in Holders \ {h} : wallet'[k] = wallet[k]
    BY <1>1 DEF WalletsOK
  <1>3. /\ file' = [k \in Holders |-> file'[k]] /\ file'[h] = saved
        /\ \A k \in Holders \ {h} : file'[k] = file[k]
    BY <1>1 DEF WalletsOK
  <1>4. /\ given' = [k \in Holders |-> given'[k]] /\ given'[h] = gave
        /\ \A k \in Holders \ {h} : given'[k] = given[k]
    BY <1>1 DEF WalletsOK
  <1>5. /\ lost' = [k \in Holders |-> lost'[k]] /\ lost'[h] = missing
        /\ \A k \in Holders \ {h} : lost'[k] = lost[k]
    BY <1>1 DEF WalletsOK
  <1>6. /\ unsaved' = [k \in Holders |-> unsaved'[k]] /\ unsaved'[h] = unfiled
        /\ \A k \in Holders \ {h} : unsaved'[k] = unsaved[k]
    BY <1>1 DEF WalletsOK
  <1>7. ASSUME NEW k \in Holders
        PROVE  WalletOK(wallet'[k], file'[k], given'[k], lost'[k], unsaved'[k])
    <2>1. CASE k = h
      BY <1>2, <1>3, <1>4, <1>5, <1>6, <2>1
    <2>2. CASE k # h
      <3>1. WalletOK(wallet[k], file[k], given[k], lost[k], unsaved[k])
        BY DEF WalletsOK
      <3> QED BY <1>2, <1>3, <1>4, <1>5, <1>6, <2>2, <3>1
    <2> QED BY <2>1, <2>2
  <1> QED BY <1>2, <1>3, <1>4, <1>5, <1>6, <1>7 DEF WalletsOK

(* A request to a wallet, for a circulating bundle and a domain. *)
Asked(h, b, leaves, d, e, n, allow) ==
    /\ b \in CirculatingBundles /\ leaves \in TreesFor(b)
    /\ d \in Domains /\ e = Site!current_epoch /\ n \in DOMAIN minted
    /\ MakeToken(h, b, leaves, d, e, n, allow)

LEMMA MakeTokenFacts ==
    ASSUME AuthorityPart, WalletPart, NEW h \in Holders, NEW b, NEW leaves, NEW d, NEW e, NEW n,
           NEW allow, Asked(h, b, leaves, d, e, n, allow)
    PROVE  /\ b.threshold \in Instances
           /\ calls' = Append(calls, Wallet!CallRecord(h, d, b.threshold, allow))
           /\ wallet' = [wallet EXCEPT ![h] =
                  Wallet!AfterCall(wallet[h], d, b.threshold, allow, Len(calls) + 1)]
           /\ tokens' = IF Wallet!Outcome(wallet[h], d, b.threshold, allow) = "token"
                        THEN tokens \cup {TokenMade(h, b, leaves, d, e, n)} ELSE tokens
           /\ UNCHANGED <<registry, tree, nextIndex, published, siteVars>>
           /\ UNCHANGED <<file, given, unsaved, lost>>
  <1>1. MakeToken(h, b, leaves, d, e, n, allow)
    BY DEF Asked
  <1>2. b.threshold \in Instances
    BY BundleTypes DEF AuthorityPart, Asked
  <1> QED BY <1>1, <1>2 DEF MakeToken, Wallet!MakeToken, Wallet!indexHistory, gaVars

(* Which actions concern the wallets. *)
LEMMA WalletActions ==
    ASSUME [Next]_vars
    PROVE  \/ \E h \in Holders, a \in Instances : EnrollWith(h, a) \/ Revoke(h, a)
           \/ \E h \in Holders : \E b, leaves, d, e, n, allow :
                 Asked(h, b, leaves, d, e, n, allow)
           \/ \E h \in Holders : SaveOrLoad(h)
           \/ UNCHANGED <<registry, tree, nextIndex, walletVars, tokens>>
  <1> DEFINE Alone == UNCHANGED <<registry, tree, nextIndex, walletVars, tokens>>
  <1>1. ASSUME NEW a \in Instances, Publish(a)
        PROVE  Alone
    BY <1>1, PublishFacts
  <1>2. ASSUME NEW s, NEW b, Create(s, b) \/ UpdateRoot(s, b)
        PROVE  Alone
    BY <1>2 DEF Create, UpdateRoot, gaVars
  <1>3. ASSUME NEW s, Challenge(s) \/ VerifyGoesOn(s)
        PROVE  Alone
    BY <1>3 DEF Challenge, VerifyGoesOn, gaVars
  <1>4. ASSUME NEW s, NEW n, VerifyToken(s, n)
        PROVE  Alone
    BY <1>4 DEF VerifyToken, gaVars
  <1>5. CASE SiteTick \/ UNCHANGED vars
    BY <1>5 DEF SiteTick, vars, gaVars
  <1>6. CASE AuthorityTick
    BY <1>6 DEF AuthorityTick, Authority!Tick
  <1>7. ASSUME NEW h \in Holders, NEW b \in CirculatingBundles, NEW leaves \in TreesFor(b),
               NEW d \in Domains, NEW e \in {Site!current_epoch}, NEW n \in DOMAIN minted,
               NEW allow, MakeToken(h, b, leaves, d, e, n, allow)
        PROVE  Asked(h, b, leaves, d, e, n, allow)
    BY <1>7 DEF Asked
  <1>8. Savers \subseteq Holders
    BY SaverAssumption
  <1> HIDE DEF Alone
  <1>9. ASSUME NEW h \in Holders, NEW b \in CirculatingBundles, NEW d \in Domains,
               NEW e \in {Site!current_epoch}, NEW n \in DOMAIN minted, NEW allow \in Answers,
               \E leaves \in TreesFor(b) : MakeToken(h, b, leaves, d, e, n, allow)
        PROVE  \E c, leaves, dd, ee, m, answer : Asked(h, c, leaves, dd, ee, m, answer)
    BY <1>7, <1>9
  <1> QED BY <1>1, <1>2, <1>3, <1>4, <1>5, <1>6, <1>8, <1>9 DEF Next, Alone

(* Every wallet knows the indices it was given, but for those a restart took from it, in
   every order of enrolments, requests, saves and restarts. *)
LEMMA WalletsNext ==
    ASSUME AuthorityPart, WalletPart, [Next]_vars
    PROVE  WalletsOK' /\ IsSeq(calls')
  <1>1. WalletsOK /\ IsSeq(calls)
    BY DEF WalletPart
  <1>2. \A h \in Holders : WalletOK(wallet[h], file[h], given[h], lost[h], unsaved[h])
    BY <1>1 DEF WalletsOK
  <1>3. ASSUME NEW h \in Holders
        PROVE  /\ wallet = [wallet EXCEPT ![h] = wallet[h]]
               /\ file = [file EXCEPT ![h] = file[h]]
               /\ given = [given EXCEPT ![h] = given[h]]
               /\ lost = [lost EXCEPT ![h] = lost[h]]
               /\ unsaved = [unsaved EXCEPT ![h] = unsaved[h]]
    <2>1. ASSUME NEW f, f = [k \in Holders |-> f[k]]
          PROVE  f = [f EXCEPT ![h] = f[h]]
      BY <2>1
    <2> QED BY <1>1, <2>1 DEF WalletsOK
  <1>4. ASSUME NEW h \in Holders, NEW a \in Instances, EnrollWith(h, a)
        PROVE  WalletsOK' /\ IsSeq(calls')
    <2> DEFINE idx == nextIndex[a]
    <2>1. /\ idx \in Indices /\ a \in AllInstances /\ calls' = calls
          /\ Wallet!EnrollWith(h, a, idx)
      BY <1>4, EnrollFacts DEF AuthorityPart, Indices, AllInstances
    <2> HIDE DEF idx
    <2>2. /\ wallet' = [wallet EXCEPT ![h] = Wallet!AfterEnrolment(wallet[h], a, idx)]
          /\ given' = [given EXCEPT ![h] = [given[h] EXCEPT ![a] = idx]]
          /\ unsaved' = [unsaved EXCEPT ![h] = unsaved[h] \cup {a}]
          /\ lost' = [lost EXCEPT ![h] = lost[h] \ {a}]
          /\ file' = [file EXCEPT ![h] = file[h]]
      BY <1>3, <2>1 DEF Wallet!EnrollWith
    <2>3. WalletOK(Wallet!AfterEnrolment(wallet[h], a, idx), file[h],
                   [given[h] EXCEPT ![a] = idx], lost[h] \ {a}, unsaved[h] \cup {a})
      BY <1>2, <2>1, EnrolledOK
    <2> QED BY <1>1, <2>1, <2>2, <2>3, OneWallet
  <1>5. ASSUME NEW h \in Holders, NEW a \in Instances, Revoke(h, a)
        PROVE  WalletsOK' /\ IsSeq(calls')
    BY <1>1, <1>5, RevokeFacts DEF AuthorityPart, walletVars, WalletsOK
  <1>6. ASSUME NEW h \in Holders, NEW b, NEW leaves, NEW d, NEW e, NEW n, NEW allow,
               Asked(h, b, leaves, d, e, n, allow)
        PROVE  WalletsOK' /\ IsSeq(calls')
    <2> DEFINE after == Wallet!AfterCall(wallet[h], d, b.threshold, allow, Len(calls) + 1)
               record == Wallet!CallRecord(h, d, b.threshold, allow)
    <2>1. /\ b.threshold \in AllInstances /\ d \in Domains
          /\ calls' = Append(calls, record)
          /\ wallet' = [wallet EXCEPT ![h] = after]
          /\ file' = [file EXCEPT ![h] = file[h]] /\ given' = [given EXCEPT ![h] = given[h]]
          /\ lost' = [lost EXCEPT ![h] = lost[h]]
          /\ unsaved' = [unsaved EXCEPT ![h] = unsaved[h]]
      BY <1>3, <1>6, MakeTokenFacts DEF Asked, AllInstances
    <2>2. Len(calls) + 1 \in Nat
      BY <1>1, Appended, SMT
    <2>3. WalletOK(after, file[h], given[h], lost[h], unsaved[h])
      BY <1>2, <2>1, <2>2, CalledOK
    <2> HIDE DEF after, record
    <2>4. IsSeq(calls')
      BY <1>1, <2>1, Appended
    <2> QED BY <1>1, <2>1, <2>3, <2>4, OneWallet
  <1>7. ASSUME NEW h \in Holders, SaveOrLoad(h)
        PROVE  WalletsOK' /\ IsSeq(calls')
    <2>1. CASE Wallet!Save(h)
      <3>1. /\ wallet' = [wallet EXCEPT ![h] = wallet[h]]
            /\ file' = [file EXCEPT ![h] = Wallet!Saved(wallet[h])]
            /\ given' = [given EXCEPT ![h] = given[h]]
            /\ lost' = [lost EXCEPT ![h] = lost[h]]
            /\ unsaved' = [unsaved EXCEPT ![h] = lost[h]]
            /\ calls' = calls
        BY <1>3, <2>1 DEF Wallet!Save
      <3>2. WalletOK(wallet[h], Wallet!Saved(wallet[h]), given[h], lost[h], lost[h])
        BY <1>2, SavedOrLoadedOK
      <3> QED BY <1>1, <3>1, <3>2, OneWallet
    <2>2. CASE Wallet!Load(h)
      <3>1. /\ file[h] # NoFile
            /\ wallet' = [wallet EXCEPT ![h] = Wallet!Loaded(file[h])]
            /\ file' = [file EXCEPT ![h] = file[h]]
            /\ given' = [given EXCEPT ![h] = given[h]]
            /\ lost' = [lost EXCEPT ![h] = unsaved[h]]
            /\ unsaved' = [unsaved EXCEPT ![h] = unsaved[h]]
            /\ calls' = calls
        BY <1>3, <2>2 DEF Wallet!Load
      <3>2. WalletOK(Wallet!Loaded(file[h]), file[h], given[h], unsaved[h], unsaved[h])
        BY <1>2, <3>1, SavedOrLoadedOK
      <3> QED BY <1>1, <3>1, <3>2, OneWallet
    <2> QED BY <1>7, <2>1, <2>2 DEF SaveOrLoad
  <1>8. CASE UNCHANGED walletVars
    BY <1>1, <1>8 DEF walletVars, WalletsOK
  <1> QED BY <1>4, <1>5, <1>6, <1>7, <1>8, WalletActions

(* The slot the registry knows has the holder's leaf and is the index the holder was given
   last, in every order of enrolments in several trees and revocations. *)
LEMMA HoldersNext ==
    ASSUME AuthorityPart, WalletPart, [Next]_vars
    PROVE  HoldersAreServed'
  <1>1. /\ registry \in [Instances -> [Holders -> Slots \cup {NoIndex}]]
        /\ tree \in [Instances -> [Slots -> Holders \cup {EmptyLeaf}]]
        /\ \A a \in Instances, h \in Holders :
              registry[a][h] # NoIndex => registry[a][h] < nextIndex[a]
        /\ nextIndex \in [Instances -> 0 .. Capacity]
    BY AuthorityTypes DEF AuthorityPart
  <1>2. /\ given = [h \in Holders |-> given[h]]
        /\ \A h \in Holders : given[h] \in [AllInstances -> Indices]
    BY DEF WalletPart, WalletsOK, WalletOK
  <1>3. ASSUME NEW b \in Instances, NEW g \in Holders
        PROVE  /\ given[g][b] # NoIndex => given[g][b] < nextIndex[b]
               /\ registry[b][g] # NoIndex => /\ tree[b][registry[b][g]] = g
                                              /\ given[g][b] = registry[b][g]
    BY DEF WalletPart, HoldersAreServed, Crypto!LeafHash
  <1>4. ASSUME NEW h \in Holders, NEW a \in Instances, EnrollWith(h, a)
        PROVE  HoldersAreServed'
    <2> DEFINE next == nextIndex[a]
    <2>1. /\ next \in Slots /\ next # NoIndex /\ registry[a][h] = NoIndex
          /\ registry' = [registry EXCEPT ![a] = [registry[a] EXCEPT ![h] = next]]
          /\ tree' = [tree EXCEPT ![a] = [tree[a] EXCEPT ![next] = h]]
          /\ nextIndex' = [nextIndex EXCEPT ![a] = next + 1]
          /\ given' = [given EXCEPT ![h] = [given[h] EXCEPT ![a] = next]]
      BY <1>4, EnrollFacts DEF AuthorityPart, Wallet!EnrollWith
    <2>2. /\ \A g \in Holders : registry[a][g] # NoIndex => registry[a][g] # next
          /\ next < next + 1 /\ next \in Nat
          /\ \A g \in Holders : given[g][a] # NoIndex => given[g][a] < next + 1
      <3>1. next \in Nat
        BY <2>1, CapacityAssumption, SMT DEF Slots
      <3>2. \A i \in Slots : i < next => i # next /\ i < next + 1
        BY <3>1, CapacityAssumption, SMT DEF Slots
      <3>3. \A g \in Holders : given[g][a] \in Indices
        BY <1>2 DEF AllInstances
      <3> QED BY <1>1, <1>3, <3>1, <3>2, <3>3, SMT DEF Indices
    <2> HIDE DEF next
    <2>3. ASSUME NEW b \in Instances, NEW g \in Holders
          PROVE  /\ given'[g][b] # NoIndex => given'[g][b] < nextIndex'[b]
                 /\ registry'[b][g] # NoIndex => /\ tree'[b][registry'[b][g]] = g
                                                 /\ given'[g][b] = registry'[b][g]
      <3>1. CASE b = a /\ g = h
        <4>1. given'[g][b] = next /\ registry'[b][g] = next /\ tree'[b][next] = g
              /\ nextIndex'[b] = next + 1
          BY <1>1, <1>2, <2>1, <3>1 DEF AllInstances
        <4> QED BY <2>2, <4>1
      <3>2. CASE ~(b = a /\ g = h)
        <4>1. registry'[b][g] = registry[b][g] /\ given'[g][b] = given[g][b]
          BY <1>1, <1>2, <2>1, <3>2 DEF AllInstances
        <4>2. b # a => nextIndex'[b] = nextIndex[b]
          BY <1>1, <2>1
        <4>3. b = a => nextIndex'[b] = next + 1
          BY <1>1, <2>1
        <4>4. registry[b][g] # NoIndex => tree'[b][registry[b][g]] = tree[b][registry[b][g]]
          BY <1>1, <2>1, <2>2
        <4> QED BY <1>3, <2>2, <4>1, <4>2, <4>3, <4>4
      <3> QED BY <3>1, <3>2
    <2> QED BY <2>3 DEF HoldersAreServed, Crypto!LeafHash
  <1>5. ASSUME NEW h \in Holders, NEW a \in Instances, Revoke(h, a)
        PROVE  HoldersAreServed'
    <2>1. /\ registry[a][h] \in Slots
          /\ registry' = [registry EXCEPT ![a] = [registry[a] EXCEPT ![h] = NoIndex]]
          /\ tree' = [tree EXCEPT ![a] = [tree[a] EXCEPT ![registry[a][h]] = EmptyLeaf]]
          /\ nextIndex' = nextIndex /\ given' = given
      BY <1>5, RevokeFacts DEF AuthorityPart, walletVars
    <2>2. registry[a][h] # NoIndex
      BY <2>1, IndexAssumption, CapacityAssumption, SMT DEF Slots
    <2>3. ASSUME NEW b \in Instances, NEW g \in Holders, registry'[b][g] # NoIndex
          PROVE  /\ registry'[b][g] = registry[b][g]
                 /\ tree'[b][registry[b][g]] = tree[b][registry[b][g]]
      <3>1. ~(b = a /\ g = h) /\ registry'[b][g] = registry[b][g]
        BY <1>1, <2>1, <2>3
      <3>2. tree[b][registry[b][g]] = g /\ tree[a][registry[a][h]] = h
        BY <1>3, <2>2, <2>3, <3>1
      <3> QED BY <1>1, <2>1, <3>1, <3>2
    <2> QED BY <1>3, <2>1, <2>3 DEF HoldersAreServed, Crypto!LeafHash
  <1>6. ASSUME UNCHANGED <<registry, tree, nextIndex, given>>
        PROVE  HoldersAreServed'
    BY <1>6 DEF WalletPart, HoldersAreServed
  <1>7. ASSUME NEW h \in Holders, NEW b, NEW leaves, NEW d, NEW e, NEW n, NEW allow,
               Asked(h, b, leaves, d, e, n, allow)
        PROVE  HoldersAreServed'
    BY <1>6, <1>7, MakeTokenFacts
  <1>8. ASSUME NEW h \in Holders, SaveOrLoad(h)
        PROVE  HoldersAreServed'
    BY <1>6, <1>8 DEF SaveOrLoad, Wallet!Save, Wallet!Load, gaVars
  <1>9. CASE UNCHANGED <<registry, tree, nextIndex, walletVars>>
    BY <1>6, <1>9 DEF walletVars
  <1> QED BY <1>4, <1>5, <1>7, <1>8, <1>9, WalletActions

LEMMA WalletNext ==
    ASSUME AuthorityPart, WalletPart, [Next]_vars
    PROVE  WalletPart'
  BY WalletsNext, HoldersNext DEF WalletPart

-----------------------------------------------------------------------------
(* The clock of the sites moves in a step of its own. *)
LEMMA SiteClock ==
    ASSUME now \in Nat, [Next]_vars
    PROVE  now' \in Nat /\ now <= now'
  <1>1. CASE SiteTick
    BY <1>1 DEF SiteTick, Site!Tick
  <1>2. CASE UNCHANGED now
    BY <1>2
  <1>3. ASSUME NEW h \in Holders, NEW a \in Instances, EnrollWith(h, a) \/ Revoke(h, a)
        PROVE  UNCHANGED now
    BY <1>3 DEF EnrollWith, Revoke, siteVars
  <1>4. ASSUME NEW a \in Instances, Publish(a)
        PROVE  UNCHANGED now
    BY <1>4 DEF Publish, siteVars
  <1>5. ASSUME NEW h, NEW b, NEW l, NEW d, NEW e, NEW n, NEW allow,
               MakeToken(h, b, l, d, e, n, allow) \/ SaveOrLoad(h)
        PROVE  UNCHANGED now
    BY <1>5 DEF MakeToken, SaveOrLoad, siteVars
  <1>6. ASSUME NEW s, NEW b, Create(s, b) \/ UpdateRoot(s, b)
        PROVE  UNCHANGED now
    BY <1>6 DEF Create, UpdateRoot, Site!Create, Site!UpdateRoot
  <1>7. ASSUME NEW s, Challenge(s) \/ VerifyGoesOn(s)
        PROVE  UNCHANGED now
    BY <1>7 DEF Challenge, VerifyGoesOn, Site!Challenge, Site!VerifyEpoch, Site!VerifyAccept,
       Site!VerifyReject
  <1>8. ASSUME NEW s, NEW n, VerifyToken(s, n)
        PROVE  UNCHANGED now
    BY <1>8 DEF VerifyToken, Site!VerifyExpired, Site!VerifyInTime
  <1>9. CASE AuthorityTick \/ UNCHANGED vars
    BY <1>9 DEF AuthorityTick, vars, siteVars
  <1> QED BY <1>1, <1>2, <1>3, <1>4, <1>5, <1>6, <1>7, <1>8, <1>9 DEF Next

(* The histories only grow, so what rests on them goes on. *)
LEMMA HistoriesGrow ==
    ASSUME AuthorityPart, WalletPart, now \in Nat, [Next]_vars
    PROVE  /\ \A p : Genuine(p, calls, now) => Genuine(p, calls', now')
           /\ PublishedBundles \subseteq PublishedBundles'
           /\ CirculatingBundles \subseteq CirculatingBundles'
  <1>1. \A k \in DOMAIN calls : k \in DOMAIN calls' /\ calls'[k] = calls[k]
    <2>1. ASSUME NEW h \in Holders, NEW b, NEW leaves, NEW d, NEW e, NEW n,
                 NEW allow, Asked(h, b, leaves, d, e, n, allow)
          PROVE  \A k \in DOMAIN calls : k \in DOMAIN calls' /\ calls'[k] = calls[k]
      <3> DEFINE record == Wallet!CallRecord(h, d, b.threshold, allow)
      <3>1. calls' = Append(calls, record)
        BY <2>1, MakeTokenFacts
      <3> HIDE DEF record
      <3> QED BY <3>1, Appended DEF WalletPart
    <2>2. ASSUME NEW h \in Holders, NEW a \in Instances, EnrollWith(h, a) \/ Revoke(h, a)
          PROVE  calls' = calls
      BY <2>2, EnrollFacts, RevokeFacts DEF AuthorityPart, walletVars
    <2>3. ASSUME NEW h \in Holders, SaveOrLoad(h)
          PROVE  calls' = calls
      BY <2>3 DEF SaveOrLoad, Wallet!Save, Wallet!Load
    <2>4. CASE UNCHANGED walletVars
      BY <2>4 DEF walletVars
    <2> QED BY <2>1, <2>2, <2>3, <2>4, WalletActions
  <1>2. ASSUME NEW p, Genuine(p, calls, now)
        PROVE  Genuine(p, calls', now')
    <2>1. PICK k \in DOMAIN calls, t \in 0 .. now : Requested(p, calls[k], t)
      BY <1>2 DEF Genuine
    <2>2. t \in 0 .. now'
      BY SiteClock, SMT
    <2> QED BY <1>1, <2>1, <2>2 DEF Genuine
  <1>3. \A k \in DOMAIN published : k \in DOMAIN published' /\ published'[k] = published[k]
    <2>1. ASSUME NEW a \in Instances, Publish(a)
          PROVE  \A k \in DOMAIN published :
                    k \in DOMAIN published' /\ published'[k] = published[k]
      <3> DEFINE b == [root |-> tree[a], tree_size |-> nextIndex[a],
                       issued_at |-> gaNow, threshold |-> a]
      <3>1. published' = Append(published, b) /\ IsSeq(published)
        BY <2>1, PublishFacts, AuthorityTypes DEF AuthorityPart
      <3> HIDE DEF b
      <3> QED BY <3>1, Appended
    <2>2. ASSUME NEW h \in Holders, NEW a \in Instances, EnrollWith(h, a) \/ Revoke(h, a)
          PROVE  published' = published
      BY <2>2, EnrollFacts, RevokeFacts DEF AuthorityPart
    <2> QED BY <2>1, <2>2, OtherActions
  <1>4. PublishedBundles \subseteq PublishedBundles'
    BY <1>3 DEF PublishedBundles
  <1> QED BY <1>2, <1>4 DEF CirculatingBundles

(* The tree whose path a wallet uses is a tree. *)
LEMMA AskedTypes ==
    ASSUME AuthorityPart, NEW h \in Holders, NEW b, NEW leaves, NEW d, NEW e, NEW n, NEW allow,
           Asked(h, b, leaves, d, e, n, allow)
    PROVE  leaves \in [Slots -> Holders \cup {EmptyLeaf}]
  <1>1. /\ b.root \in [Slots -> Holders \cup {EmptyLeaf}]
        /\ tree[b.threshold] \in [Slots -> Holders \cup {EmptyLeaf}]
    BY BundleTypes, AuthorityTypes DEF AuthorityPart, Asked
  <1> QED BY <1>1 DEF Asked, TreesFor

(* What make_token returns is bound to what was asked. *)
LEMMA NewToken ==
    ASSUME AuthorityPart, WalletPart, now \in Nat,
           NEW h \in Holders, NEW b, NEW leaves, NEW d, NEW e, NEW n, NEW allow,
           Asked(h, b, leaves, d, e, n, allow),
           Wallet!Outcome(wallet[h], d, b.threshold, allow) = "token"
    PROVE  /\ IsToken(TokenMade(h, b, leaves, d, e, n))
           /\ Genuine(TokenMade(h, b, leaves, d, e, n).proof, calls', now)
  <1> DEFINE a == b.threshold
             idx == Wallet!LeafIndexFor(wallet[h], a)
             record == Wallet!CallRecord(h, d, a, allow)
             token == TokenMade(h, b, leaves, d, e, n)
             ctx == Crypto!ContextDigest(Crypto!CtxDomain(d, a), e)
             k == Len(calls) + 1
  <1>1. /\ a \in Instances /\ d \in Domains /\ e = now \div EpochSeconds
        /\ calls' = Append(calls, record)
    BY MakeTokenFacts DEF Asked, Site!current_epoch
  <1>2. idx # NoIndex /\ <<d, a>> \notin Malformed
    BY DEF Wallet!Outcome
  <1>3. Crypto!Encodable(d, a)
    BY <1>1, <1>2 DEF Malformed
  <1>4. idx \in Slots
    <2>1. wallet[h] \in WalletMemories /\ a \in AllInstances
      BY <1>1 DEF WalletPart, WalletsOK, WalletOK, AllInstances
    <2>2. idx \in Indices
      BY <2>1 DEF Wallet!LeafIndexFor, WalletMemories
    <2> QED BY <1>2, <2>2 DEF Indices
  <1>5. record.wallet = h /\ record.domain = d /\ record.threshold = a /\ record.outcome = "token"
    BY DEF Wallet!CallRecord
  <1>6. /\ token.proof.ctx = ctx
        /\ token.proof.key = Crypto!TempKey(h, ctx)
        /\ token.proof.root = [leaves EXCEPT ![idx] = h]
    BY DEF TokenMade, Crypto!Prove, Crypto!FoldedRoot, Crypto!LeafHash
  <1>7. IsToken(token)
    BY DEF TokenMade, IsToken
  <1>8. token.proof.root[idx] = h
    <2>1. leaves \in [Slots -> Holders \cup {EmptyLeaf}]
      BY AskedTypes
    <2> QED BY <1>4, <1>6, <2>1
  <1> HIDE DEF record, token, a, idx
  <1>9. k \in DOMAIN calls' /\ calls'[k] = record
    BY <1>1, Appended DEF WalletPart
  <1> HIDE DEF ctx, k
  <1>10. Requested(token.proof, record, now)
    BY <1>1, <1>3, <1>4, <1>5, <1>6, <1>8 DEF Requested, ctx, Crypto!LeafHash
  <1>11. now \in 0 .. now
    BY SMT
  <1>12. Genuine(token.proof, calls', now)
    BY <1>9, <1>10, <1>11 DEF Genuine
  <1> QED BY <1>7, <1>12 DEF token

(* Every token that was ever made is of somebody who asked for it. *)
LEMMA TokensNext ==
    ASSUME AuthorityPart, WalletPart, now \in Nat, TokensAreGenuine, [Next]_vars
    PROVE  TokensAreGenuine'
  <1>1. ASSUME NEW t \in tokens
        PROVE  IsToken(t) /\ Genuine(t.proof, calls', now')
    BY HistoriesGrow DEF TokensAreGenuine
  <1>2. ASSUME NEW h \in Holders, NEW b, NEW leaves, NEW d, NEW e, NEW n, NEW allow,
               Asked(h, b, leaves, d, e, n, allow), NEW t \in tokens'
        PROVE  IsToken(t) /\ Genuine(t.proof, calls', now')
    <2> DEFINE made == TokenMade(h, b, leaves, d, e, n)
    <2>1. CASE Wallet!Outcome(wallet[h], d, b.threshold, allow) = "token"
      <3>1. tokens' = tokens \cup {made} /\ now' = now
        BY <1>2, <2>1, MakeTokenFacts DEF siteVars
      <3>2. IsToken(made) /\ Genuine(made.proof, calls', now)
        BY <1>2, <2>1, NewToken
      <3> HIDE DEF made
      <3> QED BY <1>1, <1>2, <3>1, <3>2
    <2>2. CASE Wallet!Outcome(wallet[h], d, b.threshold, allow) # "token"
      BY <1>1, <1>2, <2>2, MakeTokenFacts
    <2> QED BY <2>1, <2>2
  <1>3. ASSUME NEW h \in Holders, NEW a \in Instances, EnrollWith(h, a) \/ Revoke(h, a)
        PROVE  tokens' = tokens
    BY <1>3, EnrollFacts, RevokeFacts DEF AuthorityPart
  <1>4. ASSUME NEW h \in Holders, SaveOrLoad(h)
        PROVE  tokens' = tokens
    BY <1>4 DEF SaveOrLoad
  <1> QED BY <1>1, <1>2, <1>3, <1>4, WalletActions DEF TokensAreGenuine

-----------------------------------------------------------------------------
(* Which actions concern the bundles, the calls and the acceptances of the sites. *)
LEMMA SiteActions ==
    ASSUME [Next]_vars
    PROVE  \/ \E s \in Sites, b \in CirculatingBundles : Site!Create(s, b) \/ Site!UpdateRoot(s, b)
           \/ \E s \in Sites, token \in Deliverable : \E n : Site!VerifyInTime(s, token, n)
           \/ \E s \in Sites : Site!VerifyEpoch(s) \/ Site!VerifyAccept(s) \/ Site!VerifyReject(s)
           \/ UNCHANGED <<bundle, call, accepted>>
  <1> USE DEF siteVars
  <1>1. ASSUME NEW s \in Sites, NEW b \in CirculatingBundles, Create(s, b) \/ UpdateRoot(s, b)
        PROVE  Site!Create(s, b) \/ Site!UpdateRoot(s, b)
    BY <1>1 DEF Create, UpdateRoot
  <1>2. ASSUME NEW s \in Sites, NEW n, VerifyToken(s, n)
        PROVE  \/ \E token \in Deliverable : Site!VerifyInTime(s, token, n)
               \/ UNCHANGED <<bundle, call, accepted>>
    BY <1>2 DEF VerifyToken, Site!VerifyExpired
  <1>3. ASSUME NEW s \in Sites, VerifyGoesOn(s)
        PROVE  Site!VerifyEpoch(s) \/ Site!VerifyAccept(s) \/ Site!VerifyReject(s)
    BY <1>3 DEF VerifyGoesOn
  <1>4. ASSUME NEW s \in Sites, Challenge(s)
        PROVE  UNCHANGED <<bundle, call, accepted>>
    BY <1>4 DEF Challenge, Site!Challenge
  <1>5. ASSUME NEW h \in Holders, NEW a \in Instances, EnrollWith(h, a) \/ Revoke(h, a)
        PROVE  UNCHANGED <<bundle, call, accepted>>
    BY <1>5 DEF EnrollWith, Revoke
  <1>6. ASSUME NEW a \in Instances, Publish(a)
        PROVE  UNCHANGED <<bundle, call, accepted>>
    BY <1>6 DEF Publish
  <1>7. ASSUME NEW h, NEW b, NEW l, NEW d, NEW e, NEW n, NEW allow,
               MakeToken(h, b, l, d, e, n, allow) \/ SaveOrLoad(h)
        PROVE  UNCHANGED <<bundle, call, accepted>>
    BY <1>7 DEF MakeToken, SaveOrLoad
  <1>8. CASE SiteTick
    BY <1>8 DEF SiteTick, Site!Tick
  <1>9. CASE AuthorityTick \/ UNCHANGED vars
    BY <1>9 DEF AuthorityTick, vars
  <1> QED BY <1>1, <1>2, <1>3, <1>4, <1>5, <1>6, <1>7, <1>8, <1>9 DEF Next

(* A token that arrives carries the proof of one that was made. *)
LEMMA DeliveredIsGenuine ==
    ASSUME TokensAreGenuine, NEW token \in Deliverable
    PROVE  Genuine(token.proof, calls, now)
  <1>1. PICK t \in tokens, d \in Domains, a \in Instances, e \in Epochs :
           token = Relabelled(t, d, a, e)
    BY DEF Deliverable
  <1>2. t = [temp_key |-> t.temp_key, epoch |-> t.epoch, domain |-> t.domain,
             threshold |-> t.threshold, proof |-> t.proof]
    BY DEF TokensAreGenuine, IsToken
  <1>3. token.proof = t.proof
    BY <1>1, <1>2 DEF Relabelled
  <1> QED BY <1>3 DEF TokensAreGenuine

(* An acceptance rests on a bundle that circulates and on a token that was asked for, in every
   interleaving of deliveries, exchanges of bundles and requests to wallets. *)
LEMMA SiteNext ==
    ASSUME Inv, [Next]_vars
    PROVE  SitePart' /\ CallsAreGenuine' /\ AcceptedAreGenuine'
  <1> USE DEF SitePart
  <1>1. /\ AuthorityPart /\ WalletPart /\ TokensAreGenuine
        /\ SitePart /\ CallsAreGenuine /\ AcceptedAreGenuine
    BY DEF Inv
  <1>2. /\ now' \in Nat
        /\ \A p : Genuine(p, calls, now) => Genuine(p, calls', now')
        /\ CirculatingBundles \subseteq CirculatingBundles'
    BY <1>1, SiteClock, HistoriesGrow
  <1>3. ASSUME NEW b, NEW s, ForSite(b, s, CirculatingBundles)
        PROVE  ForSite(b, s, CirculatingBundles')
    BY <1>2, <1>3 DEF ForSite
  <1>4. ASSUME NEW e, AcceptedIsGenuine(e, CirculatingBundles, calls, now)
        PROVE  AcceptedIsGenuine(e, CirculatingBundles', calls', now')
    BY <1>2, <1>3, <1>4 DEF AcceptedIsGenuine
  <1>5. ASSUME bundle' = bundle
        PROVE  SitesUseCirculating'
    BY <1>1, <1>3, <1>5 DEF SitesUseCirculating
  <1>6. ASSUME accepted' = accepted
        PROVE  AcceptedAreGenuine' /\ IsSeq(accepted')
    BY <1>1, <1>4, <1>6 DEF AcceptedAreGenuine
  <1>7. ASSUME NEW s \in Sites, NEW b \in CirculatingBundles,
               Site!Create(s, b) \/ Site!UpdateRoot(s, b)
        PROVE  SitePart' /\ CallsAreGenuine' /\ AcceptedAreGenuine'
    <2>1. /\ bundle' = [bundle EXCEPT ![s] = b] /\ call' = call /\ accepted' = accepted
          /\ b.threshold = Required[s]
          /\ bundle[s] = NoBundle => Crypto!CheckDomain(Domain[s])
          /\ bundle[s] = NoBundle \/ call[s] = Idle
      BY <1>7 DEF Site!Create, Site!UpdateRoot, Site!CheckBundle, Site!CheckDomain,
         Crypto!CheckDomain
    <2>2. /\ bundle' = [r \in Sites |-> bundle'[r]] /\ bundle'[s] = b
          /\ \A r \in Sites \ {s} : bundle'[r] = bundle[r]
      BY <1>1, <2>1
    <2>3. ForSite(b, s, CirculatingBundles)
      BY <1>1, <2>1 DEF ForSite, SitesUseCirculating
    <2>4. SitesUseCirculating'
      BY <1>1, <1>3, <2>2, <2>3 DEF SitesUseCirculating
    <2>5. \A r \in Sites : call[r] # Idle => bundle'[r] # NoBundle
      BY <1>1, <2>1, <2>2 DEF CallsAreGenuine
    <2>6. CallsAreGenuine'
      BY <1>1, <1>2, <2>1, <2>5 DEF CallsAreGenuine
    <2> QED BY <1>1, <1>2, <1>6, <2>1, <2>2, <2>4, <2>6
  <1>8. ASSUME NEW s \in Sites, NEW c, bundle' = bundle, call' = [call EXCEPT ![s] = c],
               c # Idle => /\ bundle[s] # NoBundle /\ IsCall(c)
                           /\ Genuine(c.token.proof, calls, now)
        PROVE  /\ bundle' = [r \in Sites |-> bundle'[r]]
               /\ call' = [r \in Sites |-> call'[r]]
               /\ SitesUseCirculating' /\ CallsAreGenuine'
    <2>1. /\ call' = [r \in Sites |-> call'[r]] /\ call'[s] = c
          /\ \A r \in Sites \ {s} : call'[r] = call[r]
      BY <1>1, <1>8
    <2>2. CallsAreGenuine'
      BY <1>1, <1>2, <1>8, <2>1 DEF CallsAreGenuine, IsCall
    <2> QED BY <1>1, <1>5, <1>8, <2>1, <2>2
  <1>9. ASSUME NEW s \in Sites, NEW token \in Deliverable, NEW n,
               Site!VerifyInTime(s, token, n)
        PROVE  SitePart' /\ CallsAreGenuine' /\ AcceptedAreGenuine'
    <2> DEFINE c == [reads |-> "epoch", token |-> token, nonce |-> n, asked |-> now]
    <2>1. /\ bundle' = bundle /\ accepted' = accepted /\ bundle[s] # NoBundle
          /\ call' = [call EXCEPT ![s] = c]
      BY <1>9 DEF Site!VerifyInTime
    <2>2. IsCall(c) /\ Genuine(c.token.proof, calls, now)
      BY <1>1, DeliveredIsGenuine DEF IsCall
    <2> HIDE DEF c
    <2> QED BY <1>2, <1>6, <1>8, <2>1, <2>2
  <1>10. ASSUME NEW s \in Sites, Site!VerifyEpoch(s)
         PROVE  SitePart' /\ CallsAreGenuine' /\ AcceptedAreGenuine'
    <2> DEFINE d == [call[s] EXCEPT !.reads = "first_seen"]
               c == IF Site!EpochMatches(call[s].token) THEN d ELSE Idle
    <2>1. /\ bundle' = bundle /\ accepted' = accepted /\ call[s] # Idle
          /\ call' = [call EXCEPT ![s] = c]
      BY <1>1, <1>10 DEF Site!VerifyEpoch
    <2>2. bundle[s] # NoBundle /\ IsCall(call[s]) /\ Genuine(call[s].token.proof, calls, now)
      BY <1>1, <2>1 DEF CallsAreGenuine
    <2>3. d = [reads |-> "first_seen", token |-> call[s].token, nonce |-> call[s].nonce,
               asked |-> call[s].asked]
      BY <2>2 DEF IsCall
    <2> HIDE DEF d
    <2>4. IsCall(d) /\ d.token = call[s].token
      BY <2>3 DEF IsCall
    <2>5. c # Idle => /\ bundle[s] # NoBundle /\ IsCall(c)
                      /\ Genuine(c.token.proof, calls, now)
      BY <2>2, <2>4
    <2> HIDE DEF c
    <2> QED BY <1>2, <1>6, <1>8, <2>1, <2>5
  <1>11. ASSUME NEW s \in Sites, Site!VerifyAccept(s)
         PROVE  SitePart' /\ CallsAreGenuine' /\ AcceptedAreGenuine'
    <2> DEFINE token == call[s].token
               e == [site |-> s, nonce |-> call[s].nonce, token |-> token,
                     asked |-> call[s].asked, at |-> now, bundle |-> bundle[s]]
               n == Len(accepted) + 1
    <2>1. /\ bundle' = bundle /\ call[s] # Idle /\ call' = [call EXCEPT ![s] = Idle]
          /\ accepted' = Append(accepted, e)
          /\ Site!ProofVerifies(s, token, call[s].nonce)
      BY <1>11 DEF Site!VerifyAccept
    <2>2. bundle[s] # NoBundle /\ Genuine(token.proof, calls, now)
      BY <1>1, <2>1 DEF CallsAreGenuine
    <2>3. ForSite(bundle[s], s, CirculatingBundles)
      BY <1>1, <2>2 DEF SitesUseCirculating
    <2>4. /\ token.proof.ctx =
                Site!ContextDigest(Site!CtxDomain(Domain[s], Required[s]), token.epoch)
          /\ token.proof.root = bundle[s].root
      BY <2>1 DEF Site!ProofVerifies, Site!Verify
    <2>5. token.proof.ctx =
             Crypto!ContextDigest(Crypto!CtxDomain(Domain[s], Required[s]), token.epoch)
      BY <2>4 DEF Site!ContextDigest, Crypto!ContextDigest, Site!CtxDomain, Crypto!CtxDomain,
         Site!Decimal, Crypto!Decimal, Site!Width, Crypto!Width, Site!Weight, Crypto!Weight
    <2>6. e.site = s /\ e.token = token /\ e.bundle = bundle[s]
      OBVIOUS
    <2> HIDE DEF e, token
    <2>7. AcceptedIsGenuine(e, CirculatingBundles, calls, now)
      BY <2>2, <2>3, <2>4, <2>5, <2>6 DEF AcceptedIsGenuine
    <2>8. /\ IsSeq(accepted')
          /\ DOMAIN accepted' = DOMAIN accepted \cup {n} /\ accepted'[n] = e
          /\ \A i \in DOMAIN accepted : accepted'[i] = accepted[i]
      BY <1>1, <2>1, Appended
    <2> HIDE DEF n
    <2>9. AcceptedAreGenuine'
      BY <1>1, <1>4, <2>7, <2>8 DEF AcceptedAreGenuine
    <2> QED BY <1>2, <1>8, <2>1, <2>8, <2>9
  <1>12. ASSUME NEW s \in Sites, Site!VerifyReject(s)
         PROVE  SitePart' /\ CallsAreGenuine' /\ AcceptedAreGenuine'
    <2>1. bundle' = bundle /\ accepted' = accepted /\ call' = [call EXCEPT ![s] = Idle]
      BY <1>12 DEF Site!VerifyReject
    <2> QED BY <1>2, <1>6, <1>8, <2>1
  <1>13. CASE UNCHANGED <<bundle, call, accepted>>
    <2>1. CallsAreGenuine'
      BY <1>1, <1>2, <1>13 DEF CallsAreGenuine
    <2> QED BY <1>1, <1>2, <1>5, <1>6, <1>13, <2>1
  <1> QED BY <1>7, <1>9, <1>10, <1>11, <1>12, <1>13, SiteActions

-----------------------------------------------------------------------------
LEMMA InitInv == Init => Inv
  <1> SUFFICES ASSUME Init PROVE Inv
    OBVIOUS
  <1>1. /\ registry = [a \in Instances |-> [h \in Holders |-> NoIndex]]
        /\ tree = [a \in Instances |-> [i \in Slots |-> EmptyLeaf]]
        /\ published = <<>> /\ calls = <<>> /\ accepted = <<>> /\ tokens = {} /\ now = 0
        /\ wallet = [h \in Holders |-> Wallet!NewWallet]
        /\ file = [h \in Holders |-> NoFile]
        /\ given = [h \in Holders |-> [a \in AllInstances |-> NoIndex]]
        /\ unsaved = [h \in Holders |-> {}] /\ lost = [h \in Holders |-> {}]
        /\ bundle = [s \in Sites |-> NoBundle] /\ call = [s \in Sites |-> Idle]
    BY DEF Init, Authority!Init, Authority!EmptyTree, Authority!Slots, Slots, Wallet!Init, Site!Init,
       AllInstances
  <1>2. IsSeq(<<>>) /\ DOMAIN <<>> = {}
    BY SMT DEF IsSeq
  <1>3. Issuer!Inv
    BY AuthorityAssumptions, AuthorityInit, Issuer!InitInv
  <1>4. TreesQualify /\ BundlesQualify
    BY <1>1, <1>2 DEF TreesQualify, BundlesQualify, LeavesQualify
  <1>5. Wallet!NewWallet \in WalletMemories
    BY DEF Wallet!NewWallet, WalletMemories, Indices, AllInstances
  <1>6. WalletPart
    <2>1. KnowsIndices(Wallet!NewWallet, [a \in AllInstances |-> NoIndex], {})
      BY DEF KnowsIndices, Wallet!NewWallet, Wallet!LeafIndexFor, AllInstances
    <2>2. [a \in AllInstances |-> NoIndex] \in [AllInstances -> Indices]
      BY DEF Indices
    <2>3. WalletsOK
      BY <1>1, <1>5, <2>1, <2>2 DEF WalletsOK, WalletOK
    <2>4. HoldersAreServed
      BY <1>1 DEF HoldersAreServed, AllInstances
    <2> QED BY <1>1, <1>2, <2>3, <2>4 DEF WalletPart
  <1>7. SitePart /\ TokensAreGenuine /\ CallsAreGenuine /\ AcceptedAreGenuine
    BY <1>1, <1>2 DEF SitePart, SitesUseCirculating, TokensAreGenuine, CallsAreGenuine,
       AcceptedAreGenuine
  <1> QED BY <1>3, <1>4, <1>6, <1>7 DEF Inv, AuthorityPart

LEMMA NextInv == Inv /\ [Next]_vars => Inv'
  <1> SUFFICES ASSUME Inv, [Next]_vars PROVE Inv'
    OBVIOUS
  <1>1. AuthorityPart'
    BY AuthorityNext DEF Inv
  <1>2. WalletPart'
    BY WalletNext DEF Inv
  <1>3. TokensAreGenuine'
    BY TokensNext DEF Inv, SitePart
  <1> QED BY <1>1, <1>2, <1>3, SiteNext DEF Inv

LEMMA Invariance == Spec => []Inv
  BY InitInv, NextInv, PTL DEF Spec

(* Whoever a site accepts is in the root it verified against, whoever signed it; if it was
   this authority, they qualify for the threshold of the site. *)
THEOREM OnlyQualifiedHolders == Spec => []AcceptedHoldersQualify
  <1>1. Inv => AcceptedHoldersQualify
    <2> SUFFICES ASSUME Inv, NEW i \in DOMAIN accepted
                 PROVE  LET e == accepted[i]
                            h == Holder(e.token) IN
                        /\ \E slot \in DOMAIN e.bundle.root :
                               e.bundle.root[slot] = Crypto!LeafHash(h)
                        /\ e.bundle \in PublishedBundles => Qualifies(h, Required[e.site])
      BY DEF AcceptedHoldersQualify
    <2> DEFINE e == accepted[i]
    <2>1. AcceptedIsGenuine(e, CirculatingBundles, calls, now)
      BY DEF Inv, AcceptedAreGenuine
    <2> HIDE DEF e
    <2>2. PICK k \in DOMAIN calls, t \in 0 .. now : Requested(e.token.proof, calls[k], t)
      BY <2>1 DEF AcceptedIsGenuine, Genuine
    <2> DEFINE h == calls[k].wallet
    <2>3. h \in Holders /\ Holder(e.token) = h
      BY <2>2 DEF Requested, Holder, Crypto!TempKey
    <2>4. PICK slot \in Slots : e.bundle.root[slot] = h
      BY <2>1, <2>2 DEF Requested, AcceptedIsGenuine, Crypto!LeafHash
    <2>5. DOMAIN e.bundle.root = Slots
      BY <2>1, BundleTypes DEF Inv, AuthorityPart, AcceptedIsGenuine, ForSite
    <2>6. ASSUME e.bundle \in PublishedBundles
          PROVE  Qualifies(h, Required[e.site])
      <3>1. PICK j \in DOMAIN published : published[j] = e.bundle
        BY <2>6 DEF PublishedBundles
      <3>2. h # EmptyLeaf
        BY <2>3, HolderAssumption
      <3>3. Qualifies(h, e.bundle.threshold)
        BY <2>4, <3>1, <3>2 DEF Inv, AuthorityPart, BundlesQualify, LeavesQualify
      <3>4. e.bundle.threshold = Required[e.site]
        BY <2>1 DEF AcceptedIsGenuine, ForSite
      <3> QED BY <3>3, <3>4
    <2> QED BY <2>3, <2>4, <2>5, <2>6 DEF e, Crypto!LeafHash
  <1> QED BY <1>1, Invariance, PTL

(* Whoever a site accepts had asked their wallet for a token for its domain and its
   threshold: contexts of two deployments differ, so no other token would do. *)
THEOREM OnlyRequestedTokens == Spec => []AcceptedWasRequested
  <1>1. Inv => AcceptedWasRequested
    <2> SUFFICES ASSUME Inv, NEW i \in DOMAIN accepted
                 PROVE  \E k \in DOMAIN calls :
                           /\ calls[k].wallet = Holder(accepted[i].token)
                           /\ calls[k].domain = Domain[accepted[i].site]
                           /\ calls[k].threshold = Required[accepted[i].site]
                           /\ calls[k].outcome = "token"
      BY DEF AcceptedWasRequested
    <2> DEFINE e == accepted[i]
    <2>1. AcceptedIsGenuine(e, CirculatingBundles, calls, now)
      BY DEF Inv, AcceptedAreGenuine
    <2>2. PICK k \in DOMAIN calls, t \in 0 .. now : Requested(e.token.proof, calls[k], t)
      BY <2>1 DEF AcceptedIsGenuine, Genuine
    <2> DEFINE d == Domain[e.site]
               a == Required[e.site]
               f == calls[k].domain
               b == calls[k].threshold
    <2>3. e.bundle.threshold \in Instances
      BY <2>1, BundleTypes DEF Inv, AuthorityPart, AcceptedIsGenuine, ForSite
    <2>4. a \in AllInstances /\ b \in AllInstances
      BY <2>1, <2>2, <2>3
      DEF AcceptedIsGenuine, ForSite, Requested, AllInstances
    <2>5. /\ d \in Seq(Chars) /\ f \in Seq(Chars)
          /\ Crypto!CheckDomain(d) /\ Crypto!CheckDomain(f)
      <3>1. d \in Domains /\ f \in Domains
        BY <2>1, <2>2 DEF AcceptedIsGenuine, Requested, Domains
      <3> QED BY <2>1, <2>2, <3>1, DomainAssumption
              DEF AcceptedIsGenuine, ForSite, Requested, Crypto!Encodable
    <2>6. Crypto!ContextDigest(Crypto!CtxDomain(f, b), t \div EpochSeconds)
             = Crypto!ContextDigest(Crypto!CtxDomain(d, a), e.token.epoch)
      BY <2>1, <2>2 DEF AcceptedIsGenuine, Requested
    <2>7. f = d /\ b = a
      BY <2>4, <2>5, <2>6, ContextsDiffer
    <2>8. calls[k].outcome = "token" /\ calls[k].wallet = Holder(e.token)
      BY <2>2 DEF Requested, Holder, Crypto!TempKey
    <2> QED BY <2>7, <2>8
  <1> QED BY <1>1, Invariance, PTL

(* The field of a domain that passes _check_domain encodes. *)
LEMMA DomainsEncode ==
    ASSUME NEW d \in Seq(Chars), Crypto!CheckDomain(d), NEW a \in Instances
    PROVE  Crypto!Encodable(d, a)
  <1>1. a \in Crypto!Thresholds \cup {NoThreshold}
    BY ThresholdAssumption
  <1>2. Crypto!Weight = Verifiers!Weight
    BY DEF Crypto!Weight, Verifiers!Weight
  <1>3. \A k \in Nat : Crypto!Width(k) = Verifiers!Width(k)
    BY DEF Crypto!Width, Verifiers!Width
  <1>4. \A k \in Nat : Crypto!Decimal(k) = Verifiers!Decimal(k)
    BY <1>2, <1>3 DEF Crypto!Decimal, Verifiers!Decimal
  <1>5. Crypto!Thresholds = Verifiers!Thresholds /\ \A k \in Verifiers!Thresholds : k \in Nat
    BY SMT DEF Crypto!Thresholds, Verifiers!Thresholds
  <1>6. Crypto!CtxDomain(d, a) = Verifiers!CtxDomain(d, a)
    BY <1>1, <1>4, <1>5 DEF Crypto!CtxDomain, Verifiers!CtxDomain
  <1>7. Verifiers!CheckDomain(d)
    BY DEF Crypto!CheckDomain, Verifiers!CheckDomain
  <1>8. Verifiers!Encodable(d, a)
    BY SiteAssumptions, <1>1, <1>5, <1>7, Verifiers!NamesEncode
  <1> QED BY <1>5, <1>6, <1>8 DEF Crypto!Encodable, Verifiers!Encodable, Crypto!CheckDomain,
          Verifiers!CheckDomain, Crypto!CheckCtxField, Verifiers!CheckCtxField

(* The proof of a wallet that knows its slot, made for the site's own challenge, verifies
   exactly when the site's root is the one its path folds to. *)
LEMMA AnswerVerifies ==
    ASSUME NEW s \in Sites, NEW h \in Holders, NEW leaves, NEW n, NEW b,
           b = bundle[s], b.threshold = Required[s],
           Crypto!FoldedRoot(leaves, Wallet!LeafIndexFor(wallet[h], Required[s]),
                             Crypto!LeafHash(h)) = leaves
    PROVE  Site!ProofVerifies(s, TokenMade(h, b, leaves, Domain[s], Site!current_epoch, n), n)
              <=> b.root = leaves
  <1> DEFINE token == TokenMade(h, b, leaves, Domain[s], Site!current_epoch, n)
             cd == Crypto!CtxDomain(Domain[s], Required[s])
             ctx == Crypto!ContextDigest(cd, Site!current_epoch)
             key == Crypto!TempKey(h, ctx)
             bytes == Crypto!ContextBytes(cd, Site!current_epoch, b.root, key, n)
  <1>1. /\ token.epoch = Site!current_epoch /\ token.temp_key = key
        /\ token.proof = [ctx |-> ctx, bytes |-> bytes, bound |-> TRUE, key |-> key,
                          root |-> leaves]
    BY DEF TokenMade, Crypto!Prove
  <1>2. Site!CtxDomain(Domain[s], Required[s]) = cd
    BY DEF Site!CtxDomain, Crypto!CtxDomain, Site!Decimal, Crypto!Decimal, Site!Width,
       Crypto!Width, Site!Weight, Crypto!Weight
  <1> HIDE DEF cd, token
  <1>3. /\ Site!ContextDigest(cd, Site!current_epoch) = ctx
        /\ Site!ContextBytes(cd, Site!current_epoch, b.root, key, n) = bytes
    BY DEF Site!ContextDigest, Crypto!ContextDigest, Site!ContextBytes, Crypto!ContextBytes
  <1> HIDE DEF ctx, key, bytes
  <1>4. Site!ProofVerifies(s, token, n) <=> b.root = leaves
    BY <1>1, <1>2, <1>3 DEF Site!ProofVerifies, Site!Verify
  <1> QED BY <1>4 DEF token

(* A registered holder is served: whatever was enrolled, revoked, saved and restarted, the
   wallet proves from the holder's own slot, confirmed requests give tokens, and their
   proofs verify wherever the bundle is as new as the tree. *)
THEOREM RegisteredHoldersProve == Spec => []EnrolledHolderIsServed
  <1>1. Inv => EnrolledHolderIsServed
    <2> SUFFICES ASSUME Inv, NEW h \in Holders, NEW a \in Instances,
                        registry[a][h] # NoIndex, a \notin lost[h]
                 PROVE  /\ Wallet!LeafIndexFor(wallet[h], a) = registry[a][h]
                        /\ \A s \in Sites :
                              bundle[s] # NoBundle /\ Required[s] = a => ServedAt(s, h)
      BY DEF EnrolledHolderIsServed
    <2>1. tree[a][registry[a][h]] = Crypto!LeafHash(h) /\ given[h][a] = registry[a][h]
      BY DEF Inv, WalletPart, HoldersAreServed
    <2>2. Wallet!LeafIndexFor(wallet[h], a) = registry[a][h]
      BY <2>1 DEF Inv, WalletPart, WalletsOK, WalletOK, KnowsIndices, AllInstances
    <2>3. tree[a] \in [Slots -> Holders \cup {EmptyLeaf}]
      BY AuthorityTypes DEF Inv, AuthorityPart
    <2>4. [tree[a] EXCEPT ![registry[a][h]] = Crypto!LeafHash(h)] = tree[a]
      BY <2>1, <2>3
    <2>5. Crypto!FoldedRoot(tree[a], Wallet!LeafIndexFor(wallet[h], a), Crypto!LeafHash(h))
             = tree[a]
      BY <2>2, <2>4 DEF Crypto!FoldedRoot
    <2>6. ASSUME NEW s \in Sites, bundle[s] # NoBundle, Required[s] = a
          PROVE  ServedAt(s, h)
      <3>1. ForSite(bundle[s], s, CirculatingBundles)
        BY <2>6 DEF Inv, SitePart, SitesUseCirculating
      <3>2. Domain[s] \in Domains /\ Domain[s] \in Seq(Chars)
        BY DomainAssumption DEF Domains
      <3>3. Crypto!Encodable(Domain[s], a)
        BY <3>1, <3>2, DomainsEncode DEF ForSite
      <3>4. <<Domain[s], a>> \notin Malformed
        BY <3>3 DEF Malformed
      <3>5. Wallet!Outcome(wallet[h], Domain[s], a, TRUE) = "token"
        BY <2>2, <3>4 DEF Wallet!Outcome, Wallet!Warns
      <3>6. ASSUME NEW n \in DOMAIN minted
            PROVE  Site!ProofVerifies(s, TokenMade(h, bundle[s], tree[a], Domain[s],
                                                   Site!current_epoch, n), n)
                      <=> bundle[s].root = tree[a]
        BY <2>5, <2>6, <3>1, AnswerVerifies DEF ForSite
      <3> QED BY <2>6, <3>5, <3>6 DEF ServedAt
    <2> QED BY <2>2, <2>6
  <1> QED BY <1>1, Invariance, PTL

(* Whatever a site had, a bundle of the authority that it takes has every older one behind
   it, but for those of the same second: the check of issued_at is as good as the whole
   seconds it compares. *)
THEOREM RootsMoveForward == Spec => SiteRootsMoveForward
  <1> DEFINE After(p, b) == Authority!Extends(p.root, p.tree_size, b.root, b.tree_size)
             Forward(s) ==
                 bundle[s] # NoBundle /\ bundle'[s] \in PublishedBundles =>
                    \A p \in PublishedBundles :
                        (p.threshold = Required[s] /\ p.issued_at <= bundle[s].issued_at) =>
                            \/ After(p, bundle'[s])
                            \/ p.issued_at = bundle'[s].issued_at /\ After(bundle'[s], p)
  <1>1. ASSUME Inv, [Next]_vars, NEW s \in Sites
        PROVE  Forward(s)
    <2> SUFFICES ASSUME bundle[s] # NoBundle, bundle'[s] \in PublishedBundles,
                        NEW p \in PublishedBundles,
                        p.threshold = Required[s], p.issued_at <= bundle[s].issued_at
                 PROVE  \/ After(p, bundle'[s])
                        \/ p.issued_at = bundle'[s].issued_at /\ After(bundle'[s], p)
      OBVIOUS
    <2> DEFINE b == bundle'[s]
    <2>1. ForSite(bundle[s], s, CirculatingBundles)
      BY <1>1 DEF Inv, SitePart, SitesUseCirculating
    <2>2. PICK i \in DOMAIN published : published[i] = p
      BY DEF PublishedBundles
    <2>3. PICK j \in DOMAIN published : published[j] = b
      BY DEF PublishedBundles
    <2>4. /\ DOMAIN published = 1 .. Len(published) /\ Len(published) \in Nat
          /\ \A k \in DOMAIN published : published[k].issued_at \in Nat
          /\ bundle[s].issued_at \in Nat
      BY <1>1, <2>1, AuthorityTypes, BundleTypes, Appended DEF Inv, AuthorityPart, ForSite
    <2>5. b.threshold = Required[s] /\ bundle[s].issued_at <= b.issued_at
      <3>1. CASE bundle'[s] = bundle[s]
        BY <2>1, <2>4, <3>1 DEF ForSite
      <3>2. ASSUME NEW r \in Sites, NEW c \in CirculatingBundles,
                   Site!Create(r, c) \/ Site!UpdateRoot(r, c), bundle'[s] # bundle[s]
            PROVE  /\ c = bundle'[s] /\ c.threshold = Required[s]
                   /\ ~(c.issued_at < bundle[s].issued_at)
        <4>1. bundle = [q \in Sites |-> bundle[q]] /\ bundle' = [bundle EXCEPT ![r] = c]
          BY <1>1, <3>2 DEF Inv, SitePart, Site!Create, Site!UpdateRoot
        <4>2. r = s /\ bundle'[s] = c
          BY <3>2, <4>1
        <4> QED BY <3>2, <4>2 DEF Site!Create, Site!UpdateRoot, Site!CheckBundle, Site!StaleBundle
      <3>3. b.issued_at \in Nat
        BY <2>3, <2>4
      <3>4. ASSUME NEW r \in Sites, NEW token, NEW n,
                   \/ Site!VerifyInTime(r, token, n) \/ Site!VerifyEpoch(r)
                   \/ Site!VerifyAccept(r) \/ Site!VerifyReject(r)
            PROVE  bundle'[s] = bundle[s]
        BY <3>4 DEF Site!VerifyInTime, Site!VerifyEpoch, Site!VerifyAccept, Site!VerifyReject
      <3>5. bundle'[s] # bundle[s] =>
               b.threshold = Required[s] /\ ~(b.issued_at < bundle[s].issued_at)
        BY <1>1, <3>2, <3>4, SiteActions
      <3> QED BY <2>4, <3>1, <3>3, <3>5, SMT
    <2> HIDE DEF b
    <2>6. \A m \in DOMAIN published : \A k \in 1 .. m :
             published[k].threshold = published[m].threshold =>
                 /\ Issuer!Extends(published[k].root, published[k].tree_size,
                                   published[m].root, published[m].tree_size)
                 /\ published[k].issued_at <= published[m].issued_at
      BY <1>1 DEF Inv, AuthorityPart, Issuer!Inv, Issuer!BundlesAreAHistory
    <2>7. \A q, c : After(q, c) <=> Issuer!Extends(q.root, q.tree_size, c.root, c.tree_size)
      BY DEF Issuer!Extends, Authority!Extends, Issuer!Slots, Authority!Slots
    <2> HIDE DEF After
    <2>8. CASE i <= j
      <3>1. i \in 1 .. j
        BY <2>4, <2>8, SMT
      <3> QED BY <2>2, <2>3, <2>5, <2>6, <2>7, <3>1 DEF b
    <2>9. CASE j < i
      <3>1. j \in 1 .. i
        BY <2>4, <2>9, SMT
      <3>2. After(b, p) /\ b.issued_at <= p.issued_at
        BY <2>2, <2>3, <2>5, <2>6, <2>7, <3>1
      <3>3. b.issued_at \in Nat /\ p.issued_at \in Nat
        BY <2>2, <2>3, <2>4
      <3>4. p.issued_at = b.issued_at
        BY <2>4, <2>5, <3>2, <3>3, SMT
      <3> QED BY <3>2, <3>4 DEF b
    <2> QED BY <2>4, <2>8, <2>9, SMT
  <1>2. Inv /\ [Next]_vars =>
           [\A s \in Sites : bundle[s] # NoBundle /\ bundle'[s] \in PublishedBundles =>
               \A p \in PublishedBundles :
                   (p.threshold = Required[s] /\ p.issued_at <= bundle[s].issued_at) =>
                       \/ Authority!Extends(p.root, p.tree_size,
                                            bundle'[s].root, bundle'[s].tree_size)
                       \/ /\ p.issued_at = bundle'[s].issued_at
                          /\ Authority!Extends(bundle'[s].root, bundle'[s].tree_size,
                                               p.root, p.tree_size)]_vars
    BY <1>1
  <1> QED BY <1>2, Invariance, PTL DEF Spec, SiteRootsMoveForward

-----------------------------------------------------------------------------
(* The sites of the composition are sites: the tokens that arrive are tokens, the bundles
   they are given are bundles. *)
TokenSpace == [domain : Domains, threshold : Instances, epoch : Nat, temp_key : Keys,
               proof : Proofs]

LEMMA NewTokenType ==
    ASSUME AuthorityPart, WalletPart, now \in Nat, NEW h \in Holders, NEW b, NEW leaves, NEW d, NEW e,
           NEW n \in Nat, NEW allow, Asked(h, b, leaves, d, e, n, allow),
           Wallet!Outcome(wallet[h], d, b.threshold, allow) = "token"
    PROVE  TokenMade(h, b, leaves, d, e, n) \in TokenSpace
  <1> DEFINE a == b.threshold
             idx == Wallet!LeafIndexFor(wallet[h], a)
             cd == Crypto!CtxDomain(d, a)
             ctx == Crypto!ContextDigest(cd, e)
             key == <<h, ctx>>
             bytes == Crypto!ContextBytes(cd, e, b.root, key, n)
             root == [leaves EXCEPT ![idx] = h]
             U == Nat \cup Chars \cup Roots \cup Keys
  <1>1. /\ a \in Instances /\ d \in Domains /\ e = now \div EpochSeconds
    BY MakeTokenFacts DEF Asked, Site!current_epoch
  <1>2. e \in Nat
    BY <1>1, SiteAssumption, SMT
  <1>3. b.root \in Roots /\ leaves \in Roots
    BY AskedTypes, BundleTypes DEF AuthorityPart, Asked, Roots, Slots, Authority!Slots
  <1>4. root \in Roots
    BY <1>3 DEF Roots
  <1>5. cd \in Seq(Chars \cup 0 .. 9)
    BY <1>1, DomainAssumption, CtxDomainType DEF AllInstances
  <1>6. 0 .. 9 \subseteq Nat
    BY SMT
  <1>7. <<Bar, e>> \in Seq(Nat \cup Chars)
    BY <1>2, SMT DEF Chars
  <1>8. cd \in Seq(Nat \cup Chars)
    BY <1>5, <1>6, SeqMonotonic
  <1>9. ctx \in Contexts
    BY <1>7, <1>8, ConcatProperties DEF Crypto!ContextDigest, Contexts
  <1>10. key \in Keys
    BY <1>9 DEF Keys
  <1>11. bytes \in Seq(U)
    <2>1. cd \in Seq(U)
      BY <1>8, SeqMonotonic
    <2>2. Bar \in U /\ e \in U /\ b.root \in U /\ key \in U /\ n \in U
      BY <1>2, <1>3, <1>10 DEF Chars
    <2> DEFINE r == b.root
               tail == <<Bar, e, Bar, r, Bar, key, Bar, n>>
    <2> HIDE DEF U, key, r, cd
    <2>3. tail \in Seq(U)
      BY <2>2, SMT DEF r
    <2> HIDE DEF tail
    <2>4. cd \o tail \in Seq(U)
      BY <2>1, <2>3, ConcatProperties
    <2> QED BY <2>4 DEF tail, r, Crypto!ContextBytes
  <1>12. TokenMade(h, b, leaves, d, e, n)
           = [temp_key |-> key, epoch |-> e, domain |-> d, threshold |-> a,
              proof |-> [ctx |-> ctx, bytes |-> bytes, bound |-> TRUE, key |-> key,
                         root |-> root]]
    BY DEF TokenMade, Crypto!TempKey, Crypto!Prove, Crypto!FoldedRoot, Crypto!LeafHash
  <1> HIDE DEF a, ctx, bytes, key, root
  <1>13. [ctx |-> ctx, bytes |-> bytes, bound |-> TRUE, key |-> key, root |-> root] \in Proofs
    BY <1>4, <1>9, <1>10, <1>11 DEF Proofs
  <1> DEFINE proof == [ctx |-> ctx, bytes |-> bytes, bound |-> TRUE, key |-> key, root |-> root]
             token == TokenMade(h, b, leaves, d, e, n)
  <1>14. token = [temp_key |-> key, epoch |-> e, domain |-> d, threshold |-> a, proof |-> proof]
    BY <1>12
  <1>15. proof \in Proofs /\ a \in Instances
    BY <1>1, <1>13
  <1> HIDE DEF proof, token
  <1>16. token \in TokenSpace
    BY <1>1, <1>2, <1>10, <1>14, <1>15 DEF TokenSpace
  <1> QED BY <1>16 DEF token

TypedInv == Inv /\ Verifiers!Inv /\ tokens \subseteq TokenSpace

LEMMA DeliveredType ==
    ASSUME tokens \subseteq TokenSpace, NEW token \in Deliverable
    PROVE  token \in TokenSpace
  <1>1. PICK t \in tokens, d \in Domains, a \in Instances, e \in Epochs :
           token = Relabelled(t, d, a, e)
    BY DEF Deliverable
  <1>2. e \in Nat
    BY SMT DEF Epochs
  <1>3. t \in TokenSpace
    OBVIOUS
  <1> QED BY <1>1, <1>2, <1>3 DEF TokenSpace, Relabelled

(* Every step of the protocol is one of the sites or leaves them alone. *)
LEMMA SiteSteps ==
    ASSUME TypedInv, [Next]_vars
    PROVE  [Verifiers!Next]_(Verifiers!vars)
  <1> SUFFICES Verifiers!Next \/ UNCHANGED siteVars
    BY DEF siteVars, Verifiers!vars
  <1>1. CirculatingBundles \subseteq Authority!Bundles
    BY BundleTypes DEF TypedInv, Inv, AuthorityPart
  <1>2. DOMAIN minted \subseteq Verifiers!Nonces
    BY SiteAssumption, SMT DEF TypedInv, Verifiers!Inv, Verifiers!TypeOK, Verifiers!Nonces
  <1>3. ASSUME NEW s \in Sites, NEW b \in CirculatingBundles, Create(s, b) \/ UpdateRoot(s, b)
        PROVE  Verifiers!Next
    <2>1. Verifiers!Create(s, b) \/ Verifiers!UpdateRoot(s, b)
      BY <1>3 DEF Create, UpdateRoot, Site!Create, Verifiers!Create, Site!UpdateRoot,
         Verifiers!UpdateRoot, Site!CheckDomain, Verifiers!CheckDomain, Site!CheckBundle,
         Verifiers!CheckBundle, Site!StaleBundle, Verifiers!StaleBundle
    <2> QED BY <1>1, <2>1 DEF Verifiers!Next
  <1>4. ASSUME NEW s \in Sites, Challenge(s)
        PROVE  Verifiers!Next
    <2>1. Verifiers!Challenge(s)
      BY <1>4 DEF Challenge, Site!Challenge, Verifiers!Challenge, Site!Nonces, Verifiers!Nonces,
         Site!Kept, Verifiers!Kept, Site!Expired, Verifiers!Expired
    <2> QED BY <2>1 DEF Verifiers!Next
  <1>5. ASSUME NEW s \in Sites, NEW n \in DOMAIN minted, VerifyToken(s, n)
        PROVE  Verifiers!Next
    <2>1. CASE Site!VerifyExpired(s, n)
      <3>1. Verifiers!VerifyExpired(s, n)
        BY <2>1 DEF Site!VerifyExpired, Verifiers!VerifyExpired, Site!Open, Verifiers!Open,
           Site!Expired, Verifiers!Expired
      <3> QED BY <1>2, <3>1 DEF Verifiers!Next
    <2>2. ASSUME NEW token \in Deliverable, Site!VerifyInTime(s, token, n)
          PROVE  Verifiers!Next
      <3>1. Verifiers!VerifyInTime(s, token, n)
        BY <2>2 DEF Site!VerifyInTime, Verifiers!VerifyInTime, Site!Open, Verifiers!Open,
           Site!Expired, Verifiers!Expired, Site!LabelsMatch, Verifiers!LabelsMatch
      <3>2. token \in TokenSpace
        BY DeliveredType DEF TypedInv
      <3> QED BY <1>2, <3>1, <3>2 DEF Verifiers!Next, TokenSpace
    <2> QED BY <1>5, <2>1, <2>2 DEF VerifyToken
  <1>6. ASSUME NEW s \in Sites, VerifyGoesOn(s)
        PROVE  Verifiers!Next
    <2>1. \A token, n : Site!ProofVerifies(s, token, n) <=> Verifiers!ProofVerifies(s, token, n)
      BY DEF Site!ProofVerifies, Verifiers!ProofVerifies, Site!Verify, Verifiers!Verify,
         Site!ContextDigest, Verifiers!ContextDigest, Site!ContextBytes, Verifiers!ContextBytes,
         Site!CtxDomain, Verifiers!CtxDomain, Site!Decimal, Verifiers!Decimal, Site!Width,
         Verifiers!Width, Site!Weight, Verifiers!Weight
    <2>2. CASE Site!VerifyEpoch(s)
      <3>1. Verifiers!VerifyEpoch(s)
        BY <2>2 DEF Site!VerifyEpoch, Verifiers!VerifyEpoch, Site!EpochMatches,
           Verifiers!EpochMatches, Site!current_epoch, Verifiers!current_epoch
      <3> QED BY <3>1 DEF Verifiers!Next
    <2>3. CASE Site!VerifyAccept(s)
      <3>1. Verifiers!VerifyAccept(s)
        BY <2>1, <2>3 DEF Site!VerifyAccept, Verifiers!VerifyAccept, Site!Consumed,
           Verifiers!Consumed, Site!Remember, Verifiers!Remember
      <3> QED BY <3>1 DEF Verifiers!Next
    <2>4. CASE Site!VerifyReject(s)
      <3>1. Verifiers!VerifyReject(s)
        BY <2>1, <2>4 DEF Site!VerifyReject, Verifiers!VerifyReject
      <3> QED BY <3>1 DEF Verifiers!Next
    <2> QED BY <1>6, <2>2, <2>3, <2>4 DEF VerifyGoesOn
  <1>7. CASE SiteTick
    <2>1. Verifiers!Tick
      BY <1>7 DEF SiteTick, Site!Tick, Verifiers!Tick
    <2> QED BY <2>1 DEF Verifiers!Next
  <1>8. ASSUME NEW h \in Holders, NEW a \in Instances, EnrollWith(h, a) \/ Revoke(h, a)
        PROVE  UNCHANGED siteVars
    BY <1>8 DEF EnrollWith, Revoke
  <1>9. ASSUME NEW a \in Instances, Publish(a)
        PROVE  UNCHANGED siteVars
    BY <1>9 DEF Publish
  <1>10. ASSUME NEW h, NEW b, NEW l, NEW d, NEW e, NEW n, NEW allow,
               MakeToken(h, b, l, d, e, n, allow) \/ SaveOrLoad(h)
         PROVE  UNCHANGED siteVars
    BY <1>10 DEF MakeToken, SaveOrLoad
  <1>11. CASE AuthorityTick \/ UNCHANGED vars
    BY <1>11 DEF AuthorityTick, vars
  <1> QED BY <1>3, <1>4, <1>5, <1>6, <1>7, <1>8, <1>9, <1>10, <1>11 DEF Next

LEMMA TypedNext == TypedInv /\ [Next]_vars => TypedInv'
  <1> SUFFICES ASSUME TypedInv, [Next]_vars PROVE TypedInv'
    OBVIOUS
  <1>1. Inv'
    BY NextInv DEF TypedInv
  <1>2. Verifiers!Inv'
    BY SiteAssumptions, SiteSteps, Verifiers!NextInv DEF TypedInv
  <1>3. ASSUME NEW h \in Holders, NEW b, NEW leaves, NEW d, NEW e, NEW n, NEW allow,
               Asked(h, b, leaves, d, e, n, allow)
        PROVE  tokens' \subseteq TokenSpace
    <2>1. n \in Nat
      <3>1. n \in DOMAIN minted
        BY <1>3 DEF Asked
      <3> QED BY <3>1, SMT DEF TypedInv, Verifiers!Inv, Verifiers!TypeOK
    <2>2. CASE Wallet!Outcome(wallet[h], d, b.threshold, allow) = "token"
      <3>1. TokenMade(h, b, leaves, d, e, n) \in TokenSpace
        BY <1>3, <2>1, <2>2, NewTokenType DEF TypedInv, Inv, SitePart
      <3> QED BY <1>3, <2>2, <3>1, MakeTokenFacts DEF TypedInv, Inv
    <2>3. CASE Wallet!Outcome(wallet[h], d, b.threshold, allow) # "token"
      BY <1>3, <2>3, MakeTokenFacts DEF TypedInv, Inv
    <2> QED BY <2>2, <2>3
  <1>4. ASSUME NEW h \in Holders, NEW a \in Instances, EnrollWith(h, a) \/ Revoke(h, a)
        PROVE  tokens' = tokens
    BY <1>4, EnrollFacts, RevokeFacts DEF TypedInv, Inv, AuthorityPart
  <1>5. ASSUME NEW h \in Holders, SaveOrLoad(h)
        PROVE  tokens' = tokens
    BY <1>5 DEF SaveOrLoad
  <1>6. tokens' \subseteq TokenSpace
    BY <1>3, <1>4, <1>5, WalletActions DEF TypedInv
  <1> QED BY <1>1, <1>2, <1>6 DEF TypedInv

LEMMA SitesInit == Init => Verifiers!Init
  BY DEF Init, Site!Init, Verifiers!Init, Site!Nonces, Verifiers!Nonces

LEMMA TypedInvariance == Spec => []TypedInv
  <1>1. Init => TypedInv
    <2> SUFFICES ASSUME Init PROVE TypedInv
      OBVIOUS
    <2>1. Verifiers!Inv
      BY SiteAssumptions, SitesInit, Verifiers!InitInv
    <2>2. tokens \subseteq TokenSpace
      BY DEF Init
    <2> QED BY <2>1, <2>2, InitInv DEF TypedInv
  <1> QED BY <1>1, TypedNext, PTL DEF Spec

(* The protocol implements its websites: whatever the authority publishes and the network
   delivers, they take only steps that a site alone may take. *)
THEOREM SitesRefined == Spec => Verifiers!Spec
  <1>1. TypedInv /\ [Next]_vars => [Verifiers!Next]_(Verifiers!vars)
    BY SiteSteps
  <1> QED BY <1>1, SitesInit, TypedInvariance, PTL DEF Spec, Verifiers!Spec

(* So do its wallets: an index given is a slot of the tree and above every one given
   before, a request is one of the wallet's. *)
THEOREM WalletsRefined == Spec => Wallet!Spec
  <1>1. Init => Wallet!Init
    BY DEF Init
  <1>2. Inv /\ [Next]_vars => [Wallet!Next]_(Wallet!vars)
    <2> SUFFICES ASSUME Inv, [Next]_vars PROVE Wallet!Next \/ UNCHANGED walletVars
      BY DEF walletVars, Wallet!vars, Wallet!indexHistory
    <2>1. ASSUME NEW h \in Holders, NEW a \in Instances, EnrollWith(h, a)
          PROVE  Wallet!Next
      <3>1. nextIndex[a] \in Slots /\ Wallet!EnrollWith(h, a, nextIndex[a])
        BY <2>1, EnrollFacts DEF Inv, AuthorityPart
      <3>2. given[h][a] # NoIndex => given[h][a] < nextIndex[a] /\ given[h][a] \in Nat
        <4>1. given[h][a] # NoIndex => given[h][a] < nextIndex[a] /\ given[h][a] \in Slots
          BY DEF Inv, WalletPart, HoldersAreServed, WalletsOK, WalletOK, Indices, AllInstances
        <4> QED BY <4>1, SMT DEF Slots
      <3>3. nextIndex[a] \in Wallet!NextIndices(h, a)
        BY <3>1, <3>2, CapacityAssumption, SMT DEF Wallet!NextIndices, Slots
      <3> QED BY <3>1, <3>3 DEF Wallet!Next
    <2>2. ASSUME NEW h \in Holders, NEW b \in CirculatingBundles, NEW leaves,
                 NEW d \in Domains, NEW e, NEW n, NEW allow \in Answers,
                 MakeToken(h, b, leaves, d, e, n, allow)
          PROVE  Wallet!Next
      <3>1. b.threshold \in Instances
        BY BundleTypes DEF Inv, AuthorityPart
      <3>2. Wallet!MakeToken(h, d, b.threshold, allow) /\ allow \in BOOLEAN
        BY <2>2, AnswerAssumption DEF MakeToken
      <3> QED BY <3>1, <3>2 DEF Wallet!Next
    <2>3. ASSUME NEW h \in Holders, NEW b \in CirculatingBundles, NEW d \in Domains, NEW e, NEW n,
                 NEW allow \in Answers,
                 \E leaves \in TreesFor(b) : MakeToken(h, b, leaves, d, e, n, allow)
          PROVE  Wallet!Next
      BY <2>2, <2>3
    <2>4. ASSUME NEW h \in Savers, SaveOrLoad(h)
          PROVE  Wallet!Next
      BY <2>4, SaverAssumption DEF SaveOrLoad, Wallet!Next
    <2>5. ASSUME NEW h \in Holders, NEW a \in Instances, Revoke(h, a)
          PROVE  UNCHANGED walletVars
      BY <2>5 DEF Revoke
    <2>6. ASSUME NEW a \in Instances, Publish(a)
          PROVE  UNCHANGED walletVars
      BY <2>6 DEF Publish
    <2>7. ASSUME NEW s, NEW b, Create(s, b) \/ UpdateRoot(s, b)
          PROVE  UNCHANGED walletVars
      BY <2>7 DEF Create, UpdateRoot
    <2>8. ASSUME NEW s, Challenge(s) \/ VerifyGoesOn(s)
          PROVE  UNCHANGED walletVars
      BY <2>8 DEF Challenge, VerifyGoesOn
    <2>9. ASSUME NEW s, NEW n, VerifyToken(s, n)
          PROVE  UNCHANGED walletVars
      BY <2>9 DEF VerifyToken
    <2>10. CASE AuthorityTick \/ SiteTick \/ UNCHANGED vars
      BY <2>10 DEF AuthorityTick, SiteTick, vars
    <2> HIDE DEF Wallet!Next
    <2> QED BY <2>1, <2>3, <2>4, <2>5, <2>6, <2>7, <2>8, <2>9, <2>10 DEF Next
  <1> QED BY <1>1, <1>2, Invariance, PTL DEF Spec, Wallet!Spec

(* What is proved of the parts alone holds of them together: the registry matches the
   tree, no nonce is accepted twice and no proof of independent seeds, a challenge stays
   open until its deadline, every acceptance is in time, and an account dates from its
   first one. *)
THEOREM PartsKeepTheirPromises ==
    Spec => [](/\ Issuer!RegistryMatchesTree /\ Issuer!BundlesAreAHistory
               /\ Verifiers!NonceAcceptedOnce /\ Verifiers!TokenAcceptedOnce
               /\ Verifiers!ChallengesStayAnswerable /\ Verifiers!AcceptedInTime
               /\ Verifiers!AccountsAreFirstAcceptances)
  <1>1. Issuer!Spec => []Issuer!RegistryMatchesTree /\ []Issuer!BundlesAreAHistory
    BY AuthorityAssumptions, Issuer!RegistryAgreement, Issuer!BundleHistory
  <1>2. Verifiers!Spec => /\ []Verifiers!NonceAcceptedOnce /\ []Verifiers!TokenAcceptedOnce
                          /\ []Verifiers!ChallengesStayAnswerable
                          /\ []Verifiers!AcceptedInTime
                          /\ []Verifiers!AccountsAreFirstAcceptances
    BY SiteAssumptions, Verifiers!OnceOnly, Verifiers!OneVisitor, Verifiers!Answerable,
       Verifiers!Timely, Verifiers!FirstSeen
  <1> QED BY <1>1, <1>2, AuthorityRefined, SitesRefined, PTL

=============================================================================
