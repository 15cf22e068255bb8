-------------------------- MODULE AllocatorLemmas ---------------------------
(***************************************************************************)
(* What the operators of Allocator do to its memory: each keeps a good     *)
(* memory good.                                                            *)
(***************************************************************************)
EXTENDS AllocatorInvariant, Integers, TLAPS

USE DEF OfferIds, TerminalPhases, Terminal, Statuses

-----------------------------------------------------------------------------
(* What the proofs use of the theorems about finite sets.  It is an        *)
(* assumption of the lemmas, which AllocatorProofs discharges: the library *)
(* itself would be part of the context of every step.                      *)

SizesAreNumbers == \A S : IsFiniteSet(S) => Cardinality(S) \in Nat

SubsetsAreSmaller ==
    \A S, T : IsFiniteSet(S) /\ T \subseteq S =>
        IsFiniteSet(T) /\ Cardinality(T) <= Cardinality(S)

AddingCounts ==
    \A S, x : IsFiniteSet(S) =>
        /\ IsFiniteSet(S \cup {x})
        /\ Cardinality(S \cup {x}) = IF x \in S THEN Cardinality(S) ELSE Cardinality(S) + 1

RemovingCounts ==
    \A S, x : IsFiniteSet(S) /\ x \in S =>
        Cardinality(S \ {x}) = Cardinality(S) - 1 /\ Cardinality(S) # 0

DifferencesCount ==
    \A S, T : IsFiniteSet(S) =>
        /\ IsFiniteSet(S \ T)
        /\ Cardinality(S \ T) = Cardinality(S) - Cardinality(S \cap T)

UnionsCount ==
    \A S, T : IsFiniteSet(S) /\ IsFiniteSet(T) =>
        /\ IsFiniteSet(S \cup T)
        /\ Cardinality(S \cup T) <= Cardinality(S) + Cardinality(T)

InjectionsAreFinite ==
    \A S, T, f : IsFiniteSet(T) /\ (\A x \in S : f[x] \in T)
                /\ (\A x, y \in S : f[x] = f[y] => x = y) => IsFiniteSet(S)

Counting ==
    /\ SizesAreNumbers /\ SubsetsAreSmaller /\ AddingCounts /\ RemovingCounts
    /\ DifferencesCount /\ UnionsCount /\ InjectionsAreFinite
    /\ IsFiniteSet(OfferIds) /\ Cardinality({}) = 0

\* The arithmetic that is needed where they are proved.
LEMMA Numbers ==
    /\ 0 <= 0 /\ 0 <= 1 /\ 1 <= 1 /\ 1 \in Int /\ MaxOffers \in Int
    /\ \A a, b, c \in Nat : a + b - c <= a + b
  BY ConstantsAssumption

-----------------------------------------------------------------------------
\* Offers and clock, as the invariant bounds them.
LEMMA Bounds ==
    ASSUME IndInv
    PROVE  /\ GoodMemory(mem) /\ clock \in Nat /\ issued \in 0 .. MaxOffers
           /\ MaxOffers \in Nat
           /\ DOMAIN mem.offers \subseteq 1 .. issued
           /\ applied \in [Messages -> Nat]
           /\ \A m \in Messages : HandlerOK(m)
<1>1. /\ GoodMemory(mem) /\ TypeOK /\ DOMAIN mem.offers \subseteq 1 .. issued
      /\ \A m \in Messages : HandlerOK(m)
  BY Zenon DEF IndInv
<1>2. clock \in Nat /\ issued \in 0 .. MaxOffers /\ applied \in [Messages -> Nat]
  BY <1>1 DEF TypeOK
<1>3. MaxOffers \in Nat
  BY ConstantsAssumption, Zenon
<1> QED
  BY <1>1, <1>2, <1>3, Zenon

-----------------------------------------------------------------------------
(* The maps: F and G are offers, X and Y executions, R and Q the index of  *)
(* requests, before and after a change.                                    *)

\* Finitely many offers hold a slot.
LEMMA HoldersFinite ==
    ASSUME Counting, NEW F, IsMap(F, OfferIds, Offer), NEW X, NEW c
    PROVE  IsFiniteSet(Holders(F, X, c)) /\ Cardinality(Holders(F, X, c)) \in Nat
<1>1. IsFiniteSet(OfferIds)
  BY Zenon DEF Counting
<1>2. Holders(F, X, c) \in SUBSET OfferIds
  BY Zenon DEF Holders, IsMap
<1> QED
  BY <1>1, <1>2, Zenon DEF Counting, SubsetsAreSmaller, SizesAreNumbers

\* Offers that are released or expire keep every link.
LEMMA OffersUpdated ==
    ASSUME NEW F, NEW G, NEW X, NEW R, Linked(F, X), Indexed(F, R), DOMAIN G = DOMAIN F,
           \A o \in DOMAIN F :
                /\ G[o].class = F[o].class
                /\ G[o].execution = F[o].execution
                /\ Key(G[o]) = Key(F[o])
                /\ G[o].status = "assigned" <=> F[o].status = "assigned"
    PROVE  Linked(G, X) /\ Indexed(G, R)
<1>1. Linked(G, X)
  BY DEF Linked
<1>2. Indexed(G, R)
  BY Zenon DEF Indexed
<1> QED
  BY <1>1, <1>2, Zenon

\* Executions change their phase, and some of them give their slot back.
LEMMA ExecutionsUpdated ==
    ASSUME NEW F, NEW X, NEW Y, Linked(F, X), DOMAIN Y = DOMAIN X,
           \A d \in DOMAIN X :
                /\ Y[d].offer = X[d].offer
                /\ Key(Y[d]) = Key(X[d])
                /\ Y[d].class = X[d].class
                /\ Terminal(Y[d].phase) <=> Y[d].released
    PROVE  Linked(F, Y)
  BY DEF Linked

\* The slots stay with executions none of which is released.
LEMMA SlotsKept ==
    ASSUME NEW F, NEW X, NEW Y, Linked(F, X),
           \A d \in DOMAIN X : Y[d].released <=> X[d].released, NEW c
    PROVE  Holders(F, Y, c) = Holders(F, X, c)
  BY Zenon DEF Holders, Linked

\* The execution e gives the slot of its offer back.
LEMMA SlotFreed ==
    ASSUME NEW F, NEW X, NEW Y, Linked(F, X),
           NEW e \in DOMAIN X, Y[e].released, ~X[e].released, NEW c,
           \A d \in DOMAIN X : d # e => (Y[d].released <=> X[d].released)
    PROVE  /\ Holders(F, Y, c) = Holders(F, X, c) \ {X[e].offer}
           /\ X[e].offer \in Holders(F, X, c) <=> c = X[e].class
<1>1. \A p \in DOMAIN F : F[p].status = "assigned" =>
        F[p].execution \in DOMAIN X /\ (F[p].execution = e <=> p = X[e].offer)
  BY DEF Linked
<1>2. F[X[e].offer].status = "assigned"
  BY Zenon DEF Linked
<1>3. Holders(F, Y, c) = Holders(F, X, c) \ {X[e].offer}
  BY <1>1, <1>2, Zenon DEF Holders
<1>4. X[e].offer \in Holders(F, X, c) <=> c = X[e].class
  BY DEF Holders, Linked
<1> QED
  BY <1>3, <1>4, Zenon

\* Offers are dropped with their executions.
LEMMA OffersDropped ==
    ASSUME NEW F, NEW G, NEW X, NEW Y, Linked(F, X),
           DOMAIN G \subseteq DOMAIN F, \A o \in DOMAIN G : G[o] = F[o],
           DOMAIN Y \subseteq DOMAIN X, \A e \in DOMAIN Y : Y[e] = X[e],
           \A e \in DOMAIN X : e \in DOMAIN Y <=> X[e].offer \in DOMAIN G
    PROVE  /\ Linked(G, Y)
           /\ \A o \in DOMAIN G : F[o].status = "assigned" => F[o].execution \in DOMAIN Y
<1>1. \A o \in DOMAIN G : F[o].status = "assigned" => F[o].execution \in DOMAIN Y
  BY DEF Linked
<1>2. Linked(G, Y)
  BY <1>1 DEF Linked
<1> QED
  BY <1>1, <1>2, Zenon

\* Offers are dropped with their requests.
LEMMA RequestsDropped ==
    ASSUME NEW F, NEW G, NEW R, NEW Q, Indexed(F, R),
           DOMAIN G \subseteq DOMAIN F, \A o \in DOMAIN G : G[o] = F[o],
           DOMAIN Q \subseteq DOMAIN R, \A k \in DOMAIN Q : Q[k] = R[k],
           \A k \in DOMAIN R : k \in DOMAIN Q <=> R[k] \in DOMAIN G
    PROVE  Indexed(G, Q)
  BY DEF Indexed

-----------------------------------------------------------------------------
(* The memory.                                                             *)

\* Expiring offers.
LEMMA ExpireTyped ==
    ASSUME Counting, NEW s, IsMemory(s), NEW t \in Nat
    PROVE  /\ IsMemory(ExpireOffers(s, t))
           /\ ExpireOffers(s, t).executions = s.executions
           /\ ExpireOffers(s, t).requests = s.requests
           /\ ExpireOffers(s, t).tombstones = s.tombstones
           /\ ExpireOffers(s, t).entries = s.entries
           /\ ExpireOffers(s, t).highWater = s.highWater
           /\ DOMAIN ExpireOffers(s, t).offers = DOMAIN s.offers
           /\ \A o \in DOMAIN s.offers : ExpireOffers(s, t).offers[o] =
                    IF o \in StaleOffers(s, t) THEN [s.offers[o] EXCEPT !.status = "expired"]
                    ELSE s.offers[o]
           /\ \A c \in Classes : ExpireOffers(s, t).used[c] =
                Monus(s.used[c], Cardinality({o \in StaleOffers(s, t) : s.offers[o].class = c}))
<1> DEFINE n == ExpireOffers(s, t)
           S == StaleOffers(s, t)
           F == s.offers
           k(c) == Cardinality({o \in S : F[o].class = c})
<1>1. /\ n.executions = s.executions /\ n.requests = s.requests
      /\ n.tombstones = s.tombstones /\ n.entries = s.entries /\ n.highWater = s.highWater
      /\ n.offers = [o \in DOMAIN F |->
            IF o \in S THEN [F[o] EXCEPT !.status = "expired"] ELSE F[o]]
      /\ n.used = [c \in Classes |-> Monus(s.used[c], k(c))]
      /\ IsRecord(n, DOMAIN s)
  BY Zenon DEF ExpireOffers, IsMemory, IsRecord
<1>2. IsMap(F, OfferIds, Offer) /\ s.used \in [Classes -> Nat]
  BY Zenon DEF IsMemory
<1>3. S \subseteq DOMAIN F
  BY Zenon DEF StaleOffers
<1> HIDE DEF n, S, F
<1>4. IsMap(n.offers, OfferIds, Offer)
  <2>1. \A x \in Offer : [x EXCEPT !.status = "expired"] \in Offer
    BY Zenon DEF Offer
  <2> QED
    BY <1>1, <1>2, <2>1 DEF IsMap
<1>5. \A c \in Classes : k(c) \in Nat
  <2> TAKE c \in Classes
  <2>1. {o \in S : F[o].class = c} \in SUBSET OfferIds
    BY <1>2, <1>3, Zenon DEF IsMap
  <2>2. IsFiniteSet(OfferIds)
    BY Zenon DEF Counting
  <2> QED
    BY <2>1, <2>2, Zenon DEF Counting, SubsetsAreSmaller, SizesAreNumbers
<1> HIDE DEF k
<1>6. n.used \in [Classes -> Nat] /\ \A c \in Classes : n.used[c] = Monus(s.used[c], k(c))
  BY <1>1, <1>2, <1>5 DEF Monus
<1>7. IsMemory(n)
  BY <1>1, <1>4, <1>6, Zenon DEF IsMemory, IsRecord
<1>8. DOMAIN n.offers = DOMAIN F /\ \A o \in DOMAIN F : n.offers[o] =
            IF o \in S THEN [F[o] EXCEPT !.status = "expired"] ELSE F[o]
  BY <1>1, Zenon
<1> QED
  BY <1>1, <1>6, <1>7, <1>8, Zenon DEF n, S, F, k

\* Expiring an offer keeps every link, and takes its slot.
LEMMA ExpireLinked ==
    ASSUME Counting,
           NEW s, IsMemory(s), Linked(s.offers, s.executions), Indexed(s.offers, s.requests),
           NEW t \in Nat, NEW n, n = ExpireOffers(s, t)
    PROVE  /\ Linked(n.offers, n.executions)
           /\ Indexed(n.offers, n.requests)
           /\ \A c : LET stale == {o \in StaleOffers(s, t) : s.offers[o].class = c}
                          held == Holders(s.offers, s.executions, c)
                     IN  /\ Holders(n.offers, n.executions, c) = held \ stale
                         /\ held \cap stale = stale
<1> DEFINE F == s.offers
           G == n.offers
           X == s.executions
           S == StaleOffers(s, t)
           K(c) == {o \in S : F[o].class = c}
<1>1. /\ n.executions = X /\ n.requests = s.requests /\ DOMAIN G = DOMAIN F
      /\ \A o \in DOMAIN F : G[o] = IF o \in S THEN [F[o] EXCEPT !.status = "expired"] ELSE F[o]
  BY ExpireTyped
<1>2. \A o \in DOMAIN F : F[o] \in Offer
  BY Zenon DEF IsMemory, IsMap
<1>3. \A o \in S : o \in DOMAIN F /\ F[o].status = "outstanding"
  BY Zenon DEF StaleOffers
<1>4. Linked(F, X) /\ Indexed(F, s.requests)
  OBVIOUS
<1> HIDE DEF F, G, X, S
<1>5. \A o \in DOMAIN F :
        /\ G[o].class = F[o].class
        /\ G[o].execution = F[o].execution
        /\ Key(G[o]) = Key(F[o])
        /\ G[o].status = IF o \in S THEN "expired" ELSE F[o].status
  BY <1>1, <1>2, Zenon DEF Offer, Key
<1>6. Linked(G, X) /\ Indexed(G, s.requests)
  BY <1>1, <1>3, <1>4, <1>5, OffersUpdated, Z3T(30)
<1>7. \A c : Holders(G, X, c) = Holders(F, X, c) \ K(c) /\ Holders(F, X, c) \cap K(c) = K(c)
  BY <1>1, <1>3, <1>5, Zenon DEF Holders
<1> QED
  BY <1>1, <1>6, <1>7, Zenon DEF F, G, X, S

\* expireOffersLocked keeps a good memory good.
LEMMA ExpireGood ==
    ASSUME Counting, NEW s, GoodMemory(s), NEW t \in Nat
    PROVE  GoodMemory(ExpireOffers(s, t))
<1> DEFINE n == ExpireOffers(s, t)
           H(c) == Holders(s.offers, s.executions, c)
           N(c) == Holders(n.offers, n.executions, c)
           K(c) == {o \in StaleOffers(s, t) : s.offers[o].class = c}
<1>0. /\ IsMemory(s) /\ IsMap(s.offers, OfferIds, Offer)
      /\ Linked(s.offers, s.executions) /\ Indexed(s.offers, s.requests)
      /\ \A c \in Classes : s.used[c] = Cardinality(H(c)) /\ s.used[c] <= Limit[c]
  BY Zenon DEF GoodMemory, IsMemory, Accounted
<1>1. /\ IsMemory(n) /\ Linked(n.offers, n.executions) /\ Indexed(n.offers, n.requests)
      /\ \A c \in Classes : n.used[c] = Monus(s.used[c], Cardinality(K(c)))
      /\ \A c : N(c) = H(c) \ K(c) /\ H(c) \cap K(c) = K(c)
  <2>1. IsMemory(n) /\ \A c \in Classes : n.used[c] = Monus(s.used[c], Cardinality(K(c)))
    BY <1>0, ExpireTyped
  <2>2. /\ Linked(n.offers, n.executions) /\ Indexed(n.offers, n.requests)
        /\ \A c : N(c) = H(c) \ K(c) /\ H(c) \cap K(c) = K(c)
    <3> HIDE DEF n
    <3> QED
      BY <1>0, ExpireLinked, Z3T(30) DEF n
  <2> QED
    BY <2>1, <2>2, Zenon
<1>2. \A c : IsFiniteSet(H(c)) /\ Cardinality(H(c)) \in Nat
  BY <1>0, HoldersFinite, Zenon
<1> HIDE DEF n, H, N, K
<1>3. ASSUME NEW c \in Classes
      PROVE  n.used[c] = Cardinality(N(c)) /\ n.used[c] <= Limit[c]
  <2>1. Cardinality(N(c)) = Cardinality(H(c)) - Cardinality(K(c))
    <3>1. IsFiniteSet(H(c)) /\ N(c) = H(c) \ K(c) /\ H(c) \cap K(c) = K(c)
      BY <1>1, <1>2, Zenon
    <3> QED
      BY <3>1, Zenon DEF Counting, DifferencesCount
  <2>2. Cardinality(K(c)) \in Nat /\ Cardinality(K(c)) <= Cardinality(H(c))
    <3>1. IsFiniteSet(H(c)) /\ K(c) \subseteq H(c)
      BY <1>1, <1>2, Zenon
    <3> QED
      BY <3>1, Zenon DEF Counting, SubsetsAreSmaller, SizesAreNumbers
  <2>3. Limit[c] \in Nat
    BY ConstantsAssumption, Zenon
  <2> QED
    BY <1>0, <1>1, <1>2, <2>1, <2>2, <2>3 DEF Monus
<1> QED
  BY <1>1, <1>3, Zenon DEF GoodMemory, Accounted, n, N

\* Operators that touch neither offers nor executions.
LEMMA UntouchedGood ==
    ASSUME NEW s, GoodMemory(s), NEW n, IsMemory(n), n.offers = s.offers,
           n.executions = s.executions, n.requests = s.requests, n.used = s.used
    PROVE  GoodMemory(n)
  BY Zenon DEF GoodMemory

\* effectiveNowLocked.
LEMMA AdvanceGood ==
    ASSUME NEW s, GoodMemory(s), clock \in Nat
    PROVE  /\ GoodMemory(AdvanceHighWater(s))
           /\ AdvanceHighWater(s).executions = s.executions
           /\ AdvanceHighWater(s).offers = s.offers
           /\ AdvanceHighWater(s).tombstones = s.tombstones
           /\ AdvanceHighWater(s).entries = s.entries
<1> DEFINE n == AdvanceHighWater(s)
<1>1. IsMemory(s)
  BY Zenon DEF GoodMemory
<1>2. /\ IsMemory(n) /\ n.offers = s.offers /\ n.executions = s.executions
      /\ n.requests = s.requests /\ n.used = s.used
      /\ n.tombstones = s.tombstones /\ n.entries = s.entries
  BY <1>1, Zenon DEF AdvanceHighWater, IsMemory, IsRecord, Later
<1> QED
  BY <1>2, UntouchedGood, Zenon

\* The replay cache: any change of the entries.
LEMMA EntriesGood ==
    ASSUME NEW s, GoodMemory(s), NEW E, IsMap(E, Messages, ReplayEntry)
    PROVE  LET n == [s EXCEPT !.entries = E] IN
           /\ GoodMemory(n)
           /\ n.offers = s.offers /\ n.executions = s.executions
           /\ n.tombstones = s.tombstones
           /\ n.entries = E
<1> DEFINE n == [s EXCEPT !.entries = E]
<1>1. IsMemory(s)
  BY Zenon DEF GoodMemory
<1>2. /\ IsMemory(n) /\ n.offers = s.offers /\ n.executions = s.executions
      /\ n.requests = s.requests /\ n.used = s.used
      /\ n.tombstones = s.tombstones /\ n.entries = E
  BY <1>1, Zenon DEF IsMemory, IsRecord
<1> QED
  BY <1>2, UntouchedGood, Zenon

\* Dropping keys of a map leaves a map, with what it had at the other keys.
LEMMA DropMap ==
    ASSUME NEW f, NEW S, NEW T, IsMap(f, S, T), NEW X
    PROVE  /\ IsMap(Drop(f, X), S, T)
           /\ DOMAIN Drop(f, X) = DOMAIN f \ X
           /\ \A y \in DOMAIN f \ X : Drop(f, X)[y] = f[y]
  BY Zenon DEF Drop, IsMap

\* prune only drops entries that are done.
LEMMA PruneGood ==
    ASSUME NEW s, GoodMemory(s), NEW t \in Nat
    PROVE  /\ GoodMemory(Prune(s, t))
           /\ Prune(s, t).executions = s.executions
           /\ Prune(s, t).offers = s.offers
           /\ Prune(s, t).tombstones = s.tombstones
           /\ \A m \in DOMAIN s.entries : ~s.entries[m].done =>
                m \in DOMAIN Prune(s, t).entries /\ Prune(s, t).entries[m] = s.entries[m]
<1> DEFINE old == {m \in DOMAIN s.entries :
                    s.entries[m].done /\ s.entries[m].seenAt + ReplayTTL <= t}
           E == Drop(s.entries, old)
<1>1. IsMemory(s) /\ IsMap(s.entries, Messages, ReplayEntry)
  BY Zenon DEF GoodMemory, IsMemory
<1>2. IsMap(E, Messages, ReplayEntry) /\ DOMAIN E = DOMAIN s.entries \ old
      /\ \A m \in DOMAIN s.entries \ old : E[m] = s.entries[m]
  BY <1>1, DropMap, Zenon
<1>3. Prune(s, t) = [s EXCEPT !.entries = E]
  BY Zenon DEF Prune
<1> HIDE DEF E
<1> QED
  BY <1>2, <1>3, EntriesGood

\* Removing a member from a finite set.
LEMMA RemoveOne ==
    ASSUME Counting, NEW S, IsFiniteSet(S), NEW x \in S
    PROVE  Cardinality(S \ {x}) = Cardinality(S) - 1 /\ Cardinality(S) # 0
  BY Zenon DEF Counting, RemovingCounts

\* capacityLedger.release for the one offer o that no longer holds its slot.
LEMMA SlotReturned ==
    ASSUME Counting, NEW F, NEW G, NEW X, NEW Y, NEW u, NEW v, IsMap(F, OfferIds, Offer),
           Accounted(u, F, X), NEW k \in Classes, NEW o \in Holders(F, X, k),
           Holders(G, Y, k) = Holders(F, X, k) \ {o},
           \A c \in Classes \ {k} : Holders(G, Y, c) = Holders(F, X, c),
           \A c \in Classes : v[c] = IF c = k THEN Monus(u[c], 1) ELSE u[c]
    PROVE  Accounted(v, G, Y)
<1>1. IsFiniteSet(Holders(F, X, k)) /\ Cardinality(Holders(F, X, k)) \in Nat
  BY HoldersFinite, Zenon
<1>2. /\ Cardinality(Holders(F, X, k) \ {o}) = Cardinality(Holders(F, X, k)) - 1
      /\ Cardinality(Holders(F, X, k)) # 0
  BY <1>1, RemoveOne, Zenon
<1>3. u[k] = Cardinality(Holders(F, X, k)) /\ u[k] <= Limit[k] /\ Limit[k] \in Nat
  BY ConstantsAssumption, Zenon DEF Accounted
<1>4. v[k] = Monus(u[k], 1)
  OBVIOUS
<1>5. v[k] = Cardinality(Holders(G, Y, k)) /\ v[k] <= Limit[k]
  BY <1>1, <1>2, <1>3, <1>4 DEF Monus
<1>6. ASSUME NEW c \in Classes, c # k
      PROVE  v[c] = Cardinality(Holders(G, Y, c)) /\ v[c] <= Limit[c]
  BY <1>6, Zenon DEF Accounted
<1> QED
  BY <1>5, <1>6, Zenon DEF Accounted

\* n has every execution of s, about the same work, and the same replay entries,
\* tombstones and offer IDs.
Keeps(s, n) ==
    /\ GoodMemory(n)
    /\ n.entries = s.entries /\ n.tombstones = s.tombstones
    /\ DOMAIN n.offers = DOMAIN s.offers
    /\ \A e \in DOMAIN s.executions :
        /\ e \in DOMAIN n.executions
        /\ n.executions[e].offer = s.executions[e].offer
        /\ n.executions[e].client = s.executions[e].client
        /\ n.executions[e].request = s.executions[e].request

\* The fields of an execution record after a transition.
LEMMA TransitionTyped ==
    ASSUME NEW y \in Execution, NEW p \in Phases, NEW l \in BOOLEAN
    PROVE  /\ Transition(y, p, l) \in Execution
           /\ Transition(y, p, l).phase = p
           /\ Transition(y, p, l).offer = y.offer
           /\ Transition(y, p, l).client = y.client
           /\ Transition(y, p, l).request = y.request
           /\ Transition(y, p, l).class = y.class
           /\ Transition(y, p, l).released = y.released
<1>1. y.revision + 1 \in Nat
  BY DEF Execution
<1>2. Transition(y, p, l) \in Execution
  BY <1>1, Zenon DEF Execution, Transition
<1> QED
  BY <1>2, Zenon DEF Execution, Transition

\* The fields of an execution record once it is over.
LEMMA EndedTyped ==
    ASSUME NEW y \in Execution, NEW p \in Phases, NEW l \in BOOLEAN, NEW t \in Nat
    PROVE  /\ Ended(y, p, l, t) \in Execution
           /\ Ended(y, p, l, t).phase = p
           /\ Ended(y, p, l, t).offer = y.offer
           /\ Ended(y, p, l, t).client = y.client
           /\ Ended(y, p, l, t).request = y.request
           /\ Ended(y, p, l, t).class = y.class
           /\ Ended(y, p, l, t).released
<1> DEFINE z == Transition(y, p, l)
<1>1. z \in Execution /\ z.phase = p /\ z.offer = y.offer /\ z.client = y.client
      /\ z.request = y.request /\ z.class = y.class
  BY TransitionTyped, Zenon
<1> HIDE DEF z
<1>2. Ended(y, p, l, t) = [z EXCEPT !.released = TRUE, !.retainUntil = t]
  BY Zenon DEF Ended, z
<1>3. Ended(y, p, l, t) \in Execution
  BY <1>1, <1>2, Zenon DEF Execution
<1> QED
  BY <1>1, <1>2, <1>3, Zenon DEF Execution

\* A transition of the execution e that keeps what its record is about.
LEMMA TransitionGood ==
    ASSUME Counting,
           NEW s, GoodMemory(s), NEW e \in DOMAIN s.executions, NEW y, y = s.executions[e],
           NEW x \in Execution, x.offer = y.offer, x.client = y.client, x.request = y.request,
           x.class = y.class, Terminal(x.phase) <=> x.released,
           NEW n, IsMemory(n), n.offers = s.offers, n.requests = s.requests,
           n.entries = s.entries, n.tombstones = s.tombstones,
           n.executions = [s.executions EXCEPT ![e] = x],
           \/ (x.released <=> y.released) /\ n.used = s.used
           \/ /\ x.released /\ ~y.released
              /\ \A c \in Classes : n.used[c] =
                    IF c = y.class THEN Monus(s.used[c], 1) ELSE s.used[c]
    PROVE  Keeps(s, n)
<1> DEFINE F == s.offers
           X == s.executions
           Y == n.executions
           u == s.used
           v == n.used
<1>0. /\ IsMap(F, OfferIds, Offer) /\ IsMap(X, ExecutionIds, Execution)
      /\ Linked(F, X) /\ Indexed(F, s.requests) /\ Accounted(u, F, X)
  BY Zenon DEF GoodMemory, IsMemory
<1>1. e \in DOMAIN X /\ X[e] = y /\ Y = [X EXCEPT ![e] = x]
  OBVIOUS
<1>2. \/ (x.released <=> y.released) /\ v = u
      \/ /\ x.released /\ ~y.released
         /\ \A c \in Classes : v[c] = IF c = y.class THEN Monus(u[c], 1) ELSE u[c]
  OBVIOUS
<1> HIDE DEF F, X, Y, u, v
<1>3. DOMAIN Y = DOMAIN X /\ Y[e] = x /\ \A d \in DOMAIN X : d # e => Y[d] = X[d]
  BY <1>0, <1>1, Zenon DEF IsMap
<1>4. \A d \in DOMAIN X :
        /\ Y[d].offer = X[d].offer
        /\ Y[d].client = X[d].client
        /\ Y[d].request = X[d].request
        /\ Y[d].class = X[d].class
        /\ Terminal(Y[d].phase) <=> Y[d].released
        /\ d # e => (Y[d].released <=> X[d].released)
  BY <1>0, <1>1, <1>3 DEF Linked
<1>5. \A d \in DOMAIN X : Key(Y[d]) = Key(X[d])
  BY <1>4, Zenon DEF Key
<1>6. Linked(F, Y)
  BY <1>0, <1>3, <1>4, <1>5, ExecutionsUpdated, Z3T(30)
<1>7. Accounted(v, F, Y)
  <2>1. CASE (x.released <=> y.released) /\ v = u
    <3>1. \A d \in DOMAIN X : Y[d].released <=> X[d].released
      BY <1>1, <1>3, <1>4, <2>1
    <3>2. \A c : Holders(F, Y, c) = Holders(F, X, c)
      BY <1>0, <3>1, SlotsKept, Z3T(30)
    <3> QED
      BY <1>0, <2>1, <3>2, Zenon DEF Accounted
  <2>2. CASE /\ x.released /\ ~y.released
             /\ \A c \in Classes : v[c] = IF c = y.class THEN Monus(u[c], 1) ELSE u[c]
    <3>1. y.class \in Classes
      BY <1>0, <1>1, Zenon DEF IsMap, Execution
    <3>2. /\ Linked(F, X) /\ e \in DOMAIN X /\ Y[e].released /\ ~X[e].released
          /\ \A d \in DOMAIN X : d # e => (Y[d].released <=> X[d].released)
      BY <1>0, <1>1, <1>3, <1>4, <2>2, Zenon
    <3>a. ASSUME NEW c
          PROVE  /\ Holders(F, Y, c) = Holders(F, X, c) \ {y.offer}
                 /\ y.offer \in Holders(F, X, c) <=> c = y.class
      <4>1. Holders(F, Y, c) = Holders(F, X, c) \ {X[e].offer}
        BY <3>2, SlotFreed
      <4>2. X[e].offer \in Holders(F, X, c) <=> c = X[e].class
        BY <3>2, SlotFreed, Z3T(30)
      <4> QED
        BY <1>1, <4>1, <4>2, Zenon
    <3>3. \A c \in Classes \ {y.class} : Holders(F, Y, c) = Holders(F, X, c)
      BY <3>a, Z3T(30)
    <3> QED
      BY <1>0, <2>2, <3>1, <3>a, <3>3, SlotReturned, Z3T(30)
  <2> QED
    BY <1>2, <2>1, <2>2, Zenon
<1>8. GoodMemory(n)
  BY <1>0, <1>6, <1>7, Zenon DEF GoodMemory, F, Y, v
<1> QED
  BY <1>3, <1>4, <1>8, Zenon DEF Keeps, X, Y

-----------------------------------------------------------------------------
(* The operations that make and change records.                            *)

\* A record of a good memory.
LEMMA ExecutionOf ==
    ASSUME NEW s, GoodMemory(s), NEW e \in DOMAIN s.executions, NEW y, y = s.executions[e]
    PROVE  IsMemory(s) /\ y \in Execution /\ (Terminal(y.phase) <=> y.released)
<1> DEFINE X == s.executions
           F == s.offers
<1>1. IsMemory(s) /\ IsMap(X, ExecutionIds, Execution) /\ Linked(F, X) /\ e \in DOMAIN X
      /\ y = X[e]
  BY Zenon DEF GoodMemory, IsMemory
<1> HIDE DEF X, F
<1> QED
  BY <1>1 DEF IsMap, Linked

\* A transition from one phase to another, neither of them terminal.
LEMMA SetPhaseGood ==
    ASSUME Counting, NEW s, GoodMemory(s), NEW e \in DOMAIN s.executions,
           ~Terminal(s.executions[e].phase), NEW phase \in Phases, ~Terminal(phase),
           NEW leaseExpired \in BOOLEAN
    PROVE  Keeps(s, SetPhase(s, e, phase, leaseExpired))
<1> DEFINE n == SetPhase(s, e, phase, leaseExpired)
           y == s.executions[e]
           x == Transition(y, phase, leaseExpired)
<1>1. IsMemory(s) /\ y \in Execution /\ ~y.released
  BY ExecutionOf, Zenon
<1>2. n = [s EXCEPT !.executions = [s.executions EXCEPT ![e] = x]]
  BY Zenon DEF SetPhase
<1> HIDE DEF y
<1>3. x \in Execution /\ x.phase = phase /\ x.offer = y.offer /\ x.client = y.client
      /\ x.request = y.request /\ x.class = y.class /\ (x.released <=> y.released)
  BY <1>1, TransitionTyped
<1> HIDE DEF x, n
<1>4. /\ n.offers = s.offers /\ n.requests = s.requests /\ n.used = s.used
      /\ n.entries = s.entries /\ n.tombstones = s.tombstones
      /\ n.executions = [s.executions EXCEPT ![e] = x]
      /\ IsMemory(n)
  BY <1>1, <1>2, <1>3, Zenon DEF IsMemory, IsRecord, IsMap
<1> QED
  BY <1>1, <1>3, <1>4, TransitionGood, Z3T(30) DEF y, n

\* finishLocked returns the slot of the execution it ends, once.
LEMMA FinishGood ==
    ASSUME Counting, NEW s, GoodMemory(s), clock \in Nat, NEW e \in DOMAIN s.executions,
           NEW phase \in TerminalPhases,
           NEW leaseExpired \in BOOLEAN
    PROVE  Keeps(s, Finish(s, e, phase, leaseExpired))
<1> DEFINE n == Finish(s, e, phase, leaseExpired)
           y == s.executions[e]
           until == Later(clock, s.highWater) + Retention
           x == Ended(y, phase, leaseExpired, until)
           f == [s EXCEPT !.executions = [s.executions EXCEPT ![e] = x]]
<1>1. IsMemory(s) /\ y \in Execution /\ s.highWater \in Nat
  BY Zenon DEF GoodMemory, IsMemory, IsMap
<1>2. until \in Nat /\ phase \in Phases
  BY <1>1, ConstantsAssumption, Z3T(30) DEF Later, Phases
<1>3. n = IF y.released THEN f ELSE Release(f, y.class, 1)
  BY Zenon DEF Finish
<1> HIDE DEF until, y
<1>4. x \in Execution /\ x.phase = phase /\ x.offer = y.offer /\ x.client = y.client
      /\ x.request = y.request /\ x.class = y.class /\ x.released
  BY <1>1, <1>2, EndedTyped
<1>5. y.released \in BOOLEAN /\ y.class \in Classes
  BY <1>1, Zenon DEF Execution
<1> HIDE DEF x, n
<1>6. /\ f.offers = s.offers /\ f.requests = s.requests
      /\ f.entries = s.entries /\ f.tombstones = s.tombstones
      /\ f.executions = [s.executions EXCEPT ![e] = x]
      /\ f.used = s.used /\ f.highWater = s.highWater /\ IsRecord(f, DOMAIN s)
      /\ "used" \in DOMAIN f
  BY <1>1, Zenon DEF IsMemory, IsRecord
<1> HIDE DEF f
<1>7. /\ n.offers = s.offers /\ n.requests = s.requests
      /\ n.entries = s.entries /\ n.tombstones = s.tombstones
      /\ n.executions = [s.executions EXCEPT ![e] = x]
      /\ n.highWater = s.highWater
      /\ IsRecord(n, DOMAIN s)
      /\ n.used = IF y.released THEN s.used ELSE [s.used EXCEPT ![y.class] = Monus(@, 1)]
  BY <1>3, <1>6 DEF Release, IsRecord
<1>8. /\ n.used \in [Classes -> Nat]
      /\ ~y.released => \A c \in Classes :
            n.used[c] = IF c = y.class THEN Monus(s.used[c], 1) ELSE s.used[c]
      /\ y.released => n.used = s.used
  BY <1>1, <1>5, <1>7, Z3T(30) DEF IsMemory, Monus
<1>9. IsMemory(n)
  BY <1>1, <1>4, <1>7, <1>8 DEF IsMemory, IsRecord, IsMap
<1>10. CASE y.released
  <2>1. x.released <=> y.released
    BY <1>4, <1>10, Zenon
  <2> QED
    BY <1>4, <1>7, <1>8, <1>9, <1>10, <2>1, TransitionGood, Z3T(30) DEF y, n
<1>11. CASE ~y.released
  BY <1>4, <1>7, <1>8, <1>9, <1>11, TransitionGood, Z3T(30) DEF y, n
<1> QED
  BY <1>5, <1>10, <1>11, Zenon

-----------------------------------------------------------------------------
(* The removal of records, a snapshot and its loading.                     *)

\* Sweep drops whole requests, none of which holds a slot.
LEMMA RetireGood ==
    ASSUME NEW s, GoodMemory(s), NEW X, X = Collectable(s)
    PROVE  /\ GoodMemory(Retire(s, X))
           /\ Retire(s, X).entries = s.entries
           /\ DOMAIN Retire(s, X).offers \subseteq DOMAIN s.offers
           /\ DOMAIN Retire(s, X).executions \subseteq DOMAIN s.executions
           /\ \A e \in DOMAIN s.executions : Key(s.executions[e]) \in Busy(s) =>
                /\ e \in DOMAIN Retire(s, X).executions
                /\ Retire(s, X).executions[e] = s.executions[e]
<1> DEFINE n == Retire(s, X)
           R == {Key(s.offers[o]) : o \in X}
           E == {s.offers[o].execution : o \in X}
           dead(o) == [client |-> s.offers[o].client, request |-> s.offers[o].request,
                       execution |-> s.offers[o].execution,
                       expiresAt |-> s.highWater + CommandHorizon,
                       cleanupPending |-> s.offers[o].execution # NoExecution]
<1>0. /\ IsMemory(s) /\ Linked(s.offers, s.executions)
      /\ Indexed(s.offers, s.requests) /\ Accounted(s.used, s.offers, s.executions)
  BY Zenon DEF GoodMemory
<1>1. X \subseteq DOMAIN s.offers /\ DOMAIN s.offers \subseteq OfferIds
      /\ \A o \in DOMAIN s.offers : s.offers[o] \in Offer
  BY <1>0, Zenon DEF Collectable, IsMemory, IsMap
<1>2. /\ n.offers = Drop(s.offers, X) /\ n.requests = Drop(s.requests, R)
      /\ n.executions = Drop(s.executions, E)
      /\ n.tombstones = [o \in DOMAIN s.tombstones \cup X |->
                            IF o \in X THEN dead(o) ELSE s.tombstones[o]]
      /\ n.used = s.used /\ n.entries = s.entries /\ n.highWater = s.highWater
      /\ IsRecord(n, DOMAIN s)
  BY <1>0, Zenon DEF Retire, IsMemory, IsRecord
<1>3. \A o \in X : dead(o) \in Tombstone
  <2>1. \A x \in Offer : /\ x.client \in Clients /\ x.request \in RequestIds
                         /\ x.execution \in ExecutionIds \cup {NoExecution}
    BY Zenon DEF Offer
  <2>2. s.highWater + CommandHorizon \in Nat
    BY <1>0, ConstantsAssumption, Z3T(30) DEF IsMemory
  <2> TAKE o \in X
  <2>3. s.offers[o] \in Offer
    BY <1>1, Zenon
  <2> QED
    BY <2>1, <2>2, <2>3, Zenon DEF Tombstone
<1> HIDE DEF n, R, E, dead
<1>4. IsMap(n.tombstones, OfferIds, Tombstone)
  BY <1>0, <1>1, <1>2, <1>3, Z3T(30) DEF IsMemory, IsMap
<1>5. /\ IsMap(n.offers, OfferIds, Offer) /\ DOMAIN n.offers = DOMAIN s.offers \ X
      /\ \A o \in DOMAIN s.offers \ X : n.offers[o] = s.offers[o]
  BY <1>0, <1>2, Z3T(30) DEF IsMemory, IsMap, Drop
<1>6. /\ IsMap(n.requests, Clients \X RequestIds, OfferIds)
      /\ DOMAIN n.requests = DOMAIN s.requests \ R
      /\ \A k \in DOMAIN s.requests \ R : n.requests[k] = s.requests[k]
  BY <1>0, <1>2, Z3T(30) DEF IsMemory, IsMap, Drop
<1>7. /\ IsMap(n.executions, ExecutionIds, Execution)
      /\ DOMAIN n.executions = DOMAIN s.executions \ E
      /\ \A e \in DOMAIN s.executions \ E : n.executions[e] = s.executions[e]
  BY <1>0, <1>2, Z3T(30) DEF IsMemory, IsMap, Drop
<1>8. IsMemory(n)
  BY <1>0, <1>2, <1>4, <1>5, <1>6, <1>7, Zenon DEF IsMemory, IsRecord
<1> DEFINE F == s.offers
           G == n.offers
           M == s.executions
           N == n.executions
           Q == s.requests
<1>9. /\ Linked(F, M) /\ Accounted(s.used, F, M) /\ Indexed(F, Q)
      /\ NoExecution \notin DOMAIN M /\ X \subseteq DOMAIN F
      /\ DOMAIN G = DOMAIN F \ X /\ DOMAIN N = DOMAIN M \ E /\ DOMAIN n.requests = DOMAIN Q \ R
      /\ E = {F[o].execution : o \in X} /\ R = {Key(F[o]) : o \in X}
  BY <1>0, <1>1, <1>5, <1>6, <1>7, ConstantsAssumption, Zenon DEF IsMemory, IsMap, E, R
<1>10. \A o \in X : F[o].status # "outstanding" /\ Key(F[o]) \notin Busy(s)
                     /\ (F[o].status = "assigned" => Terminal(M[F[o].execution].phase))
  BY Zenon DEF Collectable
<1>11. /\ \A o \in DOMAIN G : G[o] = F[o]
       /\ \A e \in DOMAIN N : N[e] = M[e]
       /\ \A k \in DOMAIN n.requests : n.requests[k] = Q[k]
  BY <1>5, <1>6, <1>7, Zenon
<1> HIDE DEF F, G, M, N, Q
<1>12. /\ \A e \in DOMAIN M : e \in DOMAIN N <=> M[e].offer \in DOMAIN G
       /\ \A c : Holders(F, M, c) \subseteq DOMAIN G
  <2>1. \A e \in DOMAIN M : e \in E <=> M[e].offer \in X
    BY <1>9, Z3T(30) DEF Linked
  <2>2. \A e \in DOMAIN M : M[e].offer \in DOMAIN F
    BY <1>9, Zenon DEF Linked
  <2>3. \A c : Holders(F, M, c) \cap X = {} /\ Holders(F, M, c) \subseteq DOMAIN F
    BY <1>9, <1>10, Z3T(30) DEF Linked, Holders
  <2> QED
    BY <1>9, <2>1, <2>2, <2>3, Zenon
<1>13. Linked(G, N) /\ \A c : Holders(G, N, c) = Holders(F, M, c)
  <2>1. Linked(F, M) /\ DOMAIN G \subseteq DOMAIN F /\ DOMAIN N \subseteq DOMAIN M
    BY <1>9, Zenon
  <2>2. Linked(G, N)
    BY <1>11, <1>12, <2>1, OffersDropped, Zenon
  <2>3. \A o \in DOMAIN G : F[o].status = "assigned" => F[o].execution \in DOMAIN N
    BY <1>11, <1>12, <2>1, OffersDropped, Zenon
  <2>4. \A c : Holders(G, N, c) = Holders(F, M, c)
    BY <1>11, <1>12, <2>1, <2>3, Z3T(30) DEF Holders
  <2> QED
    BY <2>2, <2>4, Zenon
<1>14. Indexed(G, n.requests)
  <2>1. \A k \in DOMAIN Q : k \in R <=> Q[k] \in X
    BY <1>9, Z3T(30) DEF Indexed
  <2>2. \A k \in DOMAIN Q : Q[k] \in DOMAIN F
    BY <1>9, Zenon DEF Indexed
  <2>3. \A k \in DOMAIN Q : k \in DOMAIN n.requests <=> Q[k] \in DOMAIN G
    BY <1>9, <2>1, <2>2, Zenon
  <2> QED
    BY <1>9, <1>11, <2>3, RequestsDropped, Zenon
<1>15. Accounted(s.used, G, N)
  BY <1>9, <1>13, Zenon DEF Accounted
<1>16. GoodMemory(n)
  BY <1>2, <1>8, <1>13, <1>14, <1>15, Zenon DEF GoodMemory, G, N
<1>17. \A e \in DOMAIN M : Key(M[e]) \in Busy(s) => e \in DOMAIN N /\ N[e] = M[e]
  <2>1. \A e \in DOMAIN M : Key(F[M[e].offer]) = Key(M[e])
    BY <1>9, Zenon DEF Linked
  <2>2. \A e \in DOMAIN M : M[e].offer \in DOMAIN F
    BY <1>9, Zenon DEF Linked
  <2> QED
    BY <1>9, <1>10, <1>11, <1>12, <2>1, <2>2, Zenon
<1> QED
  BY <1>2, <1>5, <1>7, <1>16, <1>17, Zenon DEF n, M, N

\* Sweep drops tombstones and replay entries that are done.
LEMMA BuryGood ==
    ASSUME NEW s, GoodMemory(s)
    PROVE  /\ GoodMemory(Bury(s))
           /\ Bury(s).executions = s.executions
           /\ Bury(s).offers = s.offers
           /\ \A m \in DOMAIN s.entries : ~s.entries[m].done =>
                m \in DOMAIN Bury(s).entries /\ Bury(s).entries[m] = s.entries[m]
<1> DEFINE n == Bury(s)
           T == {o \in DOMAIN s.tombstones :
                    /\ ~s.tombstones[o].cleanupPending
                    /\ s.tombstones[o].expiresAt <= s.highWater}
           retired == {Key(s.tombstones[o]) : o \in DOMAIN s.tombstones}
           E == {m \in DOMAIN s.entries :
                    /\ s.entries[m].done
                    /\ \/ m.kind \in {"request", "assign"} /\ Key(m) \in retired
                       \/ /\ m.kind \in {"cancel", "inspect", "renew"}
                          /\ m.execution \notin DOMAIN s.executions}
<1>1. IsMemory(s)
  BY Zenon DEF GoodMemory
<1>2. /\ n = [s EXCEPT !.tombstones = Drop(s.tombstones, T), !.entries = Drop(s.entries, E)]
      /\ \A m \in E : m \in DOMAIN s.entries /\ s.entries[m].done
  BY Zenon DEF Bury
<1> HIDE DEF n, T, E
<1>3. /\ n.offers = s.offers /\ n.executions = s.executions /\ n.requests = s.requests
      /\ n.used = s.used /\ n.highWater = s.highWater
      /\ n.tombstones = Drop(s.tombstones, T) /\ n.entries = Drop(s.entries, E)
      /\ IsRecord(n, DOMAIN s)
  BY <1>1, <1>2, Zenon DEF IsMemory, IsRecord
<1>4. IsMap(n.tombstones, OfferIds, Tombstone) /\ IsMap(n.entries, Messages, ReplayEntry)
  BY <1>1, <1>3, Z3T(30) DEF IsMemory, IsMap, Drop
<1>5. IsMemory(n)
  BY <1>1, <1>3, <1>4, Zenon DEF IsMemory, IsRecord
<1>6. GoodMemory(n)
  BY <1>3, <1>5, UntouchedGood, Zenon
<1>7. \A m \in DOMAIN s.entries : ~s.entries[m].done =>
        m \in DOMAIN n.entries /\ n.entries[m] = s.entries[m]
  BY <1>2, <1>3 DEF Drop
<1> QED
  BY <1>3, <1>6, <1>7, Zenon DEF n

\* A cleaned tombstone.
LEMMA CleanedGood ==
    ASSUME NEW s, GoodMemory(s), NEW o \in DOMAIN s.tombstones
    PROVE  LET n == [s EXCEPT !.tombstones[o].cleanupPending = FALSE] IN
           /\ GoodMemory(n)
           /\ n.executions = s.executions /\ n.offers = s.offers /\ n.entries = s.entries
           /\ DOMAIN n.tombstones = DOMAIN s.tombstones
<1> DEFINE n == [s EXCEPT !.tombstones[o].cleanupPending = FALSE]
           x == [s.tombstones[o] EXCEPT !.cleanupPending = FALSE]
<1>1. IsMemory(s) /\ s.tombstones[o] \in Tombstone
  BY Zenon DEF GoodMemory, IsMemory, IsMap
<1>2. x \in Tombstone
  BY <1>1, Zenon DEF Tombstone
<1>3. /\ n.offers = s.offers /\ n.executions = s.executions /\ n.requests = s.requests
      /\ n.used = s.used /\ n.highWater = s.highWater /\ n.entries = s.entries
      /\ n.tombstones = [s.tombstones EXCEPT ![o] = x]
      /\ IsRecord(n, DOMAIN s)
  BY <1>1, Zenon DEF IsMemory, IsRecord
<1> HIDE DEF n, x
<1>4. IsMap(n.tombstones, OfferIds, Tombstone) /\ DOMAIN n.tombstones = DOMAIN s.tombstones
  BY <1>1, <1>2, <1>3, Zenon DEF IsMemory, IsMap
<1>5. IsMemory(n)
  BY <1>1, <1>3, <1>4, Zenon DEF IsMemory, IsRecord
<1>6. GoodMemory(n)
  BY <1>3, <1>5, UntouchedGood, Zenon
<1> QED
  BY <1>3, <1>4, <1>6, Zenon DEF n

\* What persistLocked saves of a good memory, loadLocked accepts.
LEMMA SnapshotGood ==
    ASSUME NEW s, GoodMemory(s)
    PROVE  GoodSnapshot(Snapshot(s)) /\ DOMAIN Snapshot(s).offers = DOMAIN s.offers
<1> DEFINE d == Snapshot(s)
           E == {m \in DOMAIN s.entries : ~s.entries[m].done}
<1>1. /\ IsMemory(s) /\ Linked(s.offers, s.executions)
      /\ Indexed(s.offers, s.requests) /\ Accounted(s.used, s.offers, s.executions)
  BY Zenon DEF GoodMemory
<1>2. /\ d.offers = s.offers /\ d.executions = s.executions /\ d.tombstones = s.tombstones
      /\ d.highWater = s.highWater /\ d.entries = Drop(s.entries, E)
      /\ IsRecord(d, {"offers", "executions", "tombstones", "highWater", "entries"})
  BY Zenon DEF Snapshot, IsRecord
<1> HIDE DEF d
<1>3. IsMap(d.entries, Messages, ReplayEntry)
  BY <1>1, <1>2, Z3T(30) DEF IsMemory, IsMap, Drop
<1>4. IsSnapshot(d)
  BY <1>1, <1>2, <1>3, Zenon DEF IsMemory, IsSnapshot
<1>5. \A o, p \in DOMAIN s.offers : Key(s.offers[o]) = Key(s.offers[p]) => o = p
  BY <1>1, Zenon DEF Indexed
<1>6. \A c \in Classes : Cardinality(Holders(s.offers, s.executions, c)) <= Limit[c]
  BY <1>1, Zenon DEF Accounted
<1> QED
  BY <1>1, <1>2, <1>4, <1>5, <1>6, Zenon DEF GoodSnapshot, d

\* loadLocked rebuilds a good memory from a good snapshot.
LEMMA LoadGood ==
    ASSUME Counting, NEW d, GoodSnapshot(d), NEW t \in Nat
    PROVE  /\ GoodMemory(Load(d, t))
           /\ DOMAIN Load(d, t).offers = DOMAIN d.offers
<1> DEFINE F == d.offers
           X == d.executions
           K == {Key(F[o]) : o \in DOMAIN F}
           index == [k \in K |-> CHOOSE o \in DOMAIN F : Key(F[o]) = k]
           r == [offers |-> F, executions |-> X, requests |-> index,
                 tombstones |-> d.tombstones, used |-> [c \in Classes |-> 0],
                 highWater |-> d.highWater, entries |-> d.entries]
           s == ExpireOffers(r, t)
           H(c) == Holders(s.offers, s.executions, c)
           n == [s EXCEPT !.used = [c \in Classes |-> Cardinality(H(c))]]
<1>0. /\ IsSnapshot(d) /\ Linked(F, X)
      /\ \A o, p \in DOMAIN F : Key(F[o]) = Key(F[p]) => o = p
      /\ \A c \in Classes : Cardinality(Holders(F, X, c)) <= Limit[c]
  BY Zenon DEF GoodSnapshot
<1>1. n = Load(d, t)
  BY Zenon DEF Load
<1>2. /\ r.offers = F /\ r.executions = X /\ r.requests = index
      /\ r.tombstones = d.tombstones /\ r.highWater = d.highWater /\ r.entries = d.entries
      /\ r.used = [c \in Classes |-> 0]
      /\ IsRecord(r, {"offers", "requests", "executions", "tombstones", "used", "highWater",
                      "entries"})
  BY Zenon DEF IsRecord
<1>3. IsMap(F, OfferIds, Offer)
  BY <1>0, Zenon DEF IsSnapshot
<1> HIDE DEF r, F, X
<1>4. Indexed(F, index) /\ IsMap(index, Clients \X RequestIds, OfferIds)
  <2>1. \A k \in K : index[k] \in DOMAIN F /\ Key(F[index[k]]) = k
    OBVIOUS
  <2>2. DOMAIN index = K /\ \A o \in DOMAIN F : Key(F[o]) \in K
    OBVIOUS
  <2>3. \A o \in DOMAIN F : Key(F[o]) \in Clients \X RequestIds /\ o \in OfferIds
    BY <1>3, Zenon DEF IsMap, Offer, Key
  <2>4. K \subseteq Clients \X RequestIds
    BY <2>3, Zenon
  <2>5. index = [k \in K |-> index[k]]
    OBVIOUS
  <2> HIDE DEF index, K
  <2>6. Indexed(F, index)
    BY <1>0, <2>1, <2>2, Zenon DEF Indexed
  <2>7. IsMap(index, Clients \X RequestIds, OfferIds)
    BY <2>1, <2>2, <2>3, <2>4, <2>5, Zenon DEF IsMap
  <2> QED
    BY <2>6, <2>7, Zenon
<1> HIDE DEF index, K
<1>5. IsMemory(r)
  <2>1. r.used \in [Classes -> Nat]
    BY <1>2
  <2> QED
    BY <1>0, <1>2, <1>4, <2>1, Zenon DEF IsMemory, IsSnapshot, F, X
<1>6. Linked(r.offers, r.executions) /\ Indexed(r.offers, r.requests)
  BY <1>0, <1>2, <1>4, Zenon
<1>7. IsMemory(s) /\ DOMAIN s.offers = DOMAIN F
  BY <1>2, <1>5, ExpireTyped, Zenon
<1> HIDE DEF r, s
<1>8. /\ Linked(s.offers, s.executions) /\ Indexed(s.offers, s.requests)
      /\ \A c : H(c) \subseteq Holders(F, X, c)
  <2>1. s = ExpireOffers(r, t)
    BY Zenon DEF s
  <2>2. Linked(s.offers, s.executions) /\ Indexed(s.offers, s.requests)
    BY <1>5, <1>6, <2>1, ExpireLinked, Zenon
  <2>3. \A c : H(c) \subseteq Holders(r.offers, r.executions, c)
    <3>1. \A c : LET stale == {o \in StaleOffers(r, t) : r.offers[o].class = c}
                     held == Holders(r.offers, r.executions, c)
                 IN  H(c) = held \ stale /\ held \cap stale = stale
      BY <1>5, <1>6, <2>1, ExpireLinked
    <3> QED
      BY <3>1, Zenon
  <2> QED
    BY <1>2, <2>2, <2>3, Zenon
<1>9. IsMap(s.offers, OfferIds, Offer)
  BY <1>7, Zenon DEF IsMemory
<1>10. \A c \in Classes : Cardinality(H(c)) \in Nat /\ Cardinality(H(c)) <= Limit[c]
  <2> TAKE c \in Classes
  <2>1. IsFiniteSet(Holders(F, X, c)) /\ Cardinality(Holders(F, X, c)) \in Nat
    BY <1>3, HoldersFinite, Zenon
  <2>2. Cardinality(H(c)) \in Nat
    BY <1>9, HoldersFinite, Zenon
  <2> HIDE DEF H
  <2>3. Cardinality(H(c)) <= Cardinality(Holders(F, X, c))
    BY <1>8, <2>1, Zenon DEF Counting, SubsetsAreSmaller
  <2>4. Limit[c] \in Nat
    BY ConstantsAssumption, Zenon
  <2> QED
    BY <1>0, <2>1, <2>2, <2>3, <2>4
<1> HIDE DEF H
<1>11. /\ n.offers = s.offers /\ n.executions = s.executions /\ n.requests = s.requests
       /\ n.tombstones = s.tombstones /\ n.highWater = s.highWater /\ n.entries = s.entries
       /\ n.used = [c \in Classes |-> Cardinality(H(c))]
       /\ IsRecord(n, DOMAIN s)
  BY <1>7, Zenon DEF IsMemory, IsRecord
<1> HIDE DEF n
<1>12. n.used \in [Classes -> Nat] /\ \A c \in Classes : n.used[c] = Cardinality(H(c))
  BY <1>10, <1>11, Zenon
<1>13. IsMemory(n)
  BY <1>7, <1>11, <1>12, Zenon DEF IsMemory, IsRecord
<1>14. Accounted(n.used, s.offers, s.executions)
  BY <1>10, <1>12, Zenon DEF Accounted, H
<1>15. GoodMemory(n)
  BY <1>8, <1>11, <1>13, <1>14, Zenon DEF GoodMemory
<1> QED
  BY <1>1, <1>7, <1>11, <1>15, Zenon DEF F

\* The memory of a daemon that is down.
LEMMA EmptyGood ==
    ASSUME Counting
    PROVE  GoodMemory(Empty) /\ Empty.entries = EmptyMap /\ DOMAIN Empty.offers = {}
<1>1. DOMAIN EmptyMap = {} /\ \A S, T : IsMap(EmptyMap, S, T)
  BY Zenon DEF EmptyMap, IsMap
<1>2. /\ Empty.offers = EmptyMap /\ Empty.requests = EmptyMap /\ Empty.executions = EmptyMap
      /\ Empty.tombstones = EmptyMap /\ Empty.entries = EmptyMap
      /\ Empty.used = [c \in Classes |-> 0] /\ Empty.highWater = 0
      /\ IsRecord(Empty, {"offers", "requests", "executions", "tombstones", "used", "highWater",
                          "entries"})
  BY Zenon DEF Empty, IsRecord
<1>3. Empty.used \in [Classes -> Nat] /\ \A c \in Classes : Empty.used[c] = 0
  BY <1>2, Z3T(30)
<1>4. IsMemory(Empty)
  BY <1>1, <1>2, <1>3, Z3T(30) DEF IsMemory
<1>5. Linked(EmptyMap, EmptyMap) /\ Indexed(EmptyMap, EmptyMap)
  BY <1>1, Zenon DEF Linked, Indexed
<1>6. \A c : Holders(EmptyMap, EmptyMap, c) = {}
  BY <1>1, Zenon DEF Holders
<1>7. \A c \in Classes : 0 = Cardinality({}) /\ 0 <= Limit[c]
  BY ConstantsAssumption DEF Counting
<1>8. Accounted(Empty.used, EmptyMap, EmptyMap)
  BY <1>3, <1>6, <1>7, Zenon DEF Accounted
<1> QED
  BY <1>1, <1>2, <1>4, <1>5, <1>8, Zenon DEF GoodMemory

-----------------------------------------------------------------------------
(* The operations.                                                         *)

\* A new offer is not linked to an execution, and takes a slot.
LEMMA OfferAdded ==
    ASSUME NEW F, NEW G, NEW X, NEW o, Linked(F, X), o \notin DOMAIN F,
           DOMAIN G = DOMAIN F \cup {o}, \A p \in DOMAIN F : G[p] = F[p],
           G[o].status = "outstanding", G[o].execution = NoExecution
    PROVE  /\ Linked(G, X)
           /\ \A c : Holders(G, X, c) =
                IF c = G[o].class THEN Holders(F, X, c) \cup {o} ELSE Holders(F, X, c)
           /\ \A c : o \notin Holders(F, X, c)
<1>1. Linked(G, X)
  BY DEF Linked
<1>2. \A c : o \notin Holders(F, X, c)
  BY Zenon DEF Holders
<1>3. \A c : Holders(G, X, c) =
        IF c = G[o].class THEN Holders(F, X, c) \cup {o} ELSE Holders(F, X, c)
  BY Zenon DEF Holders
<1> QED
  BY <1>1, <1>2, <1>3, Zenon

\* A new offer is found by its key.
LEMMA OfferIndexed ==
    ASSUME NEW F, NEW G, NEW R, NEW Q, NEW o, NEW k,
           Indexed(F, R), o \notin DOMAIN F, k \notin DOMAIN R,
           DOMAIN G = DOMAIN F \cup {o}, \A p \in DOMAIN F : G[p] = F[p],
           DOMAIN Q = DOMAIN R \cup {k}, \A r \in DOMAIN R : Q[r] = R[r], Q[k] = o,
           Key(G[o]) = k
    PROVE  Indexed(G, Q)
  BY DEF Indexed

\* G and Y are F and X after outstanding offer o has become the live execution e.
AssignsOffer(F, G, X, Y, o, e) ==
    /\ o \in DOMAIN F /\ e \notin DOMAIN X /\ F[o].status = "outstanding"
    /\ DOMAIN G = DOMAIN F /\ \A p \in DOMAIN F : p # o => G[p] = F[p]
    /\ DOMAIN Y = DOMAIN X \cup {e} /\ \A d \in DOMAIN X : Y[d] = X[d]
    /\ G[o].status = "assigned" /\ G[o].execution = e /\ G[o].class = F[o].class
    /\ Key(G[o]) = Key(F[o]) /\ Y[e].offer = o /\ Y[e].class = F[o].class
    /\ Key(Y[e]) = Key(F[o]) /\ ~Terminal(Y[e].phase) /\ ~Y[e].released

\* An offer is assigned, and passes its slot on to the new execution.
LEMMA OfferAssigned ==
    ASSUME NEW F, NEW G, NEW X, NEW Y, NEW R, NEW o, NEW e,
           AssignsOffer(F, G, X, Y, o, e), Linked(F, X), Indexed(F, R)
    PROVE  /\ Linked(G, Y) /\ Indexed(G, R)
           /\ \A c : Holders(G, Y, c) = Holders(F, X, c)
<1>1. /\ \A d \in DOMAIN X : X[d].offer \in DOMAIN F /\ X[d].offer # o
      /\ \A p \in DOMAIN F : F[p].status = "assigned" => F[p].execution \in DOMAIN X /\ p # o
  BY Zenon DEF Linked, AssignsOffer
<1>2. Linked(G, Y)
  BY <1>1 DEF Linked, AssignsOffer
<1>3. Indexed(G, R)
  BY DEF Indexed, AssignsOffer
<1>4. \A c : Holders(G, Y, c) = Holders(F, X, c)
  BY <1>1 DEF Holders, AssignsOffer
<1> QED
  BY <1>2, <1>3, <1>4, Zenon

\* handleRequest takes a slot for the new offer o.
LEMMA MakeOfferGood ==
    ASSUME Counting, NEW s, GoodMemory(s), clock \in Nat, NEW m \in Messages, NEW o \in OfferIds,
           o \notin DOMAIN s.offers, Offerable(s, m)
    PROVE  /\ GoodMemory(MakeOffer(s, m, o))
           /\ MakeOffer(s, m, o).executions = s.executions
           /\ MakeOffer(s, m, o).tombstones = s.tombstones
           /\ MakeOffer(s, m, o).entries = s.entries
           /\ DOMAIN MakeOffer(s, m, o).offers = DOMAIN s.offers \cup {o}
<1> DEFINE n == MakeOffer(s, m, o)
           f == [status |-> "outstanding", client |-> m.client, request |-> m.request,
                 class |-> m.class, expiresAt |-> clock + OfferTTL, execution |-> NoExecution]
           k == m.class
<1>0. /\ IsMemory(s) /\ Linked(s.offers, s.executions)
      /\ Indexed(s.offers, s.requests) /\ Accounted(s.used, s.offers, s.executions)
  BY Zenon DEF GoodMemory
<1>1. m.client \in Clients /\ m.request \in RequestIds /\ k \in Classes
  BY ConstantsAssumption, Zenon DEF Message
<1>2. f \in Offer
  BY <1>1, ConstantsAssumption DEF Offer, Statuses
<1>3. f.status = "outstanding" /\ f.class = k /\ f.execution = NoExecution /\ Key(f) = Key(m)
  BY Zenon DEF Key
<1>4. Key(m) \in Clients \X RequestIds /\ Key(m) \notin DOMAIN s.requests
  BY <1>1, Zenon DEF Key, Offerable
<1>5. /\ n.offers = Put(s.offers, o, f) /\ n.requests = Put(s.requests, Key(m), o)
      /\ n.used = [s.used EXCEPT ![k] = @ + 1]
      /\ n.executions = s.executions /\ n.tombstones = s.tombstones
      /\ n.entries = s.entries /\ n.highWater = s.highWater /\ IsRecord(n, DOMAIN s)
  BY <1>0, Zenon DEF MakeOffer, IsMemory, IsRecord
<1> HIDE DEF f, n
<1>6. IsMap(n.offers, OfferIds, Offer) /\ DOMAIN n.offers = DOMAIN s.offers \cup {o}
      /\ n.offers[o] = f /\ \A p \in DOMAIN s.offers : n.offers[p] = s.offers[p]
  BY <1>0, <1>2, <1>5 DEF IsMemory, IsMap, Put
<1>7. IsMap(n.requests, Clients \X RequestIds, OfferIds)
      /\ DOMAIN n.requests = DOMAIN s.requests \cup {Key(m)} /\ n.requests[Key(m)] = o
      /\ \A r \in DOMAIN s.requests : n.requests[r] = s.requests[r]
  BY <1>0, <1>4, <1>5, Z3T(30) DEF IsMemory, IsMap, Put
<1>8. n.used \in [Classes -> Nat] /\ n.used[k] = s.used[k] + 1
      /\ \A c \in Classes \ {k} : n.used[c] = s.used[c]
  BY <1>0, <1>1, <1>5, Z3T(30) DEF IsMemory
<1>9. IsMemory(n)
  BY <1>0, <1>5, <1>6, <1>7, <1>8, Zenon DEF IsMemory, IsRecord
<1> DEFINE F == s.offers
           G == n.offers
           X == s.executions
           H(c) == Holders(F, X, c)
           N(c) == Holders(G, X, c)
<1>10. /\ Linked(G, X) /\ Indexed(G, n.requests)
       /\ N(k) = H(k) \cup {o} /\ o \notin H(k)
       /\ \A c \in Classes : c # k => N(c) = H(c)
  <2>1. /\ Linked(F, X) /\ Indexed(F, s.requests) /\ o \notin DOMAIN F
        /\ DOMAIN G = DOMAIN F \cup {o} /\ \A p \in DOMAIN F : G[p] = F[p]
        /\ Key(G[o]) = Key(m) /\ G[o].status = "outstanding" /\ G[o].execution = NoExecution
        /\ G[o].class = k
    BY <1>0, <1>3, <1>6, Zenon
  <2> DEFINE R == s.requests
             Q == n.requests
  <2>2. /\ Indexed(F, R) /\ Key(m) \notin DOMAIN R /\ DOMAIN Q = DOMAIN R \cup {Key(m)}
        /\ Q[Key(m)] = o /\ \A r \in DOMAIN R : Q[r] = R[r]
    BY <1>4, <1>7, <2>1, Zenon
  <2> HIDE DEF F, G, X, R, Q
  <2>3. /\ Linked(G, X)
        /\ \A c : Holders(G, X, c) =
                IF c = G[o].class THEN Holders(F, X, c) \cup {o} ELSE Holders(F, X, c)
        /\ \A c : o \notin Holders(F, X, c)
    BY <2>1, OfferAdded, Zenon
  <2>4. Indexed(G, Q)
    BY <2>1, <2>2, OfferIndexed, Z3T(30)
  <2> QED
    BY <2>1, <2>3, <2>4, Zenon DEF Q
<1>11. \A c \in Classes : s.used[c] = Cardinality(H(c)) /\ s.used[c] <= Limit[c]
  BY <1>0, Zenon DEF Accounted
<1>12. IsFiniteSet(H(k)) /\ Cardinality(H(k)) \in Nat
  BY <1>0, HoldersFinite, Zenon DEF IsMemory
<1>13. s.used[k] < Limit[k] /\ Limit[k] \in Nat
  BY <1>1, ConstantsAssumption, Zenon DEF Offerable
<1> HIDE DEF F, G, X, H, N
<1>14. n.used[k] = Cardinality(N(k)) /\ n.used[k] <= Limit[k]
  <2>1. Cardinality(H(k) \cup {o}) = Cardinality(H(k)) + 1
    BY <1>10, <1>12, Zenon DEF Counting, AddingCounts
  <2> QED
    BY <1>1, <1>8, <1>10, <1>11, <1>12, <1>13, <2>1, Z3T(30)
<1>15. ASSUME NEW c \in Classes, c # k
       PROVE  n.used[c] = Cardinality(N(c)) /\ n.used[c] <= Limit[c]
  BY <1>8, <1>10, <1>11, <1>15, Zenon
<1>16. \A c \in Classes : n.used[c] = Cardinality(N(c)) /\ n.used[c] <= Limit[c]
  BY <1>14, <1>15, Zenon
<1>17. Accounted(n.used, n.offers, n.executions)
  BY <1>5, <1>16, Zenon DEF Accounted, N, G, X
<1> QED
  BY <1>5, <1>6, <1>9, <1>10, <1>17, Zenon DEF GoodMemory, n, G, X

\* handleOfferRelease gives the slot of an outstanding offer back.
LEMMA ReleaseGood ==
    ASSUME Counting,
           NEW s, GoodMemory(s), NEW o \in DOMAIN s.offers, s.offers[o].status = "outstanding",
           NEW status \in {"expired", "released"}
    PROVE  Keeps(s, Release([s EXCEPT !.offers[o].status = status], s.offers[o].class, 1))
<1> DEFINE f == [s.offers[o] EXCEPT !.status = status]
           k == s.offers[o].class
           n == Release([s EXCEPT !.offers[o].status = status], k, 1)
<1>0. /\ IsMemory(s) /\ Linked(s.offers, s.executions)
      /\ Indexed(s.offers, s.requests) /\ Accounted(s.used, s.offers, s.executions)
  BY Zenon DEF GoodMemory
<1>1. s.offers[o] \in Offer
  BY <1>0, Zenon DEF IsMemory, IsMap
<1>2. /\ f \in Offer /\ f.status = status /\ f.class = k /\ f.client = s.offers[o].client
      /\ f.request = s.offers[o].request /\ f.execution = s.offers[o].execution /\ k \in Classes
  BY <1>1, Zenon DEF Offer, Statuses
<1>3. /\ n.offers = [s.offers EXCEPT ![o] = f] /\ n.used = [s.used EXCEPT ![k] = Monus(@, 1)]
      /\ n.executions = s.executions /\ n.requests = s.requests /\ n.tombstones = s.tombstones
      /\ n.entries = s.entries /\ n.highWater = s.highWater /\ IsRecord(n, DOMAIN s)
  BY <1>0, Zenon DEF Release, IsMemory, IsRecord
<1> HIDE DEF f, n
<1>4. DOMAIN n.offers = DOMAIN s.offers /\ n.offers[o] = f
      /\ \A p \in DOMAIN s.offers : p # o => n.offers[p] = s.offers[p]
  BY <1>3, Zenon
<1>5. IsMap(n.offers, OfferIds, Offer)
  <2>1. DOMAIN s.offers \subseteq OfferIds /\ s.offers \in [DOMAIN s.offers -> Offer]
    BY <1>0, Zenon DEF IsMemory, IsMap
  <2> QED
    BY <1>2, <1>3, <1>4, <2>1, Zenon DEF IsMap
<1>6. n.used \in [Classes -> Nat]
      /\ \A c \in Classes : n.used[c] = IF c = k THEN Monus(s.used[c], 1) ELSE s.used[c]
  <2>1. s.used \in [Classes -> Nat]
    BY <1>0, Zenon DEF IsMemory
  <2>2. Monus(s.used[k], 1) \in Nat
    BY <1>2, <2>1, Z3T(30) DEF Monus
  <2> QED
    BY <1>2, <1>3, <2>1, <2>2, Zenon
<1>7. IsMemory(n)
  BY <1>0, <1>3, <1>5, <1>6, Zenon DEF IsMemory, IsRecord
<1> DEFINE F == s.offers
           G == n.offers
           X == s.executions
<1>8. /\ Linked(F, X) /\ Indexed(F, s.requests) /\ o \in DOMAIN F
      /\ F[o].status = "outstanding" /\ F[o].class = k /\ IsMap(F, OfferIds, Offer)
      /\ DOMAIN G = DOMAIN F /\ \A p \in DOMAIN F : p # o => G[p] = F[p]
      /\ G[o].status # "outstanding" /\ G[o].status # "assigned" /\ G[o].class = F[o].class
      /\ G[o].execution = F[o].execution /\ Key(G[o]) = Key(F[o])
  BY <1>0, <1>2, <1>4, Zenon DEF Key, IsMemory
<1> HIDE DEF F, G, X
<1>9. Linked(G, X) /\ Indexed(G, s.requests)
  <2>1. \A p \in DOMAIN F :
            /\ G[p].class = F[p].class
            /\ G[p].execution = F[p].execution
            /\ Key(G[p]) = Key(F[p])
            /\ G[p].status = "assigned" <=> F[p].status = "assigned"
    BY <1>8, Zenon
  <2> QED
    BY <1>8, <2>1, OffersUpdated, Z3T(30)
<1>10. Accounted(n.used, G, X)
  <2>1. o \in Holders(F, X, k) /\ Holders(G, X, k) = Holders(F, X, k) \ {o}
    BY <1>8, Zenon DEF Holders
  <2>2. \A c \in Classes \ {k} : Holders(G, X, c) = Holders(F, X, c)
    BY <1>8, Zenon DEF Holders
  <2>3. Accounted(s.used, F, X)
    BY <1>0, Zenon DEF F, X
  <2> QED
    BY <1>2, <1>6, <1>8, <2>1, <2>2, <2>3, SlotReturned, Z3T(30)
<1>11. GoodMemory(n)
  BY <1>3, <1>7, <1>9, <1>10, Zenon DEF GoodMemory, G, X
<1> QED
  BY <1>3, <1>4, <1>11, Zenon DEF Keeps, n

\* handleAssign passes the slot of the offer on to the new execution.
LEMMA MakeExecutionGood ==
    ASSUME NEW s, GoodMemory(s), clock \in Nat, NEW m \in Messages, m.kind = "assign",
           Assignable(s, m)
    PROVE  /\ Keeps(s, MakeExecution(s, m))
           /\ m.execution \in DOMAIN MakeExecution(s, m).executions
           /\ MakeExecution(s, m).executions[m.execution].client = m.client
           /\ MakeExecution(s, m).executions[m.execution].request = m.request
           /\ MakeExecution(s, m).executions[m.execution].offer = m.offer
<1> DEFINE n == MakeExecution(s, m)
           e == m.execution
           o == m.offer
           f == [s.offers[o] EXCEPT !.status = "assigned", !.execution = e]
           x == [phase |-> "starting", leaseExpired |-> FALSE, offer |-> o,
                 client |-> m.client, request |-> m.request, class |-> s.offers[o].class,
                 released |-> FALSE, revision |-> 1, retainUntil |-> 0,
                 leaseUntil |-> clock + LeaseTTL]
<1>0. /\ IsMemory(s) /\ Linked(s.offers, s.executions)
      /\ Indexed(s.offers, s.requests) /\ Accounted(s.used, s.offers, s.executions)
  BY Zenon DEF GoodMemory
<1>1. /\ o \in DOMAIN s.offers /\ s.offers[o] \in Offer /\ o \in OfferIds
      /\ s.offers[o].client = m.client /\ s.offers[o].request = m.request
      /\ s.offers[o].status = "outstanding" /\ e \notin DOMAIN s.executions
  BY <1>0, Zenon DEF Assignable, IsMemory, IsMap, Key
<1>2. m.client \in Clients /\ m.request \in RequestIds /\ e \in ExecutionIds
      /\ s.offers[o].class \in Classes
  BY <1>1, ConstantsAssumption, MessagesAssumption, Zenon DEF Message, Offer
<1>3. clock + LeaseTTL \in Nat
  BY ConstantsAssumption
<1>4. x \in Execution /\ x.offer = o /\ x.client = m.client /\ x.request = m.request
      /\ x.class = s.offers[o].class /\ ~x.released /\ x.phase = "starting"
  BY <1>1, <1>2, <1>3, Zenon DEF Execution, Phases
<1>5. /\ f \in Offer /\ f.status = "assigned" /\ f.execution = e /\ f.class = s.offers[o].class
      /\ f.client = m.client /\ f.request = m.request
  BY <1>1, <1>2, Zenon DEF Offer, Statuses
<1>6. /\ n.offers = [s.offers EXCEPT ![o] = f] /\ n.executions = Put(s.executions, e, x)
      /\ n.requests = s.requests /\ n.tombstones = s.tombstones /\ n.used = s.used
      /\ n.entries = s.entries /\ n.highWater = s.highWater /\ IsRecord(n, DOMAIN s)
  BY <1>0, Zenon DEF MakeExecution, IsMemory, IsRecord
<1> HIDE DEF f, x, n, e, o
<1>7. DOMAIN n.offers = DOMAIN s.offers /\ n.offers[o] = f
      /\ \A p \in DOMAIN s.offers : p # o => n.offers[p] = s.offers[p]
  BY <1>0, <1>1, <1>5, <1>6, Zenon DEF IsMemory, IsMap
<1>8. DOMAIN n.executions = DOMAIN s.executions \cup {e} /\ n.executions[e] = x
      /\ \A d \in DOMAIN s.executions : n.executions[d] = s.executions[d]
  BY <1>0, <1>1, <1>2, <1>4, <1>6, Zenon DEF IsMemory, IsMap, Put
<1>9. IsMemory(n)
  <2>1. n.used \in [Classes -> Nat] /\ n.highWater \in Nat
    BY <1>0, <1>6, Zenon DEF IsMemory
  <2>2. /\ IsMap(n.requests, Clients \X RequestIds, OfferIds)
        /\ IsMap(n.tombstones, OfferIds, Tombstone)
        /\ IsMap(n.entries, Messages, ReplayEntry)
    BY <1>0, <1>6, Zenon DEF IsMemory
  <2>3. IsRecord(n, {"offers", "requests", "executions", "tombstones", "used", "highWater",
                     "entries"})
    BY <1>0, <1>6, Zenon DEF IsMemory, IsRecord
  <2>4. IsMap(n.offers, OfferIds, Offer)
    BY <1>0, <1>1, <1>5, <1>6, Z3T(30) DEF IsMemory, IsMap
  <2>5. IsMap(n.executions, ExecutionIds, Execution)
    BY <1>0, <1>1, <1>2, <1>4, <1>6, Z3T(30) DEF IsMemory, IsMap, Put
  <2> QED
    BY <2>1, <2>2, <2>3, <2>4, <2>5, Zenon DEF IsMemory
<1> DEFINE F == s.offers
           G == n.offers
           X == s.executions
           Y == n.executions
<1>10. /\ o \in DOMAIN F /\ e \notin DOMAIN X /\ F[o].status = "outstanding"
       /\ DOMAIN G = DOMAIN F /\ \A p \in DOMAIN F : p # o => G[p] = F[p]
       /\ DOMAIN Y = DOMAIN X \cup {e} /\ \A d \in DOMAIN X : Y[d] = X[d]
  BY <1>1, <1>7, <1>8, Zenon
<1>11. /\ G[o].status = "assigned" /\ G[o].execution = e /\ G[o].class = F[o].class
       /\ Key(G[o]) = Key(F[o]) /\ Y[e].offer = o /\ Y[e].class = F[o].class
       /\ Key(Y[e]) = Key(F[o]) /\ ~Terminal(Y[e].phase) /\ ~Y[e].released
  BY <1>1, <1>4, <1>5, <1>7, <1>8, Zenon DEF Key, Terminal, TerminalPhases
<1>12. Linked(F, X) /\ Indexed(F, s.requests) /\ Accounted(s.used, F, X)
  BY <1>0, Zenon
<1> HIDE DEF F, G, X, Y
<1>13. /\ Linked(G, Y) /\ Indexed(G, s.requests)
       /\ \A c : Holders(G, Y, c) = Holders(F, X, c)
  <2>1. AssignsOffer(F, G, X, Y, o, e)
    BY <1>10, <1>11, Zenon DEF AssignsOffer
  <2> QED
    BY <2>1, <1>12, OfferAssigned, Z3T(30)
<1>14. Accounted(s.used, G, Y)
  BY <1>12, <1>13, Zenon DEF Accounted
<1>15. GoodMemory(n)
  BY <1>6, <1>9, <1>13, <1>14, Zenon DEF GoodMemory, G, Y
<1>16. Keeps(s, n)
  BY <1>6, <1>7, <1>8, <1>15, Zenon DEF Keeps
<1> QED
  BY <1>4, <1>8, <1>16, Zenon DEF n, e, o

\* A renewal changes the lease alone.
LEMMA RenewGood ==
    ASSUME Counting, NEW s, GoodMemory(s), NEW e \in DOMAIN s.executions, NEW until \in Nat
    PROVE  Keeps(s, [s EXCEPT !.executions[e].leaseUntil = until])
<1> DEFINE n == [s EXCEPT !.executions[e].leaseUntil = until]
           y == s.executions[e]
           x == [y EXCEPT !.leaseUntil = until]
<1>1. IsMemory(s) /\ y \in Execution /\ (Terminal(y.phase) <=> y.released)
  BY ExecutionOf, Zenon
<1>2. n = [s EXCEPT !.executions = [s.executions EXCEPT ![e] = x]]
  BY Zenon DEF IsMemory, IsRecord
<1> HIDE DEF y
<1>3. x \in Execution /\ x.phase = y.phase /\ x.offer = y.offer /\ x.client = y.client
      /\ x.request = y.request /\ x.class = y.class /\ (x.released <=> y.released)
      /\ (Terminal(x.phase) <=> x.released)
  BY <1>1, Zenon DEF Execution
<1> HIDE DEF x, n
<1>4. /\ n.offers = s.offers /\ n.requests = s.requests /\ n.used = s.used
      /\ n.entries = s.entries /\ n.tombstones = s.tombstones
      /\ n.executions = [s.executions EXCEPT ![e] = x]
      /\ IsMemory(n)
  BY <1>1, <1>2, <1>3, Zenon DEF IsMemory, IsRecord, IsMap
<1> QED
  BY <1>1, <1>3, <1>4, TransitionGood, Zenon DEF y, n

-----------------------------------------------------------------------------
(* How an execution follows from the one before.                           *)

\* Record y of an execution comes after x: revisions grow, an execution that is
\* over stays so, and it is marked as evicted only if it was or if its lease is up.
Succeeds(x, y) ==
    /\ y.client = x.client
    /\ y.revision >= x.revision
    /\ y.phase # x.phase => y.revision > x.revision
    /\ Terminal(x.phase) => Terminal(y.phase)
    /\ Live(y.phase) /\ y.leaseExpired => Live(x.phase) /\ x.leaseExpired
    /\ Live(x.phase) /\ y.leaseExpired =>
            x.leaseExpired \/ ClockRegresses \/ x.leaseUntil <= clock

\* The executions Y come after X, and only those of R become live again.
ExecutionsFollow(X, Y, R) ==
    \A e \in DOMAIN X \cap DOMAIN Y :
        /\ Succeeds(X[e], Y[e])
        /\ e \notin R /\ ~Live(X[e].phase) => ~Live(Y[e].phase)

\* n has no record that s has not, but for tombstones of offers of s.
Follows(s, n, R) ==
    /\ DOMAIN n.offers \subseteq DOMAIN s.offers
    /\ DOMAIN n.tombstones \subseteq DOMAIN s.tombstones \cup (DOMAIN s.offers \ DOMAIN n.offers)
    /\ \A o \in DOMAIN n.offers :
            n.offers[o].status = "outstanding" => n.offers[o] = s.offers[o]
    /\ DOMAIN n.executions \subseteq DOMAIN s.executions
    /\ ExecutionsFollow(s.executions, n.executions, R)
    /\ n.highWater = s.highWater \/ n.highWater = clock

-----------------------------------------------------------------------------
(* Budgets and quotas: a step that makes no record exceeds none.           *)

\* What of a memory or a snapshot bounds its cardinalities.
Bounded(s) ==
    /\ IsMap(s.offers, OfferIds, Offer)
    /\ IsMap(s.executions, ExecutionIds, Execution)
    /\ IsMap(s.tombstones, OfferIds, Tombstone)
    /\ Linked(s.offers, s.executions)

\* The offers and the tombstones are finitely many, and so are the executions,
\* each of which has an offer of its own.
LEMMA BoundedFinite ==
    ASSUME Counting, NEW s, Bounded(s)
    PROVE  /\ IsFiniteSet(DOMAIN s.offers) /\ IsFiniteSet(DOMAIN s.tombstones)
           /\ IsFiniteSet(DOMAIN s.executions)
<1> DEFINE F == s.offers
           X == s.executions
<1>0. /\ IsMap(F, OfferIds, Offer) /\ Linked(F, X) /\ DOMAIN s.tombstones \subseteq OfferIds
  BY Zenon DEF Bounded, IsMap
<1>1. IsFiniteSet(OfferIds)
  BY Zenon DEF Counting
<1>2. IsFiniteSet(DOMAIN F) /\ IsFiniteSet(DOMAIN s.tombstones)
  BY <1>0, <1>1, Zenon DEF IsMap, Counting, SubsetsAreSmaller
<1> HIDE DEF F, X
<1>3. IsFiniteSet(DOMAIN X)
  <2> DEFINE f == [e \in DOMAIN X |-> X[e].offer]
  <2>1. /\ \A e \in DOMAIN X : f[e] \in DOMAIN F
        /\ \A d, e \in DOMAIN X : f[d] = f[e] => d = e
    BY <1>0 DEF Linked
  <2> HIDE DEF f
  <2> QED
    BY <1>2, <2>1, Zenon DEF Counting, InjectionsAreFinite
<1> QED
  BY <1>2, <1>3, Zenon DEF F, X

\* A subset of a finite set has no more elements.
LEMMA FewerElements ==
    ASSUME Counting,
           NEW T, IsFiniteSet(T), NEW S, S \subseteq T, NEW k, Cardinality(T) <= k, k \in Nat
    PROVE  Cardinality(S) <= k
<1>1. Cardinality(S) \in Nat /\ Cardinality(T) \in Nat /\ Cardinality(S) <= Cardinality(T)
  BY Zenon DEF Counting, SubsetsAreSmaller, SizesAreNumbers
<1> QED
  BY <1>1

\* Offers that become tombstones need no more of the budget.
LEMMA BudgetStays ==
    ASSUME Counting, NEW A, NEW T, IsFiniteSet(A), IsFiniteSet(T), NEW B, B \subseteq A,
           NEW U, U \subseteq T \cup (A \ B),
           2 * Cardinality(A) + Cardinality(T) <= MaxRecords
    PROVE  2 * Cardinality(B) + Cardinality(U) <= MaxRecords
<1>1. IsFiniteSet(B) /\ IsFiniteSet(A \ B) /\ IsFiniteSet(T \cup (A \ B))
  BY Zenon DEF Counting, SubsetsAreSmaller, DifferencesCount, UnionsCount
<1>2. /\ Cardinality(A) \in Nat /\ Cardinality(T) \in Nat /\ Cardinality(B) \in Nat
      /\ Cardinality(A \ B) \in Nat /\ Cardinality(T \cup (A \ B)) \in Nat
      /\ Cardinality(U) \in Nat /\ MaxRecords \in Nat
  BY <1>1, ConstantsAssumption, Zenon DEF Counting, SubsetsAreSmaller, SizesAreNumbers
<1>3. Cardinality(U) <= Cardinality(T \cup (A \ B))
  BY <1>1, Zenon DEF Counting, SubsetsAreSmaller
<1>4. Cardinality(T \cup (A \ B)) <= Cardinality(T) + Cardinality(A \ B)
  BY <1>1, Zenon DEF Counting, UnionsCount
<1>5. Cardinality(A \ B) = Cardinality(A) - Cardinality(B)
  <2>1. A \cap B = B
    OBVIOUS
  <2>2. Cardinality(A \ B) = Cardinality(A) - Cardinality(A \cap B)
    BY Zenon DEF Counting, DifferencesCount
  <2> QED
    BY <2>1, <2>2, Zenon
<1> QED
  BY <1>2, <1>3, <1>4, <1>5

\* A memory, and the snapshot taken of it, have finitely many records.
LEMMA GoodBounded ==
    ASSUME NEW s
    PROVE  (GoodMemory(s) \/ GoodSnapshot(s)) => Bounded(s)
  BY Zenon DEF GoodMemory, GoodSnapshot, IsMemory, IsSnapshot, Bounded

\* Whatever follows sound records is sound.
LEMMA SoundKept ==
    ASSUME Counting, NEW s, Bounded(s), NEW starts, Sound(s, starts), NEW n, NEW R, Follows(s, n, R)
    PROVE  Sound(n, starts)
<1> DEFINE F == s.offers
           G == n.offers
           X == s.executions
           Y == n.executions
<1>1. IsFiniteSet(DOMAIN F) /\ IsFiniteSet(DOMAIN s.tombstones) /\ IsFiniteSet(DOMAIN X)
  BY BoundedFinite, Zenon
<1>2. /\ DOMAIN G \subseteq DOMAIN F
      /\ DOMAIN n.tombstones \subseteq DOMAIN s.tombstones \cup (DOMAIN F \ DOMAIN G)
      /\ \A o \in DOMAIN G : G[o].status = "outstanding" => G[o] = F[o]
      /\ DOMAIN Y \subseteq DOMAIN X
      /\ \A e \in DOMAIN Y : Succeeds(X[e], Y[e])
  BY Zenon DEF Follows, ExecutionsFollow
<1>3. WithinBudget(n)
  BY <1>1, <1>2, BudgetStays, Zenon DEF Sound, WithinBudget
<1>4. WithinQuotas(n)
  <2> SUFFICES ASSUME NEW a \in Clients
               PROVE  /\ OfferQuota = 0 \/ Cardinality(Outstanding(n, a)) <= OfferQuota
                      /\ ExecutionQuota = 0 \/ Cardinality(Unfinished(n, a)) <= ExecutionQuota
    BY Zenon DEF WithinQuotas
  <2>1. Outstanding(n, a) \subseteq Outstanding(s, a) /\ Outstanding(s, a) \subseteq DOMAIN F
    BY <1>2, Zenon DEF Outstanding
  <2>2. Unfinished(n, a) \subseteq Unfinished(s, a) /\ Unfinished(s, a) \subseteq DOMAIN X
    BY <1>2, Zenon DEF Unfinished, Succeeds
  <2>3. IsFiniteSet(Outstanding(s, a)) /\ IsFiniteSet(Unfinished(s, a))
    BY <1>1, <2>1, <2>2, Zenon DEF Counting, SubsetsAreSmaller
  <2>4. /\ OfferQuota = 0 \/ Cardinality(Outstanding(s, a)) <= OfferQuota
        /\ ExecutionQuota = 0 \/ Cardinality(Unfinished(s, a)) <= ExecutionQuota
        /\ OfferQuota \in Nat /\ ExecutionQuota \in Nat
    BY ConstantsAssumption, Zenon DEF Sound, WithinQuotas
  <2> QED
    BY <2>1, <2>2, <2>3, <2>4, FewerElements, Zenon
<1>5. Unmarked(n)
  BY <1>2, Zenon DEF Sound, Unmarked, Succeeds
<1>6. Unlaunched(n, starts)
  BY <1>2, Zenon DEF Sound, Unlaunched
<1> QED
  BY <1>3, <1>4, <1>5, <1>6, Zenon DEF Sound

-----------------------------------------------------------------------------
(* What each operation makes of the records.                               *)

\* A record that keeps these fields succeeds itself.
LEMMA SameSucceeds ==
    ASSUME NEW x \in Execution, NEW y, y.client = x.client, y.revision = x.revision,
           y.phase = x.phase, y.leaseExpired = x.leaseExpired
    PROVE  Succeeds(x, y)
<1>1. x.revision \in Nat /\ x.leaseExpired \in BOOLEAN
  BY Zenon DEF Execution
<1> QED
  BY <1>1 DEF Succeeds

\* Executions that are kept or dropped.
LEMMA KeptFollow ==
    ASSUME NEW X, IsMap(X, ExecutionIds, Execution), NEW Y,
           \A e \in DOMAIN X \cap DOMAIN Y : Y[e] = X[e]
    PROVE  ExecutionsFollow(X, Y, {})
<1>1. \A e \in DOMAIN X : X[e] \in Execution
  BY Zenon DEF IsMap
<1>2. \A x \in Execution : Succeeds(x, x)
  BY SameSucceeds, Zenon
<1> QED
  BY <1>1, <1>2, Zenon DEF ExecutionsFollow

\* A step that changes neither offers nor executions, and adds no tombstone.
LEMMA SameFollows ==
    ASSUME NEW s, Bounded(s), NEW n, n.offers = s.offers, n.executions = s.executions,
           DOMAIN n.tombstones \subseteq DOMAIN s.tombstones,
           n.highWater = s.highWater \/ n.highWater = clock
    PROVE  Follows(s, n, {})
<1>1. ExecutionsFollow(s.executions, n.executions, {})
  BY KeptFollow, Zenon DEF Bounded
<1> QED
  BY <1>1, Zenon DEF Follows

\* Expiry of offers, or anything else that leaves the executions, comes first.
LEMMA FollowsAfter ==
    ASSUME NEW s, NEW r, NEW n, NEW R, NEW Q, Follows(s, r, Q), r.executions = s.executions,
           Follows(r, n, R)
    PROVE  Follows(s, n, R)
<1>1. /\ DOMAIN n.offers \subseteq DOMAIN s.offers
      /\ DOMAIN n.tombstones \subseteq DOMAIN s.tombstones \cup (DOMAIN s.offers \ DOMAIN n.offers)
  BY Zenon DEF Follows
<1>2. \A o \in DOMAIN n.offers :
        n.offers[o].status = "outstanding" => n.offers[o] = s.offers[o]
  BY Zenon DEF Follows
<1>3. /\ DOMAIN n.executions \subseteq DOMAIN s.executions
      /\ ExecutionsFollow(s.executions, n.executions, R)
      /\ n.highWater = s.highWater \/ n.highWater = clock
  BY Zenon DEF Follows
<1> QED
  BY <1>3, Zenon DEF Follows

\* It comes last.
LEMMA FollowsBefore ==
    ASSUME NEW s, NEW r, NEW n, NEW R, NEW Q, Follows(s, r, R), n.executions = r.executions,
           Follows(r, n, Q)
    PROVE  Follows(s, n, R)
<1>1. /\ DOMAIN n.offers \subseteq DOMAIN s.offers
      /\ DOMAIN n.tombstones \subseteq DOMAIN s.tombstones \cup (DOMAIN s.offers \ DOMAIN n.offers)
  BY Zenon DEF Follows
<1>2. \A o \in DOMAIN n.offers :
        n.offers[o].status = "outstanding" => n.offers[o] = s.offers[o]
  BY Zenon DEF Follows
<1>3. /\ DOMAIN n.executions \subseteq DOMAIN s.executions
      /\ ExecutionsFollow(s.executions, n.executions, R)
      /\ n.highWater = s.highWater \/ n.highWater = clock
  BY Zenon DEF Follows
<1> QED
  BY <1>1, <1>2, Zenon DEF Follows

\* expireOffersLocked.
LEMMA ExpireFollows ==
    ASSUME Counting, NEW s, GoodMemory(s), NEW t \in Nat
    PROVE  Follows(s, ExpireOffers(s, t), {}) /\ ExpireOffers(s, t).executions = s.executions
<1> DEFINE n == ExpireOffers(s, t)
<1>1. IsMemory(s) /\ Bounded(s)
  BY GoodBounded, Zenon DEF GoodMemory
<1>2. /\ n.executions = s.executions /\ n.tombstones = s.tombstones /\ n.highWater = s.highWater
      /\ DOMAIN n.offers = DOMAIN s.offers
  BY <1>1, ExpireTyped, Zenon
<1>3. \A o \in DOMAIN s.offers : n.offers[o] =
            IF o \in StaleOffers(s, t) THEN [s.offers[o] EXCEPT !.status = "expired"] ELSE s.offers[o]
  BY <1>1, ExpireTyped, Zenon
<1>4. \A o \in DOMAIN s.offers : s.offers[o] \in Offer
  BY <1>1, Zenon DEF Bounded, IsMap
<1> HIDE DEF n
<1>5. \A o \in DOMAIN s.offers : n.offers[o] = s.offers[o] \/ n.offers[o].status = "expired"
  BY <1>3, <1>4, Zenon DEF Offer
<1>6. \A o \in DOMAIN n.offers :
        n.offers[o].status = "outstanding" => n.offers[o] = s.offers[o]
  BY <1>2, <1>5, Zenon
<1>7. ExecutionsFollow(s.executions, n.executions, {})
  BY <1>1, <1>2, KeptFollow, Zenon DEF Bounded
<1> QED
  BY <1>2, <1>6, <1>7, Zenon DEF Follows, n

\* effectiveNowLocked.
LEMMA AdvanceFollows ==
    ASSUME NEW s, GoodMemory(s)
    PROVE  /\ Follows(s, AdvanceHighWater(s), {})
           /\ AdvanceHighWater(s).executions = s.executions
           /\ AdvanceHighWater(s).highWater = s.highWater \/ AdvanceHighWater(s).highWater = clock
<1> DEFINE n == AdvanceHighWater(s)
<1>1. IsMemory(s) /\ Bounded(s)
  BY GoodBounded, Zenon DEF GoodMemory
<1>2. /\ n.offers = s.offers /\ n.executions = s.executions /\ n.tombstones = s.tombstones
      /\ n.highWater = Later(s.highWater, clock)
  BY DEF AdvanceHighWater, IsMemory, IsRecord
<1>3. Later(s.highWater, clock) = s.highWater \/ Later(s.highWater, clock) = clock
  BY Zenon DEF Later
<1> HIDE DEF n
<1> QED
  BY <1>1, <1>2, <1>3, SameFollows, Zenon DEF n

\* The replay entries change, and nothing else.
LEMMA EntriesFollow ==
    ASSUME NEW s, GoodMemory(s), NEW E
    PROVE  LET n == [s EXCEPT !.entries = E] IN
           Follows(s, n, {}) /\ n.executions = s.executions
<1> DEFINE n == [s EXCEPT !.entries = E]
<1>1. IsMemory(s) /\ Bounded(s)
  BY GoodBounded, Zenon DEF GoodMemory
<1>2. /\ n.offers = s.offers /\ n.executions = s.executions /\ n.tombstones = s.tombstones
      /\ n.highWater = s.highWater
  BY DEF IsMemory, IsRecord
<1> HIDE DEF n
<1> QED
  BY <1>1, <1>2, SameFollows, Zenon DEF n

\* prune.
LEMMA PruneFollows ==
    ASSUME NEW s, GoodMemory(s), NEW t
    PROVE  Follows(s, Prune(s, t), {}) /\ Prune(s, t).executions = s.executions
<1> DEFINE old == {m \in DOMAIN s.entries :
                    s.entries[m].done /\ s.entries[m].seenAt + ReplayTTL <= t}
<1>1. Prune(s, t) = [s EXCEPT !.entries = Drop(s.entries, old)]
  BY Zenon DEF Prune
<1> HIDE DEF old
<1> QED
  BY <1>1, EntriesFollow

\* Sweep drops tombstones and entries.
LEMMA BuryFollows ==
    ASSUME NEW s, GoodMemory(s)
    PROVE  Follows(s, Bury(s), {}) /\ Bury(s).executions = s.executions
<1> DEFINE n == Bury(s)
           T == {o \in DOMAIN s.tombstones :
                    /\ ~s.tombstones[o].cleanupPending
                    /\ s.tombstones[o].expiresAt <= s.highWater}
           retired == {Key(s.tombstones[o]) : o \in DOMAIN s.tombstones}
           E == {m \in DOMAIN s.entries :
                    /\ s.entries[m].done
                    /\ \/ m.kind \in {"request", "assign"} /\ Key(m) \in retired
                       \/ /\ m.kind \in {"cancel", "inspect", "renew"}
                          /\ m.execution \notin DOMAIN s.executions}
<1>1. IsMemory(s) /\ Bounded(s)
  BY GoodBounded, Zenon DEF GoodMemory
<1>2. n = [s EXCEPT !.tombstones = Drop(s.tombstones, T), !.entries = Drop(s.entries, E)]
  BY Zenon DEF Bury
<1> HIDE DEF n, T, E
<1>3. /\ n.offers = s.offers /\ n.executions = s.executions /\ n.highWater = s.highWater
      /\ n.tombstones = Drop(s.tombstones, T)
  BY <1>2 DEF IsMemory, IsRecord
<1>4. DOMAIN n.tombstones \subseteq DOMAIN s.tombstones
  BY <1>3, Zenon DEF Drop
<1> QED
  BY <1>1, <1>3, <1>4, SameFollows, Zenon DEF n

\* A cleaned tombstone.
LEMMA CleanedFollows ==
    ASSUME NEW s, GoodMemory(s), NEW o \in DOMAIN s.tombstones
    PROVE  Follows(s, [s EXCEPT !.tombstones[o].cleanupPending = FALSE], {})
<1> DEFINE n == [s EXCEPT !.tombstones[o].cleanupPending = FALSE]
<1>1. IsMemory(s) /\ Bounded(s)
  BY GoodBounded, Zenon DEF GoodMemory
<1>2. n.highWater = s.highWater
  BY DEF IsMemory, IsRecord
<1>3. /\ n.offers = s.offers /\ n.executions = s.executions
      /\ DOMAIN n.tombstones = DOMAIN s.tombstones
  OBVIOUS
<1> HIDE DEF n
<1> QED
  BY <1>1, <1>2, <1>3, SameFollows, Zenon DEF n

\* Sweep turns offers into tombstones.
LEMMA RetireFollows ==
    ASSUME NEW s, GoodMemory(s), NEW X, X = Collectable(s)
    PROVE  Follows(s, Retire(s, X), {})
<1> DEFINE n == Retire(s, X)
           E == {s.offers[o].execution : o \in X}
<1>1. IsMemory(s) /\ Bounded(s)
  BY GoodBounded, Zenon DEF GoodMemory
<1>2. /\ n.offers = Drop(s.offers, X) /\ n.executions = Drop(s.executions, E)
      /\ DOMAIN n.tombstones = DOMAIN s.tombstones \cup X /\ n.highWater = s.highWater
  BY DEF Retire, IsMemory, IsRecord
<1>3. X \subseteq DOMAIN s.offers
  BY Zenon DEF Collectable
<1> HIDE DEF n, E
<1>4. /\ DOMAIN n.offers = DOMAIN s.offers \ X /\ DOMAIN n.executions = DOMAIN s.executions \ E
      /\ \A o \in DOMAIN s.offers \ X : n.offers[o] = s.offers[o]
      /\ \A e \in DOMAIN s.executions \ E : n.executions[e] = s.executions[e]
  BY <1>2, Zenon DEF Drop
<1>5. ExecutionsFollow(s.executions, n.executions, {})
  <2>1. \A e \in DOMAIN s.executions \cap DOMAIN n.executions : n.executions[e] = s.executions[e]
    BY <1>4, Zenon
  <2> QED
    BY <1>1, <2>1, KeptFollow, Zenon DEF Bounded
<1>6. /\ DOMAIN n.offers \subseteq DOMAIN s.offers
      /\ DOMAIN n.tombstones \subseteq DOMAIN s.tombstones \cup (DOMAIN s.offers \ DOMAIN n.offers)
      /\ DOMAIN n.executions \subseteq DOMAIN s.executions
      /\ \A o \in DOMAIN n.offers : n.offers[o] = s.offers[o]
  BY <1>2, <1>3, <1>4, Zenon
<1> QED
  BY <1>2, <1>5, <1>6, Zenon DEF Follows, n

\* One execution changes.
LEMMA TransitionFollows ==
    ASSUME NEW s, Bounded(s), NEW e \in DOMAIN s.executions, NEW x, NEW R, NEW n,
           n.offers = s.offers, n.tombstones = s.tombstones, n.highWater = s.highWater,
           n.executions = [s.executions EXCEPT ![e] = x], Succeeds(s.executions[e], x),
           e \in R \/ Live(s.executions[e].phase) \/ ~Live(x.phase)
    PROVE  Follows(s, n, R)
<1> DEFINE X == s.executions
           Y == n.executions
<1>1. /\ X = [d \in DOMAIN X |-> X[d]] /\ \A d \in DOMAIN X : X[d] \in Execution
  BY Zenon DEF Bounded, IsMap
<1>2. Y = [X EXCEPT ![e] = x]
  OBVIOUS
<1> HIDE DEF X, Y
<1>3. DOMAIN Y = DOMAIN X /\ Y[e] = x /\ \A d \in DOMAIN X : d # e => Y[d] = X[d]
  BY <1>2, Zenon DEF X
<1>4. ExecutionsFollow(X, Y, R)
  <2> SUFFICES ASSUME NEW d \in DOMAIN X
               PROVE  Succeeds(X[d], Y[d]) /\ (d \notin R /\ ~Live(X[d].phase) => ~Live(Y[d].phase))
    BY Zenon DEF ExecutionsFollow
  <2>1. CASE d = e
    BY <1>3, <2>1, Zenon DEF X
  <2>2. CASE d # e
    BY <1>1, <1>3, <2>2, SameSucceeds, Zenon
  <2> QED
    BY <2>1, <2>2, Zenon
<1> QED
  BY <1>4, Zenon DEF Follows, X, Y

\* The record of an execution after a transition to a phase, with what the detail says.
\* An execution becomes marked only if its lease is up, and is live again or still
\* only if it is not marked.
LEMMA TransitionSucceeds ==
    ASSUME NEW y \in Execution, NEW x, NEW phase, NEW marked \in BOOLEAN,
           x.client = y.client, x.revision = y.revision + 1, x.phase = phase,
           x.leaseExpired = marked,
           Terminal(phase) \/ ~Terminal(y.phase),
           marked => \/ ~Live(phase) /\ (Live(y.phase) => ClockRegresses \/ y.leaseUntil <= clock)
                     \/ Live(y.phase) /\ y.leaseExpired
    PROVE  Succeeds(y, x)
<1>1. y.revision \in Nat
  BY Zenon DEF Execution
<1>2. x.revision >= y.revision /\ x.revision > y.revision
  BY <1>1
<1> QED
  BY <1>2, Zenon DEF Succeeds

\* SetPhase.
LEMMA SetPhaseFollows ==
    ASSUME NEW s, GoodMemory(s), NEW e \in DOMAIN s.executions, NEW phase \in Phases,
           NEW marked \in BOOLEAN, NEW R, NEW y, y = s.executions[e],
           ~Terminal(y.phase), e \in R \/ Live(y.phase) \/ ~Live(phase),
           marked => \/ ~Live(phase) /\ (Live(y.phase) => ClockRegresses \/ y.leaseUntil <= clock)
                     \/ Live(y.phase) /\ y.leaseExpired
    PROVE  Follows(s, SetPhase(s, e, phase, marked), R)
<1> DEFINE n == SetPhase(s, e, phase, marked)
           x == Transition(y, phase, marked)
<1>1. IsMemory(s) /\ Bounded(s) /\ y \in Execution
  BY GoodBounded, ExecutionOf, Zenon
<1>2. /\ n.offers = s.offers /\ n.tombstones = s.tombstones /\ n.highWater = s.highWater
      /\ n.executions = [s.executions EXCEPT ![e] = x]
  BY DEF SetPhase, IsMemory, IsRecord
<1>3. /\ x.client = y.client /\ x.revision = y.revision + 1 /\ x.phase = phase
      /\ x.leaseExpired = marked
  BY DEF Execution, Transition
<1> HIDE DEF n, x
<1>4. Succeeds(y, x)
  BY <1>1, <1>3, TransitionSucceeds, Zenon
<1> QED
  BY <1>1, <1>2, <1>3, <1>4, TransitionFollows, Zenon DEF n

\* finishLocked.
LEMMA FinishFollows ==
    ASSUME NEW s, GoodMemory(s), NEW e \in DOMAIN s.executions, NEW phase \in TerminalPhases,
           NEW marked \in BOOLEAN, NEW y, y = s.executions[e],
           marked /\ Live(y.phase) => ClockRegresses \/ y.leaseUntil <= clock
    PROVE  Follows(s, Finish(s, e, phase, marked), {})
<1> DEFINE n == Finish(s, e, phase, marked)
           until == Later(clock, s.highWater) + Retention
           x == Ended(y, phase, marked, until)
           f == [s EXCEPT !.executions = [s.executions EXCEPT ![e] = x]]
<1>1. IsMemory(s) /\ Bounded(s) /\ y \in Execution
  BY GoodBounded, ExecutionOf, Zenon
<1>2. n = IF y.released THEN f ELSE Release(f, y.class, 1)
  BY Zenon DEF Finish
<1>3. /\ x.client = y.client /\ x.revision = y.revision + 1 /\ x.phase = phase
      /\ x.leaseExpired = marked
  BY DEF Execution, Ended, Transition
<1> HIDE DEF n, x
<1>4. /\ f.offers = s.offers /\ f.tombstones = s.tombstones /\ f.highWater = s.highWater
      /\ f.executions = [s.executions EXCEPT ![e] = x] /\ IsRecord(f, DOMAIN s)
  BY <1>1, Zenon DEF IsMemory, IsRecord
<1> HIDE DEF f
<1>5. /\ n.offers = s.offers /\ n.tombstones = s.tombstones /\ n.highWater = s.highWater
      /\ n.executions = [s.executions EXCEPT ![e] = x]
  BY <1>1, <1>2, <1>4, Zenon DEF Release, IsMemory, IsRecord
<1>6. ~Live(phase)
  BY Zenon DEF Live
<1>7. Succeeds(y, x)
  BY <1>1, <1>3, <1>6, TransitionSucceeds, Zenon
<1> QED
  BY <1>1, <1>3, <1>5, <1>6, <1>7, TransitionFollows, Zenon DEF n

\* A renewal changes the lease alone.
LEMMA RenewFollows ==
    ASSUME NEW s, GoodMemory(s), NEW e \in DOMAIN s.executions, NEW until
    PROVE  Follows(s, [s EXCEPT !.executions[e].leaseUntil = until], {})
<1> DEFINE n == [s EXCEPT !.executions[e].leaseUntil = until]
           y == s.executions[e]
           x == [y EXCEPT !.leaseUntil = until]
<1>1. IsMemory(s) /\ Bounded(s) /\ y \in Execution
  BY GoodBounded, ExecutionOf, Zenon
<1>2. /\ n.offers = s.offers /\ n.tombstones = s.tombstones /\ n.highWater = s.highWater
      /\ n.executions = [s.executions EXCEPT ![e] = x]
  BY DEF IsMemory, IsRecord
<1>3. /\ x.client = y.client /\ x.revision = y.revision /\ x.phase = y.phase
      /\ x.leaseExpired = y.leaseExpired
  BY DEF Execution
<1> HIDE DEF n, x
<1>4. Succeeds(y, x)
  BY <1>1, <1>3, SameSucceeds, Zenon
<1> QED
  BY <1>1, <1>2, <1>3, <1>4, TransitionFollows, Zenon DEF n

\* handleOfferRelease.
LEMMA ReleaseFollows ==
    ASSUME NEW s, GoodMemory(s), NEW o \in DOMAIN s.offers, NEW status \in {"expired", "released"},
           NEW c
    PROVE  Follows(s, Release([s EXCEPT !.offers[o].status = status], c, 1), {})
<1> DEFINE r == [s EXCEPT !.offers[o].status = status]
           n == Release(r, c, 1)
           f == [s.offers[o] EXCEPT !.status = status]
<1>1. IsMemory(s) /\ Bounded(s) /\ s.offers \in [DOMAIN s.offers -> Offer]
  BY GoodBounded, Zenon DEF GoodMemory, Bounded, IsMap
<1>2. /\ n.offers = [s.offers EXCEPT ![o] = f] /\ n.tombstones = s.tombstones
      /\ n.highWater = s.highWater /\ n.executions = s.executions
  BY DEF Release, IsMemory, IsRecord
<1>3. f.status # "outstanding"
  BY <1>1, Zenon DEF Offer
<1> HIDE DEF n, f
<1>4. /\ DOMAIN n.offers = DOMAIN s.offers
      /\ \A p \in DOMAIN n.offers :
            n.offers[p].status = "outstanding" => n.offers[p] = s.offers[p]
  BY <1>2, <1>3, Zenon
<1>5. ExecutionsFollow(s.executions, n.executions, {})
  BY <1>1, <1>2, KeptFollow, Zenon DEF Bounded
<1> QED
  BY <1>2, <1>4, <1>5, Zenon DEF Follows, n

\* What persistLocked saves.
LEMMA SnapshotSound ==
    ASSUME Counting, NEW s, GoodMemory(s), NEW starts, Sound(s, starts)
    PROVE  Sound(Snapshot(s), starts) /\ Snapshot(s).highWater = s.highWater
           /\ Snapshot(s).offers = s.offers
<1> DEFINE n == Snapshot(s)
<1>1. /\ n.offers = s.offers /\ n.executions = s.executions /\ n.tombstones = s.tombstones
      /\ n.highWater = s.highWater
  BY Zenon DEF Snapshot
<1> HIDE DEF n
<1>2. Bounded(s)
  BY GoodBounded, Zenon
<1>3. Follows(s, n, {})
  BY <1>1, <1>2, SameFollows, Zenon
<1> QED
  BY <1>1, <1>2, <1>3, SoundKept, Zenon DEF n

\* loadLocked.
LEMMA LoadFollows ==
    ASSUME NEW d, GoodSnapshot(d), NEW t
    PROVE  Follows(d, Load(d, t), {})
<1> DEFINE n == Load(d, t)
           r == [offers |-> d.offers, executions |-> d.executions,
                 requests |-> [k \in {Key(d.offers[o]) : o \in DOMAIN d.offers} |->
                                CHOOSE o \in DOMAIN d.offers : Key(d.offers[o]) = k],
                 tombstones |-> d.tombstones, used |-> [c \in Classes |-> 0],
                 highWater |-> d.highWater, entries |-> d.entries]
           S == StaleOffers(r, t)
<1>1. Bounded(d)
  BY GoodBounded, Zenon
<1>2. /\ n.executions = d.executions /\ n.tombstones = d.tombstones /\ n.highWater = d.highWater
      /\ n.offers = [o \in DOMAIN d.offers |->
            IF o \in S THEN [d.offers[o] EXCEPT !.status = "expired"] ELSE d.offers[o]]
  BY Zenon DEF Load, ExpireOffers
<1>3. \A o \in DOMAIN d.offers : d.offers[o] \in Offer
  BY <1>1, Zenon DEF Bounded, IsMap
<1> HIDE DEF n, S
<1>4. \A o \in DOMAIN d.offers : n.offers[o] = d.offers[o] \/ n.offers[o].status = "expired"
  BY <1>2 DEF Offer
<1>5. /\ DOMAIN n.offers = DOMAIN d.offers
      /\ \A o \in DOMAIN n.offers :
            n.offers[o].status = "outstanding" => n.offers[o] = d.offers[o]
  BY <1>2
<1>6. ExecutionsFollow(d.executions, n.executions, {})
  BY <1>1, <1>2, KeptFollow, Zenon DEF Bounded
<1> QED
  BY <1>2, <1>6 DEF Follows, n

\* One more element fits a bound that was not reached.
LEMMA OneMore ==
    ASSUME Counting, NEW S, IsFiniteSet(S), NEW x, NEW k \in Nat, Cardinality(S) < k
    PROVE  Cardinality(S \cup {x}) <= k
<1>1. /\ Cardinality(S) \in Nat
      /\ Cardinality(S \cup {x}) = IF x \in S THEN Cardinality(S) ELSE Cardinality(S) + 1
  BY Zenon DEF Counting, AddingCounts, SizesAreNumbers
<1> QED
  BY <1>1

\* handleRequest: the new offer fits the budget and the quota.
LEMMA MakeOfferSound ==
    ASSUME Counting,
           NEW s, GoodMemory(s), NEW starts, Sound(s, starts), NEW m \in Messages, Offerable(s, m),
           NEW o \in OfferIds, o \notin DOMAIN s.offers, starts[o] = 0
    PROVE  LET n == MakeOffer(s, m, o) IN
           Sound(n, starts) /\ n.highWater = s.highWater /\ n.executions = s.executions
<1> DEFINE n == MakeOffer(s, m, o)
           f == [status |-> "outstanding", client |-> m.client, request |-> m.request,
                 class |-> m.class, expiresAt |-> clock + OfferTTL, execution |-> NoExecution]
           F == s.offers
           G == n.offers
<1>1. IsMemory(s) /\ Bounded(s)
  BY GoodBounded, Zenon DEF GoodMemory
<1>2. /\ G = Put(F, o, f) /\ n.tombstones = s.tombstones
      /\ n.highWater = s.highWater /\ n.executions = s.executions
  BY DEF MakeOffer, IsMemory, IsRecord
<1>3. f.status = "outstanding" /\ f.client = m.client
  OBVIOUS
<1>4. o \notin DOMAIN F
  OBVIOUS
<1> HIDE DEF n, f, F, G
<1>5. /\ DOMAIN G = DOMAIN F \cup {o} /\ G[o] = f /\ \A p \in DOMAIN F : G[p] = F[p]
  BY <1>2, <1>4, Zenon DEF Put
<1>6. IsFiniteSet(DOMAIN F) /\ IsFiniteSet(DOMAIN s.tombstones) /\ IsFiniteSet(DOMAIN s.executions)
  BY <1>1, BoundedFinite, Zenon DEF F
<1>7. WithinBudget(n)
  <2>1. 2 * Cardinality(DOMAIN F) + Cardinality(DOMAIN s.tombstones) + 2 <= MaxRecords
    BY Zenon DEF Offerable, F
  <2>2. /\ Cardinality(DOMAIN F) \in Nat /\ Cardinality(DOMAIN s.tombstones) \in Nat
        /\ Cardinality(DOMAIN F \cup {o}) = Cardinality(DOMAIN F) + 1
    BY <1>4, <1>6, Zenon DEF Counting, AddingCounts, SizesAreNumbers
  <2>3. 2 * Cardinality(DOMAIN F \cup {o}) + Cardinality(DOMAIN s.tombstones) <= MaxRecords
    BY <2>1, <2>2
  <2> QED
    BY <1>2, <1>5, <2>3, Zenon DEF WithinBudget, G
<1>8. WithinQuotas(n)
  <2> SUFFICES ASSUME NEW a \in Clients
               PROVE  /\ OfferQuota = 0 \/ Cardinality(Outstanding(n, a)) <= OfferQuota
                      /\ ExecutionQuota = 0 \/ Cardinality(Unfinished(n, a)) <= ExecutionQuota
    BY Zenon DEF WithinQuotas
  <2>1. ExecutionQuota = 0 \/ Cardinality(Unfinished(n, a)) <= ExecutionQuota
    BY <1>2, Zenon DEF Sound, WithinQuotas, Unfinished
  <2>2. Outstanding(n, a) = IF a = m.client THEN Outstanding(s, a) \cup {o} ELSE Outstanding(s, a)
    BY <1>3, <1>5, Zenon DEF Outstanding, F, G
  <2>3. IsFiniteSet(Outstanding(s, a))
    <3>1. Outstanding(s, a) \subseteq DOMAIN F
      BY Zenon DEF Outstanding, F
    <3> QED
      BY <1>6, <3>1, Zenon DEF Counting, SubsetsAreSmaller
  <2>4. OfferQuota \in Nat /\ (OfferQuota = 0 \/ Cardinality(Outstanding(s, m.client)) < OfferQuota)
    BY ConstantsAssumption, Zenon DEF Offerable, Admitted
  <2>5. OfferQuota = 0 \/ Cardinality(Outstanding(s, a)) <= OfferQuota
    BY Zenon DEF Sound, WithinQuotas
  <2>6. CASE a = m.client
    BY <2>1, <2>2, <2>3, <2>4, <2>6, OneMore, Zenon
  <2>7. CASE a # m.client
    BY <2>1, <2>2, <2>5, <2>7, Zenon
  <2> QED
    BY <2>6, <2>7, Zenon
<1>9. Unmarked(n)
  BY <1>2, Zenon DEF Sound, Unmarked
<1>10. Unlaunched(n, starts)
  BY <1>4, <1>5, Zenon DEF Sound, Unlaunched, F, G
<1> QED
  BY <1>2, <1>7, <1>8, <1>9, <1>10, Zenon DEF Sound, n

\* handleAssign: the new execution fits the quota, and its offer is assigned.
LEMMA MakeExecutionSound ==
    ASSUME Counting,
           NEW s, GoodMemory(s), NEW starts, Sound(s, starts), NEW m \in Messages, Assignable(s, m)
    PROVE  LET n == MakeExecution(s, m) IN
           /\ Sound(n, starts) /\ n.highWater = s.highWater
           /\ ExecutionsFollow(s.executions, n.executions, {})
           /\ n.offers[m.offer].status = "assigned"
<1> DEFINE n == MakeExecution(s, m)
           e == m.execution
           F == s.offers
           G == n.offers
           X == s.executions
           Y == n.executions
           f == [F[m.offer] EXCEPT !.status = "assigned", !.execution = e]
           x == [phase |-> "starting", leaseExpired |-> FALSE, offer |-> m.offer,
                 client |-> m.client, request |-> m.request, class |-> F[m.offer].class,
                 released |-> FALSE, revision |-> 1, retainUntil |-> 0,
                 leaseUntil |-> clock + LeaseTTL]
<1>1. IsMemory(s) /\ Bounded(s) /\ IsMap(X, ExecutionIds, Execution)
  BY GoodBounded, Zenon DEF GoodMemory, Bounded
<1>2. /\ Y = Put(X, e, x) /\ n.tombstones = s.tombstones
      /\ n.highWater = s.highWater /\ G = [F EXCEPT ![m.offer] = f]
  BY DEF MakeExecution, IsMemory, IsRecord
<1>3. m.offer \in DOMAIN F /\ F \in [DOMAIN F -> Offer] /\ e \notin DOMAIN X
  BY <1>1, Zenon DEF Assignable, Bounded, IsMap
<1>4. f.status = "assigned" /\ x.client = m.client /\ ~x.leaseExpired
  BY DEF Offer
<1>5. IsFiniteSet(DOMAIN F) /\ IsFiniteSet(DOMAIN X)
  BY <1>1, BoundedFinite, Zenon
<1> HIDE DEF n, f, x, F, G, X, Y
<1>6. /\ DOMAIN G = DOMAIN F /\ G[m.offer].status = "assigned"
      /\ \A o \in DOMAIN G : G[o].status = "outstanding" => G[o] = F[o]
  BY <1>2, <1>3, <1>4, Zenon
<1>7. DOMAIN Y = DOMAIN X \cup {e} /\ Y[e] = x /\ \A d \in DOMAIN X : Y[d] = X[d]
  BY <1>2, <1>3, Zenon DEF Put
<1>8. WithinBudget(n)
  BY <1>2, Zenon DEF Sound, WithinBudget, F, G
<1>9. WithinQuotas(n)
  <2> SUFFICES ASSUME NEW a \in Clients
               PROVE  /\ OfferQuota = 0 \/ Cardinality(Outstanding(n, a)) <= OfferQuota
                      /\ ExecutionQuota = 0 \/ Cardinality(Unfinished(n, a)) <= ExecutionQuota
    BY Zenon DEF WithinQuotas
  <2>1. Outstanding(n, a) \subseteq Outstanding(s, a)
    BY <1>6, Zenon DEF Outstanding, F, G
  <2>2. Unfinished(n, a) \subseteq
            IF a = m.client THEN Unfinished(s, a) \cup {e} ELSE Unfinished(s, a)
    BY <1>4, <1>7, Zenon DEF Unfinished, X, Y
  <2>3. IsFiniteSet(Outstanding(s, a)) /\ IsFiniteSet(Unfinished(s, a))
    <3>1. Outstanding(s, a) \subseteq DOMAIN F /\ Unfinished(s, a) \subseteq DOMAIN X
      BY Zenon DEF Outstanding, Unfinished, F, X
    <3> QED
      BY <1>5, <3>1, Zenon DEF Counting, SubsetsAreSmaller
  <2>4. /\ OfferQuota \in Nat /\ ExecutionQuota \in Nat
        /\ ExecutionQuota = 0 \/ Cardinality(Unfinished(s, m.client)) < ExecutionQuota
    BY ConstantsAssumption, Zenon DEF Assignable, Admitted
  <2>5. /\ OfferQuota = 0 \/ Cardinality(Outstanding(s, a)) <= OfferQuota
        /\ ExecutionQuota = 0 \/ Cardinality(Unfinished(s, a)) <= ExecutionQuota
    BY Zenon DEF Sound, WithinQuotas
  <2>6. OfferQuota = 0 \/ Cardinality(Outstanding(n, a)) <= OfferQuota
    BY <2>1, <2>3, <2>4, <2>5, FewerElements, Zenon
  <2>7. ExecutionQuota = 0 \/ Cardinality(Unfinished(n, a)) <= ExecutionQuota
    <3>1. CASE a = m.client
      <4>1. IsFiniteSet(Unfinished(s, a) \cup {e})
        BY <2>3, Zenon DEF Counting, AddingCounts
      <4>2. ExecutionQuota = 0 \/ Cardinality(Unfinished(s, a) \cup {e}) <= ExecutionQuota
        BY <2>3, <2>4, <3>1, OneMore, Zenon
      <4> QED
        BY <2>2, <2>4, <4>1, <4>2, FewerElements, Zenon
    <3>2. CASE a # m.client
      BY <2>2, <2>3, <2>4, <2>5, <3>2, FewerElements, Zenon
    <3> QED
      BY <3>1, <3>2, Zenon
  <2> QED
    BY <2>6, <2>7, Zenon
<1>10. Unmarked(n)
  BY <1>4, <1>7, Zenon DEF Sound, Unmarked, X, Y
<1>11. Unlaunched(n, starts)
  BY <1>6, Zenon DEF Sound, Unlaunched, F, G
<1>12. ExecutionsFollow(X, Y, {})
  BY <1>1, <1>7, KeptFollow, Zenon
<1> QED
  BY <1>2, <1>6, <1>8, <1>9, <1>10, <1>11, <1>12, Zenon DEF Sound, n, X, Y, G
=============================================================================
