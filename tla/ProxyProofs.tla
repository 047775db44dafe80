------------------------------ MODULE ProxyProofs ------------------------------
(* Proofs about Proxy: for any keys, requests, credentials, providers' answers    *)
(* and faults, and whatever the panel does meanwhile.                            *)
EXTENDS Proxy, FiniteSetTheorems, SequenceTheorems, TLAPS

--------------------------------------------------------------------------------
(* The lists a request works down.                                             *)

\* Kept gives every place a rank, from 1 to their number, in the order of the places.
LEMMA KeptPlaces ==
    ASSUME NEW at, NEW len \in Nat, at \subseteq 1..len
    PROVE  /\ Cardinality(at) \in Nat
           /\ \A k \in 1..Cardinality(at) :
                 \E i \in at : Cardinality({j \in at : j <= i}) = k
           /\ \A i \in at : Cardinality({j \in at : j <= i}) \in 1..Cardinality(at)
           /\ \A h, i \in at : Cardinality({j \in at : j <= h}) = Cardinality({j \in at : j <= i})
                                  => h = i
  <1> DEFINE upTo(i) == {j \in at : j <= i}
             rank == [i \in at |-> Cardinality(upTo(i))]
             n == Cardinality(at)
  <1>1. IsFiniteSet(at) /\ n \in Nat
    <2>1. IsFiniteSet(1..len)
      BY FS_Interval
    <2>2. IsFiniteSet(at)
      BY <2>1, FS_Subset
    <2> QED
      BY <2>2, FS_CardinalityType
  <1>2. ASSUME NEW i \in at
        PROVE  /\ IsFiniteSet(upTo(i)) /\ Cardinality(upTo(i)) \in 1..n
    <2>1. IsFiniteSet(upTo(i)) /\ Cardinality(upTo(i)) <= n
      BY <1>1, FS_Subset
    <2>2. Cardinality(upTo(i)) \in Nat
      BY <2>1, FS_CardinalityType
    <2>3. i \in upTo(i)
      OBVIOUS
    <2>4. Cardinality(upTo(i)) # 0
      BY <2>1, <2>3, FS_EmptySet
    <2> QED
      BY <1>1, <2>1, <2>2, <2>4
  <1>3. ASSUME NEW i \in at, NEW j \in at, i < j
        PROVE  rank[i] # rank[j]
    <2>1. upTo(i) \in SUBSET upTo(j) /\ j \in upTo(j) /\ j \notin upTo(i)
      <3>1. i \in Int /\ j \in Int /\ \A k \in at : k \in Int
        OBVIOUS
      <3>2. j <= j /\ ~(j <= i) /\ \A k \in at : k <= i => k <= j
        BY <1>3, <3>1
      <3> QED
        BY <3>2
    <2>2. Cardinality(upTo(i)) # Cardinality(upTo(j))
      BY <1>2, <2>1, FS_Subset
    <2> QED
      BY <2>2
  <1>4. rank \in Injection(at, 1..n)
    <2>1. rank \in [at -> 1..n]
      BY <1>2
    <2>2. \A i, j \in at : rank[i] = rank[j] => i = j
      BY <1>3
    <2> QED
      BY <2>1, <2>2 DEF Injection, IsInjective
  <1>5. IsFiniteSet(1..n) /\ Cardinality(1..n) = n
    BY <1>1, FS_Interval
  <1>6. rank \in Surjection(at, 1..n)
    BY <1>4, <1>5, FS_Injection
  <1>7. \A k \in 1..n : \E i \in at : rank[i] = k
    BY <1>6 DEF Surjection
  <1> HIDE DEF n
  <1>8. \A k \in 1..n : \E i \in at : Cardinality(upTo(i)) = k
    BY <1>7
  <1>9. \A i, j \in at : Cardinality(upTo(i)) = Cardinality(upTo(j)) => i = j
    BY <1>4 DEF Injection, IsInjective
  <1> QED
    BY <1>1, <1>2, <1>8, <1>9 DEF n

\* Kept has the entries of s that are in S and no others, none more often than s has it.
LEMMA KeptProperties ==
    ASSUME NEW T, NEW s \in Seq(T), NEW S
    PROVE  /\ Kept(s, S) \in Seq(T)
           /\ ToSet(Kept(s, S)) = ToSet(s) \cap S
           /\ IsInjective(s) => IsInjective(Kept(s, S))
  <1> DEFINE at == {i \in DOMAIN s : s[i] \in S}
             upTo(i) == Cardinality({j \in at : j <= i})
             nth(k) == CHOOSE i \in at : upTo(i) = k
             n == Cardinality(at)
             kept == [k \in 1..n |-> s[nth(k)]]
  <1>1. Len(s) \in Nat /\ DOMAIN s = 1..Len(s) /\ \A i \in DOMAIN s : s[i] \in T
    BY LenProperties
  <1>2. /\ n \in Nat
        /\ \A k \in 1..n : \E i \in at : upTo(i) = k
        /\ \A i \in at : upTo(i) \in 1..n
        /\ \A i, j \in at : upTo(i) = upTo(j) => i = j
    <2>1. at \subseteq 1..Len(s)
      BY <1>1
    <2> QED
      BY <1>1, <2>1, KeptPlaces
  <1> HIDE DEF upTo, n
  <1>3. \A k \in 1..n : nth(k) \in at /\ upTo(nth(k)) = k
    BY <1>2
  <1>4. \A i \in at : nth(upTo(i)) = i
    BY <1>2, <1>3
  <1> HIDE DEF nth
  <1>5. Kept(s, S) = kept
    BY DEF Kept, upTo, nth, n
  <1>6. kept \in Seq(T) /\ DOMAIN kept = 1..n
    <2>1. \A k \in 1..n : s[nth(k)] \in T
      BY <1>1, <1>3
    <2> QED
      BY <1>2, <2>1, IsASeq
  <1>7. ToSet(kept) \subseteq ToSet(s) \cap S
    BY <1>1, <1>3, <1>6 DEF ToSet
  <1>8. ToSet(s) \cap S \subseteq ToSet(kept)
    <2> SUFFICES ASSUME NEW i \in DOMAIN s, s[i] \in S
                 PROVE  s[i] \in ToSet(kept)
      BY DEF ToSet
    <2>1. upTo(i) \in 1..n /\ nth(upTo(i)) = i
      BY <1>2, <1>4
    <2>2. kept[upTo(i)] = s[i]
      BY <2>1
    <2> QED
      BY <1>6, <2>1, <2>2 DEF ToSet
  <1>9. ASSUME IsInjective(s)
        PROVE  IsInjective(kept)
    <2> SUFFICES ASSUME NEW a \in 1..n, NEW b \in 1..n, kept[a] = kept[b]
                 PROVE  a = b
      BY <1>6 DEF IsInjective
    <2>1. s[nth(a)] = s[nth(b)] /\ nth(a) \in DOMAIN s /\ nth(b) \in DOMAIN s
      BY <1>3
    <2>2. nth(a) = nth(b)
      BY <1>9, <2>1 DEF IsInjective
    <2> QED
      BY <1>3, <2>2
  <1> QED
    BY <1>5, <1>6, <1>7, <1>8, <1>9

\* The first entry and the others.
LEMMA HeadAndTail ==
    ASSUME NEW T, NEW s \in Seq(T), s # << >>
    PROVE  /\ Head(s) \in T /\ Tail(s) \in Seq(T) /\ Len(Tail(s)) = Len(s) - 1
           /\ ToSet(s) = {Head(s)} \cup ToSet(Tail(s))
           /\ Len(s) > 1 => Tail(s) # << >>
           /\ IsInjective(s) => IsInjective(Tail(s)) /\ Head(s) \notin ToSet(Tail(s))
  <1>1. /\ Len(s) \in Nat \ {0} /\ DOMAIN s = 1..Len(s) /\ \A i \in 1..Len(s) : s[i] \in T
        /\ Head(s) = s[1]
    BY LenProperties, EmptySeq, HeadTailProperties
  <1>2. /\ Tail(s) \in Seq(T) /\ Len(Tail(s)) = Len(s) - 1
        /\ \A i \in 1..Len(s)-1 : Tail(s)[i] = s[i+1]
    BY HeadTailProperties
  <1>3. DOMAIN Tail(s) = 1..Len(s)-1
    BY <1>2, LenProperties
  <1>4. ToSet(s) \subseteq {Head(s)} \cup ToSet(Tail(s))
    <2> SUFFICES ASSUME NEW i \in 1..Len(s), i # 1
                 PROVE  s[i] \in ToSet(Tail(s))
      BY <1>1 DEF ToSet
    <2>1. i - 1 \in 1..Len(s)-1 /\ Tail(s)[i - 1] = s[i]
      BY <1>1, <1>2
    <2> QED
      BY <1>3, <2>1 DEF ToSet
  <1>5. {Head(s)} \cup ToSet(Tail(s)) \subseteq ToSet(s)
    <2>1. \A i \in 1..Len(s)-1 : i + 1 \in 1..Len(s)
      BY <1>1
    <2> QED
      BY <1>1, <1>2, <1>3, <2>1 DEF ToSet
  <1>6. ASSUME IsInjective(s)
        PROVE  IsInjective(Tail(s)) /\ Head(s) \notin ToSet(Tail(s))
    <2>1. \A i \in 1..Len(s)-1 : i + 1 \in 1..Len(s) /\ i + 1 # 1 /\ 1 \in 1..Len(s)
      BY <1>1
    <2>2. \A i, j \in 1..Len(s)-1 : i + 1 = j + 1 => i = j
      BY <1>1
    <2> QED
      BY <1>1, <1>2, <1>3, <1>6, <2>1, <2>2 DEF ToSet, IsInjective
  <1>7. ASSUME Len(s) > 1 PROVE Tail(s) # << >>
    <2>1. 1 \in 1..Len(s)-1
      BY <1>1, <1>7
    <2>2. 1 \in DOMAIN Tail(s)
      BY <1>3, <2>1
    <2> QED
      BY <2>2
  <1> QED
    BY <1>1, <1>2, <1>4, <1>5, <1>6, <1>7

\* Two lists one behind the other.
LEMMA Behind ==
    ASSUME NEW T, NEW s \in Seq(T), NEW t \in Seq(T)
    PROVE  /\ s \o t \in Seq(T)
           /\ ToSet(s \o t) = ToSet(s) \cup ToSet(t)
           /\ IsInjective(s) /\ IsInjective(t) /\ ToSet(s) \cap ToSet(t) = {}
                => IsInjective(s \o t)
  <1> DEFINE m == Len(s)
             n == Len(t)
  <1>1. m \in Nat /\ n \in Nat /\ DOMAIN s = 1..m /\ DOMAIN t = 1..n
    BY LenProperties
  <1>2. /\ s \o t \in Seq(T) /\ Len(s \o t) = m + n
        /\ \A i \in 1..m+n : (s \o t)[i] = IF i <= m THEN s[i] ELSE t[i - m]
    BY ConcatProperties
  <1>3. DOMAIN (s \o t) = 1..m+n
    BY <1>2, LenProperties
  <1> DEFINE st == s \o t
  <1> HIDE DEF st, m, n
  <1>4. /\ \A i \in 1..m : i \in 1..m+n /\ st[i] = s[i]
        /\ \A i \in 1..n : i + m \in 1..m+n /\ st[i + m] = t[i]
    BY <1>1, <1>2 DEF st
  <1>5. ASSUME NEW i \in 1..m+n
        PROVE  \/ i \in 1..m /\ st[i] = s[i]
               \/ i - m \in 1..n /\ st[i] = t[i - m] /\ i = (i - m) + m
    <2>1. st[i] = IF i <= m THEN s[i] ELSE t[i - m]
      BY <1>2 DEF st
    <2>2. CASE i <= m
      BY <1>1, <2>1, <2>2
    <2>3. CASE ~(i <= m)
      <3>1. i - m \in 1..n /\ i = (i - m) + m
        BY <1>1, <2>3
      <3> QED
        BY <2>1, <2>3, <3>1
    <2> QED
      BY <2>2, <2>3
  <1>6. ToSet(st) = ToSet(s) \cup ToSet(t)
    <2>1. ToSet(st) \subseteq ToSet(s) \cup ToSet(t)
      <3>1. \A i \in 1..m+n : st[i] \in ToSet(s) \cup ToSet(t)
        BY <1>1, <1>5 DEF ToSet
      <3>2. ToSet(st) = {st[i] : i \in 1..m+n}
        BY <1>3 DEF ToSet, st
      <3> QED
        BY <3>1, <3>2
    <2>2. ToSet(s) \cup ToSet(t) \subseteq ToSet(st)
      BY <1>1, <1>3, <1>4 DEF ToSet, st
    <2> QED
      BY <2>1, <2>2
  <1>7. ASSUME IsInjective(s), IsInjective(t), ToSet(s) \cap ToSet(t) = {}
        PROVE  IsInjective(st)
    <2> SUFFICES ASSUME NEW i \in 1..m+n, NEW j \in 1..m+n, st[i] = st[j]
                 PROVE  i = j
      BY <1>3 DEF IsInjective, st
    <2>1. CASE i \in 1..m /\ st[i] = s[i] /\ j \in 1..m /\ st[j] = s[j]
      BY <1>1, <1>7, <2>1 DEF IsInjective
    <2>2. CASE i - m \in 1..n /\ st[i] = t[i - m] /\ j - m \in 1..n /\ st[j] = t[j - m]
      <3>1. i - m = j - m
        BY <1>1, <1>7, <2>2 DEF IsInjective
      <3> QED
        BY <1>1, <3>1
    <2>3. CASE i \in 1..m /\ st[i] = s[i] /\ j - m \in 1..n /\ st[j] = t[j - m]
      BY <1>1, <1>7, <2>3 DEF ToSet
    <2>4. CASE j \in 1..m /\ st[j] = s[j] /\ i - m \in 1..n /\ st[i] = t[i - m]
      BY <1>1, <1>7, <2>4 DEF ToSet
    <2> QED
      BY <1>5, <2>1, <2>2, <2>3, <2>4
  <1> QED
    BY <1>2, <1>6, <1>7 DEF st

\* A list of one entry, and of none.
LEMMA ShortLists ==
    ASSUME NEW T, NEW e \in T
    PROVE  /\ <<e>> \in Seq(T) /\ ToSet(<<e>>) = {e} /\ IsInjective(<<e>>)
           /\ << >> \in Seq(T) /\ ToSet(<< >>) = {} /\ IsInjective(<< >>)
  BY DEF ToSet, IsInjective

\* One entry more.
LEMMA OneMore ==
    ASSUME NEW T, NEW s \in Seq(T), NEW e \in T
    PROVE  /\ Append(s, e) \in Seq(T)
           /\ ToSet(Append(s, e)) = ToSet(s) \cup {e}
           /\ IsInjective(s) /\ e \notin ToSet(s) => IsInjective(Append(s, e))
  <1>1. <<e>> \in Seq(T) /\ ToSet(<<e>>) = {e} /\ IsInjective(<<e>>)
    BY ShortLists
  <1>2. Append(s, e) = s \o <<e>>
    BY AppendIsConcat
  <1>3. /\ s \o <<e>> \in Seq(T)
        /\ ToSet(s \o <<e>>) = ToSet(s) \cup ToSet(<<e>>)
        /\ IsInjective(s) /\ ToSet(s) \cap ToSet(<<e>>) = {} => IsInjective(s \o <<e>>)
    BY <1>1, Behind, ZenonT(30)
  <1> QED
    BY <1>1, <1>2, <1>3

--------------------------------------------------------------------------------
(* The chain and the credentials of a hop.                                     *)

\* The credentials of a hop are those that serve it, each of them once.
LEMMA StoredProperties ==
    ASSUME NEW list \in Seq(Creds), IsInjective(list), NEW p, NEW m
    PROVE  /\ Stored(p, m, list) \in Seq(Creds)
           /\ ToSet(Stored(p, m, list)) = {c \in ToSet(list) : Serves(c, p, m)}
           /\ IsInjective(Stored(p, m, list))
  <1> DEFINE serving == {c \in Creds : Serves(c, p, m)}
             front == Kept(list, serving \ ApiKeys)
             back == Kept(list, serving \cap ApiKeys)
  <1>1. /\ front \in Seq(Creds) /\ ToSet(front) = ToSet(list) \cap (serving \ ApiKeys)
        /\ IsInjective(front)
    BY KeptProperties
  <1>2. /\ back \in Seq(Creds) /\ ToSet(back) = ToSet(list) \cap (serving \cap ApiKeys)
        /\ IsInjective(back)
    BY KeptProperties
  <1>3. ToSet(list) \subseteq Creds
    BY LenProperties DEF ToSet
  <1>4. Stored(p, m, list) = front \o back
    BY DEF Stored
  <1> HIDE DEF front, back
  <1>5. /\ front \o back \in Seq(Creds)
        /\ ToSet(front \o back) = ToSet(front) \cup ToSet(back)
        /\ IsInjective(front \o back)
    <2>1. ToSet(front) \cap ToSet(back) = {}
      BY <1>1, <1>2
    <2> QED
      BY <1>1, <1>2, <2>1, Behind
  <1>6. ToSet(front \o back) = {c \in ToSet(list) : Serves(c, p, m)}
    BY <1>1, <1>2, <1>3, <1>5
  <1> QED
    BY <1>4, <1>5, <1>6

\* Moving the preferred credential to the front loses none and doubles none.
LEMMA PickProperties ==
    ASSUME NEW list \in Seq(Creds), IsInjective(list), NEW p, NEW m, NEW preferred
    PROVE  /\ PickCredentials(p, m, list, preferred) \in Seq(Creds)
           /\ ToSet(PickCredentials(p, m, list, preferred)) = {c \in ToSet(list) : Serves(c, p, m)}
           /\ IsInjective(PickCredentials(p, m, list, preferred))
  <1> DEFINE stored == Stored(p, m, list)
             others == Kept(stored, Creds \ {preferred})
  <1>1. /\ stored \in Seq(Creds) /\ IsInjective(stored)
        /\ ToSet(stored) = {c \in ToSet(list) : Serves(c, p, m)}
    BY StoredProperties
  <1> HIDE DEF stored
  <1>2. CASE preferred \notin ToSet(stored)
    BY <1>1, <1>2 DEF PickCredentials, stored
  <1>3. CASE preferred \in ToSet(stored)
    <2>1. ToSet(stored) \subseteq Creds
      BY <1>1, LenProperties DEF ToSet
    <2>2. /\ others \in Seq(Creds) /\ IsInjective(others)
          /\ ToSet(others) = ToSet(stored) \cap (Creds \ {preferred})
      BY <1>1, KeptProperties
    <2>3. /\ <<preferred>> \in Seq(Creds) /\ IsInjective(<<preferred>>)
          /\ ToSet(<<preferred>>) = {preferred}
      BY <1>3, <2>1, ShortLists
    <2> HIDE DEF others
    <2>4. ToSet(<<preferred>>) \cap ToSet(others) = {}
      BY <2>2, <2>3
    <2>5. /\ <<preferred>> \o others \in Seq(Creds) /\ IsInjective(<<preferred>> \o others)
          /\ ToSet(<<preferred>> \o others) = ToSet(<<preferred>>) \cup ToSet(others)
      BY <2>2, <2>3, <2>4, Behind, ZenonT(30)
    <2>6. ToSet(<<preferred>> \o others) = ToSet(stored)
      BY <1>3, <2>1, <2>2, <2>3, <2>5
    <2>7. PickCredentials(p, m, list, preferred) = <<preferred>> \o others
      BY <1>3 DEF PickCredentials, stored, others
    <2> QED
      BY <1>1, <2>5, <2>6, <2>7
  <1> QED
    BY <1>2, <1>3

\* A chain has no provider twice: no rule puts one behind itself.
LEMMA ChainProperties ==
    ASSUME NEW list \in Seq(Creds), NEW m \in Models, NEW toggle
    PROVE  /\ ResolveChain(m, list, toggle) \in Seq(Providers)
           /\ IsInjective(ResolveChain(m, list, toggle))
  <1>1. /\ m \in Model /\ m.provider \in Providers
        /\ m.rule \in {"opencode", "cursor", "native", "id", "catalog"}
        /\ m.rule = "native" => m.provider \in {"claude", "codex", "grok"}
    BY ModelsAssumption DEF Model
  <1>2. ASSUME NEW p \in Providers
        PROVE  <<p>> \in Seq(Providers) /\ IsInjective(<<p>>) /\ ToSet(<<p>>) = {p}
    BY ShortLists
  <1>3. << >> \in Seq(Providers) /\ IsInjective(<< >>) /\ ToSet(<< >>) = {}
    BY <1>1, ShortLists
  <1>4. ASSUME NEW p \in Providers, NEW condition
        PROVE  /\ HopIf(p, condition) \in Seq(Providers) /\ IsInjective(HopIf(p, condition))
               /\ ToSet(HopIf(p, condition)) \subseteq {p}
    BY <1>2, <1>3 DEF HopIf
  <1>5. /\ NativeHops(m, list, toggle) \in Seq(Providers)
        /\ m.rule = "native" => IsInjective(NativeHops(m, list, toggle))
    <2> DEFINE behind == HopIf("cursor", /\ Connected(list, "cursor") /\ m.twin
                                         /\ m.provider = "grok" => toggle)
    <2>1. behind \in Seq(Providers) /\ IsInjective(behind) /\ ToSet(behind) \subseteq {"cursor"}
      BY <1>4 DEF Providers
    <2>2. NativeHops(m, list, toggle) = <<m.provider>> \o behind
      BY DEF NativeHops
    <2> HIDE DEF behind
    <2>3. m.rule = "native" => ToSet(<<m.provider>>) \cap ToSet(behind) = {}
      BY <1>1, <1>2, <2>1
    <2>4. <<m.provider>> \in Seq(Providers) /\ IsInjective(<<m.provider>>)
      BY <1>1, <1>2
    <2>5. /\ <<m.provider>> \o behind \in Seq(Providers)
          /\ m.rule = "native" => IsInjective(<<m.provider>> \o behind)
      BY <2>1, <2>3, <2>4, Behind
    <2> QED
      BY <2>2, <2>5
  <1>6. /\ CursorHops(m, list, toggle) \in Seq(Providers)
        /\ IsInjective(CursorHops(m, list, toggle))
    <2> DEFINE cursorOK == Connected(list, "cursor")
               first == HopIf("cursor", cursorOK)
               second == HopIf("grok", /\ cursorOK /\ toggle
                                       /\ m.provider = "grok" /\ m.twin /\ Connected(list, "grok"))
    <2>1. first \in Seq(Providers) /\ IsInjective(first) /\ ToSet(first) \subseteq {"cursor"}
      BY <1>4 DEF Providers
    <2>2. second \in Seq(Providers) /\ IsInjective(second) /\ ToSet(second) \subseteq {"grok"}
      BY <1>4 DEF Providers
    <2>3. CursorHops(m, list, toggle) = first \o second
      BY DEF CursorHops
    <2> HIDE DEF first, second
    <2>4. ToSet(first) \cap ToSet(second) = {}
      BY <2>1, <2>2
    <2>5. first \o second \in Seq(Providers) /\ IsInjective(first \o second)
      BY <2>1, <2>2, <2>4, Behind
    <2> QED
      BY <2>3, <2>5
  <1>7. /\ CatalogHops(m, list) \in Seq(Providers) /\ IsInjective(CatalogHops(m, list))
    <2> DEFINE listing == m.listedBy \ {"openai", "opencode"}
               serving == Kept(list, {c \in Creds : ProviderOf[c] \in listing})
    <2>1. serving \in Seq(Creds)
      BY KeptProperties
    <2>2. CatalogHops(m, list) = IF serving = << >> THEN << >> ELSE <<ProviderOf[Head(serving)]>>
      BY DEF CatalogHops
    <2> HIDE DEF serving
    <2>3. serving # << >> => ProviderOf[Head(serving)] \in Providers
      <3>1. serving # << >> => Head(serving) \in Creds
        BY <2>1, HeadAndTail
      <3> QED
        BY <3>1, ChainAssumption
    <2> QED
      BY <1>2, <1>3, <2>2, <2>3
  <1>8. <<"openai">> \in Seq(Providers) /\ IsInjective(<<"openai">>)
    BY <1>2 DEF Providers
  <1>9. <<m.provider>> \in Seq(Providers) /\ IsInjective(<<m.provider>>)
    BY <1>1, <1>2
  <1>10. /\ HopIf("opencode", Connected(list, "opencode")) \in Seq(Providers)
         /\ IsInjective(HopIf("opencode", Connected(list, "opencode")))
    BY <1>4 DEF Providers
  <1> QED
    BY <1>1, <1>5, <1>6, <1>7, <1>8, <1>9, <1>10 DEF ResolveChain

--------------------------------------------------------------------------------
(* The inductive invariant.  All of it but the types and the sticky map speaks of  *)
(* one request at a time.                                                      *)

\* Lists are lists of credentials and of providers; the rest is as in TypeOK.
Types ==
    /\ rows \in Seq(Creds) /\ IsInjective(rows)
    /\ gone \subseteq Creds /\ failover \in Toggles
    /\ sticky \in [Keys -> Creds \cup {None}]
    /\ pc \in [Requests -> PC]
    /\ model \in [Requests -> Models \cup {None}]
    /\ chain \in [Requests -> Seq(Providers)]
    /\ todo \in [Requests -> Seq(Creds)]
    /\ last \in [Requests -> Failure \cup Skip \cup {"none"}]
    /\ reply \in [Requests -> Reply]
    /\ metered \in [Requests -> Nat]
    /\ tried \in [Requests -> SUBSET Creds] /\ failed \in [Requests -> SUBSET Creds]
    /\ owed \in [Requests -> SUBSET Creds]
    /\ excused \subseteq Requests

\* Where a request is says what it was answered.
Replies(r) ==
    /\ pc[r] \in {"new"} \cup Running => reply[r] = "none"
    /\ pc[r] \in {"stream", "left"} => reply[r] = "stream"

\* In front of a hop, as opposed to Working at it.
Between(r) == pc[r] \in {"cap", "hop"}

\* The lists of a request have no provider twice and, at a hop, no credential twice
\* and only such as belong to the provider of that hop.
Lists(r) ==
    /\ pc[r] # "new" => model[r] \in Models
    /\ IsInjective(chain[r])
    /\ Working(r) => /\ chain[r] # << >> /\ todo[r] # << >> /\ IsInjective(todo[r])
                     /\ \A c \in ToSet(todo[r]) : ProviderOf[c] = Head(chain[r])

\* What is owed is stored, and the hop that looks for it finds it.
Owing(r) ==
    \A c \in owed[r] :
        /\ c \in ToSet(rows)
        /\ pc[r] # "new" /\ ProviderOf[c] \in Scope[KeyOf[r]]
        /\ Serves(c, ProviderOf[c], model[r])

\* What is owed was tried or is still ahead, on the list of this hop or at a later one.
Ahead(r) ==
    \A c \in owed[r] : c \notin tried[r] =>
        /\ Between(r) => ProviderOf[c] \in ToSet(chain[r])
        /\ Working(r) => c \in ToSet(todo[r]) \/ ProviderOf[c] \in ToSet(Tail(chain[r]))

\* What was tried is not ahead.
NoneAgain(r) ==
    /\ pc[r] = "new" => tried[r] = {}
    /\ Between(r) => \A c \in tried[r] : ProviderOf[c] \notin ToSet(chain[r])
    /\ Working(r) => \A c \in tried[r] : ProviderOf[c] \notin ToSet(Tail(chain[r]))
    /\ pc[r] \in {"turn", "refresh1", "exec1"} => tried[r] \cap ToSet(todo[r]) = {}
    /\ pc[r] \in {"refresh2", "exec2"} => /\ Head(todo[r]) \in tried[r]
                                          /\ tried[r] \cap ToSet(Tail(todo[r])) = {}

\* FailoverComplete and MeteredOnce of one request.
Told(r) == reply[r] \in Retryable \cup Skip => owed[r] \subseteq tried[r]
Counted(r) ==
    r \notin excused => metered[r] = IF pc[r] = "done" /\ reply[r] # "refused" THEN 1 ELSE 0

Local(r) ==
    Replies(r) /\ Lists(r) /\ Owing(r) /\ Ahead(r) /\ NoneAgain(r) /\ Told(r) /\ Counted(r)

IInv == Types /\ StickyServed /\ \A r \in Requests : Local(r)

\* Nothing has happened.
LEMMA InitInv == Init => IInv
  <1> SUFFICES ASSUME Init PROVE IInv
    OBVIOUS
  <1>1. /\ << >> \in Seq(Creds) /\ << >> \in Seq(Providers)
        /\ IsInjective(<< >>) /\ ToSet(<< >>) = {}
    BY DEF IsInjective, ToSet
  <1>2. Types
    BY <1>1 DEF Init, Types, PC, Reply
  <1>3. StickyServed
    BY DEF Init, StickyServed
  <1>4. ASSUME NEW r \in Requests PROVE Local(r)
    BY <1>1 DEF Init, Local, Replies, Lists, Owing, Ahead, NoneAgain, Told, Counted, Between,
                Working, Running, Retryable, Skip
  <1> QED
    BY <1>2, <1>3, <1>4 DEF IInv

--------------------------------------------------------------------------------
(* What a step of one request leaves alone.                                    *)

Alone(r) ==
    \A q \in Requests \ {r} :
        /\ pc'[q] = pc[q] /\ model'[q] = model[q] /\ chain'[q] = chain[q] /\ todo'[q] = todo[q]
        /\ reply'[q] = reply[q] /\ metered'[q] = metered[q]
        /\ tried'[q] = tried[q] /\ owed'[q] = owed[q]
        /\ q \in excused' <=> q \in excused

\* A request of which nothing changes keeps its part, as long as no row goes.
LEMMA SameRequest ==
    ASSUME NEW q \in Requests, Local(q), ToSet(rows) \subseteq ToSet(rows'),
           pc'[q] = pc[q], model'[q] = model[q], chain'[q] = chain[q], todo'[q] = todo[q],
           reply'[q] = reply[q], metered'[q] = metered[q],
           tried'[q] = tried[q], owed'[q] = owed[q],
           q \in excused' <=> q \in excused
    PROVE  Local(q)'
  <1>1. Replies(q)' /\ Lists(q)' /\ Told(q)' /\ Counted(q)'
    BY DEF Local, Replies, Lists, Told, Counted, Working
  <1>2. Owing(q)' /\ Ahead(q)' /\ NoneAgain(q)'
    BY DEF Local, Owing, Ahead, NoneAgain, Between, Working, Serves, MatchesSource
  <1> QED
    BY <1>1, <1>2 DEF Local

\* So it is enough to look at the request that takes the step.
LEMMA OneRequest ==
    ASSUME IInv, NEW r \in Requests, Alone(r), ToSet(rows) \subseteq ToSet(rows'),
           Types', StickyServed', Local(r)'
    PROVE  IInv'
  <1>1. ASSUME NEW q \in Requests \ {r} PROVE Local(q)'
    BY <1>1, SameRequest DEF IInv, Alone
  <1> QED
    BY <1>1 DEF IInv

\* The sticky map stays true while it stays the same: no served request is answered
\* another time or makes another attempt.
LEMMA SameSticky ==
    ASSUME IInv, sticky' = sticky,
           \A q \in Requests :
              reply[q] \in {"ok", "stream"} =>
                  reply'[q] = reply[q] /\ tried'[q] = tried[q] /\ failed'[q] = failed[q]
    PROVE  StickyServed'
  BY DEF IInv, StickyServed

\* What is owed stays so when nothing is added to it.
LEMMA StillOwing ==
    ASSUME NEW r \in Requests, Local(r), ToSet(rows) \subseteq ToSet(rows'),
           owed'[r] = owed[r], pc'[r] # "new", model'[r] = model[r]
    PROVE  Owing(r)'
  BY DEF Local, Owing, Serves, MatchesSource

\* A request that is over has its answer, and its usage event unless it was refused.
LEMMA Over ==
    ASSUME NEW r \in Requests, pc'[r] = "done", chain'[r] = << >>, model'[r] \in Models,
           Owing(r)',
           reply'[r] \in Retryable \cup Skip => owed'[r] \subseteq tried'[r],
           r \in excused' \/ metered'[r] = IF reply'[r] = "refused" THEN 0 ELSE 1
    PROVE  Local(r)'
  <1>1. IsInjective(<< >>)
    BY DEF IsInjective
  <1> QED
    BY <1>1 DEF Local, Replies, Lists, Ahead, NoneAgain, Told, Counted, Between, Working,
       Running

\* A request that is not at its end has no usage event yet and no answer, but for the
\* head of a stream.
LEMMA Before ==
    ASSUME NEW r \in Requests, Local(r), pc[r] # "done"
    PROVE  /\ r \in excused \/ metered[r] = 0
           /\ pc[r] \notin {"stream", "left"} /\ pc[r] \in PC => reply[r] = "none"
  BY DEF Local, Counted, Replies, PC

--------------------------------------------------------------------------------
(* The panel, and the end of the process.                                      *)

LEMMA PanelStep ==
    ASSUME IInv, NEW c \in Creds, Connect(c) \/ Disconnect(c)
    PROVE  IInv'
  <1>1. rows \in Seq(Creds) /\ IsInjective(rows)
    BY DEF IInv, Types
  <1>2. CASE Connect(c)
    <2>1. /\ rows' \in Seq(Creds) /\ ToSet(rows') = ToSet(rows) \cup {c} /\ IsInjective(rows')
      BY <1>1, <1>2, OneMore DEF Connect
    <2>2. Types'
      BY <1>2, <2>1 DEF IInv, Types, Connect, panel, requests, locals
    <2>3. StickyServed'
      BY <1>2, SameSticky DEF Connect, requests
    <2>4. ASSUME NEW q \in Requests PROVE Local(q)'
      BY <1>2, <2>1, SameRequest DEF IInv, Connect, requests, locals
    <2> QED
      BY <2>2, <2>3, <2>4 DEF IInv
  <1>3. CASE Disconnect(c)
    <2>1. /\ rows' \in Seq(Creds) /\ IsInjective(rows')
          /\ ToSet(rows') = ToSet(rows) \cap (Creds \ {c})
      BY <1>1, <1>3, KeptProperties DEF Disconnect
    <2>2. Types'
      BY <1>3, <2>1 DEF IInv, Types, Disconnect, requests, locals
    <2>3. StickyServed'
      BY <1>3, SameSticky DEF Disconnect, requests
    <2>4. ASSUME NEW q \in Requests PROVE Local(q)'
      <3>1. owed'[q] = owed[q] \ {c} /\ owed[q] \subseteq Creds /\ Local(q)
        BY <1>3 DEF IInv, Types, Disconnect
      <3>2. Replies(q)' /\ Lists(q)' /\ NoneAgain(q)' /\ Counted(q)'
        BY <1>3, <3>1 DEF Disconnect, requests, locals, Local, Replies, Lists, NoneAgain,
           Counted,
                          Between, Working
      <3>3. Ahead(q)' /\ Told(q)'
        BY <1>3, <3>1 DEF Disconnect, requests, locals, Local, Ahead, Told, Between, Working
      <3>4. Owing(q)'
        BY <1>3, <2>1, <3>1 DEF Disconnect, requests, locals, Local, Owing, Serves,
           MatchesSource
      <3> QED
        BY <3>2, <3>3, <3>4 DEF Local
    <2> QED
      BY <2>2, <2>3, <2>4 DEF IInv
  <1> QED
    BY <1>2, <1>3

LEMMA ToggleStep ==
    ASSUME IInv, Toggle
    PROVE  IInv'
  <1>1. Types'
    BY DEF IInv, Types, Toggle, requests, locals
  <1>2. StickyServed'
    BY SameSticky DEF Toggle, requests
  <1>3. ASSUME NEW q \in Requests PROVE Local(q)'
    BY SameRequest DEF IInv, Toggle, requests, locals
  <1> QED
    BY <1>1, <1>2, <1>3 DEF IInv

\* A crash ends what was under way, empties the sticky map and excuses what it cut.
LEMMA CrashStep ==
    ASSUME IInv, Crash
    PROVE  IInv'
  <1> DEFINE cut == {r \in Requests : pc[r] \in Running \cup {"stream", "left"}}
  <1>1. /\ pc' = [r \in Requests |-> IF r \in cut THEN "done" ELSE pc[r]]
        /\ chain' = [r \in Requests |-> << >>]
        /\ todo' = [r \in Requests |-> << >>]
        /\ last' = [r \in Requests |-> "none"]
        /\ sticky' = [k \in Keys |-> None]
        /\ excused' = excused \cup cut
        /\ UNCHANGED <<rows, gone, failover, model, reply, metered, tried, failed, owed>>
    BY DEF Crash, panel
  <1>2. << >> \in Seq(Creds) /\ << >> \in Seq(Providers) /\ IsInjective(<< >>)
    BY DEF IsInjective
  <1>3. Types'
    <2>1. pc' \in [Requests -> PC]
      BY <1>1 DEF IInv, Types, PC
    <2> QED
      BY <1>1, <1>2, <2>1 DEF IInv, Types
  <1>4. StickyServed'
    BY <1>1 DEF StickyServed
  <1>5. ASSUME NEW q \in Requests PROVE Local(q)'
    <2>1. Local(q) /\ pc[q] \in PC /\ chain'[q] = << >>
      BY <1>1 DEF IInv, Types
    <2>2. pc'[q] = IF q \in cut THEN "done" ELSE pc[q]
      BY <1>1
    <2>3. pc'[q] \in {"new", "done"} /\ (pc'[q] = "new" <=> pc[q] = "new")
      BY <2>1, <2>2 DEF PC, Running
    <2>4. Replies(q)' /\ Lists(q)'
      BY <1>1, <1>2, <2>1, <2>3 DEF Local, Replies, Lists, Working, Running
    <2>5. Owing(q)' /\ Ahead(q)' /\ NoneAgain(q)' /\ Told(q)'
      BY <1>1, <2>1, <2>3 DEF Local, Owing, Ahead, NoneAgain, Told, Working, Between, Serves,
                              MatchesSource
    <2>6. Counted(q)'
      BY <1>1, <2>1, <2>2 DEF Local, Counted
    <2> QED
      BY <2>4, <2>5, <2>6 DEF Local
  <1> QED
    BY <1>3, <1>4, <1>5 DEF IInv

--------------------------------------------------------------------------------
(* A request up to its first hop.                                              *)

LEMMA ArriveStep ==
    ASSUME IInv, NEW r \in Requests, NEW m \in Models, Arrive(r, m)
    PROVE  IInv'
  <1> DEFINE hops == ResolveChain(m, rows, failover)
  <1>1. rows \in Seq(Creds) /\ IsInjective(rows) /\ Local(r)
    BY DEF IInv, Types
  <1>2. hops \in Seq(Providers) /\ IsInjective(hops)
    BY <1>1, ChainProperties
  <1> HIDE DEF hops
  <1>3. /\ pc[r] = "new" /\ reply[r] = "none" /\ tried[r] = {}
        /\ r \in excused \/ metered[r] = 0
    BY <1>1 DEF Arrive, Local, Replies, NoneAgain, Counted
  <1>4. /\ model' = [model EXCEPT ![r] = m]
        /\ owed' = [owed EXCEPT ![r] = LeadsTo(hops, r, m)]
        /\ UNCHANGED <<rows, gone, failover, sticky, metered, tried, failed, excused>>
    BY DEF Arrive, hops, panel
  <1>5. LeadsTo(hops, r, m) \subseteq Creds
    BY <1>1, LenProperties DEF LeadsTo, ToSet
  <1>6. model'[r] = m /\ owed'[r] = LeadsTo(hops, r, m)
    BY <1>4 DEF IInv, Types
  <1>7. StickyServed'
    BY <1>3, <1>4, SameSticky DEF Arrive, Answer, IInv, Types
  <1>8. ASSUME pc'[r] # "new" PROVE Owing(r)'
    BY <1>4, <1>6, <1>8 DEF Owing, LeadsTo, Serves, MatchesSource
  <1>9. CASE Answer(r, "refused")
    <2>1. /\ pc' = [pc EXCEPT ![r] = "done"] /\ reply' = [reply EXCEPT ![r] = "refused"]
          /\ chain' = [chain EXCEPT ![r] = << >>] /\ todo' = [todo EXCEPT ![r] = << >>]
          /\ last' = [last EXCEPT ![r] = "none"]
      BY <1>9 DEF Answer, Return
    <2>2. Types'
      BY <1>4, <1>5, <2>1 DEF IInv, Types, PC, Reply
    <2>3. pc'[r] = "done" /\ reply'[r] = "refused" /\ chain'[r] = << >>
      BY <2>1 DEF IInv, Types
    <2>4. Local(r)'
      BY <1>3, <1>4, <1>6, <1>8, <2>3, Over DEF Retryable, Skip
    <2>5. Alone(r)
      BY <1>4, <2>1 DEF Alone, IInv, Types
    <2> QED
      BY <1>4, <1>7, <2>2, <2>4, <2>5, OneRequest
  <1>10. CASE /\ chain' = [chain EXCEPT ![r] = hops]
              /\ pc' = [pc EXCEPT ![r] = IF KeyOf[r] \in Capped THEN "cap" ELSE "hop"]
              /\ UNCHANGED <<todo, last, reply>>
    <2>1. Types'
      BY <1>2, <1>4, <1>5, <1>10 DEF IInv, Types, PC, Running
    <2>2. pc'[r] \in {"cap", "hop"} /\ chain'[r] = hops /\ reply'[r] = "none"
      BY <1>3, <1>10 DEF IInv, Types
    <2>3. Replies(r)' /\ Lists(r)' /\ Told(r)' /\ Counted(r)'
      BY <1>2, <1>3, <1>4, <1>6, <2>2 DEF Replies, Lists, Told, Counted, Working, Running,
                                         Retryable, Skip
    <2>4. Ahead(r)' /\ NoneAgain(r)'
      BY <1>3, <1>4, <1>6, <2>2 DEF Ahead, NoneAgain, Between, Working, LeadsTo, Serves
    <2>5. Local(r)'
      BY <1>8, <2>2, <2>3, <2>4 DEF Local
    <2>6. Alone(r)
      BY <1>4, <1>10 DEF Alone, IInv, Types
    <2> QED
      BY <1>4, <1>7, <2>1, <2>5, <2>6, OneRequest
  <1> QED
    BY <1>9, <1>10 DEF Arrive, hops

--------------------------------------------------------------------------------
(* Ends, and the steps that only move on.                                      *)

\* A request is answered and leaves the event it has to leave.
LEMMA AnswerStep ==
    ASSUME IInv, NEW r \in Requests, NEW what \in Reply, pc[r] \in Running, Answer(r, what),
           UNCHANGED <<rows, panel, model, owed>>,
           sticky' \in [Keys -> Creds \cup {None}],
           tried' \in [Requests -> SUBSET Creds], \A q \in Requests \ {r} : tried'[q] = tried[q],
           failed' \in [Requests -> SUBSET Creds],
           what \in Retryable \cup Skip => owed[r] \subseteq tried'[r],
           \/ what # "refused" /\ Record(r)
           \/ what = "refused" /\ UNCHANGED <<metered, excused>>
           \/ excused' = excused \cup {r} /\ UNCHANGED metered
    PROVE  Types' /\ Alone(r) /\ Local(r)'
  <1>1. /\ pc' = [pc EXCEPT ![r] = "done"] /\ reply' = [reply EXCEPT ![r] = what]
        /\ chain' = [chain EXCEPT ![r] = << >>] /\ todo' = [todo EXCEPT ![r] = << >>]
        /\ last' = [last EXCEPT ![r] = "none"]
        /\ UNCHANGED <<rows, gone, failover, model, owed>>
    BY DEF Answer, Return, panel
  <1>2. \/ metered' = [metered EXCEPT ![r] = @ + 1] /\ excused' = excused /\ what # "refused"
        \/ metered' = metered /\ excused' = excused \cup {r}
        \/ metered' = metered /\ excused' = excused /\ what = "refused"
    BY DEF Record
  <1>3. Local(r) /\ pc[r] # "done" /\ pc[r] # "new"
    BY DEF IInv, Running
  <1>4. metered' \in [Requests -> Nat] /\ excused' \subseteq Requests
    <2>1. metered \in [Requests -> Nat] /\ excused \subseteq Requests
      BY DEF IInv, Types
    <2>2. metered' \in [Requests -> Nat]
      <3>1. CASE metered' = metered
        BY <2>1, <3>1
      <3>2. CASE metered' = [metered EXCEPT ![r] = @ + 1]
        BY <2>1, <3>2
      <3> QED
        BY <1>2, <3>1, <3>2
    <2> QED
      BY <1>2, <2>1, <2>2
  <1>5. Types'
    <2>1. << >> \in Seq(Creds) /\ << >> \in Seq(Providers)
      OBVIOUS
    <2>2. /\ pc' \in [Requests -> PC] /\ reply' \in [Requests -> Reply]
          /\ chain' \in [Requests -> Seq(Providers)] /\ todo' \in [Requests -> Seq(Creds)]
          /\ last' \in [Requests -> Failure \cup Skip \cup {"none"}]
      BY <1>1, <2>1 DEF IInv, Types, PC
    <2> QED
      BY <1>1, <1>4, <2>2 DEF IInv, Types
  <1>6. Alone(r)
    BY <1>1, <1>2 DEF Alone, IInv, Types
  <1>7. /\ pc'[r] = "done" /\ reply'[r] = what /\ chain'[r] = << >>
        /\ model'[r] = model[r] /\ owed'[r] = owed[r]
    BY <1>1 DEF IInv, Types
  <1>8. r \in excused' \/ metered'[r] = IF what = "refused" THEN 0 ELSE 1
    <2>1. r \in excused \/ metered[r] = 0
      BY <1>3, Before
    <2> QED
      BY <1>2, <2>1 DEF IInv, Types
  <1>9. Owing(r)' /\ model'[r] \in Models
    BY <1>1, <1>3, <1>7, StillOwing DEF Local, Lists
  <1> QED
    BY <1>5, <1>6, <1>7, <1>8, <1>9, Over

\* The steps from a state of pc to another with everything the same.
LEMMA MoveOn ==
    ASSUME IInv, NEW r \in Requests, NEW to \in PC, pc' = [pc EXCEPT ![r] = to],
           UNCHANGED <<panel, sticky, model, locals, reply, metered, tried, failed, owed, excused>>,
           rows' \in Seq(Creds), IsInjective(rows'), ToSet(rows) \subseteq ToSet(rows'),
           \/ pc[r] = "cap" /\ to = "hop"
           \/ pc[r] \in {"turn", "refresh1"} /\ to \in {"refresh1", "exec1"}
           \/ pc[r] = "refresh2" /\ to = "exec2"
           \/ pc[r] = "stream" /\ to = "left"
    PROVE  IInv'
  <1>1. UNCHANGED <<gone, failover, sticky, model, chain, todo, last, reply, metered, tried,
                    failed, owed, excused>>
    BY DEF panel, locals
  <1>2. Types'
    BY <1>1 DEF IInv, Types
  <1>3. StickyServed'
    BY <1>1, SameSticky
  <1>4. Alone(r)
    BY <1>1 DEF Alone, IInv, Types
  <1>5. pc'[r] = to /\ Local(r)
    BY DEF IInv, Types
  <1>6. Replies(r)' /\ Lists(r)' /\ Told(r)' /\ Counted(r)'
    BY <1>1, <1>5 DEF Local, Replies, Lists, Told, Counted, Working, Running
  <1>7. Owing(r)' /\ Ahead(r)' /\ NoneAgain(r)'
    BY <1>1, <1>5 DEF Local, Owing, Ahead, NoneAgain, Between, Working, Serves, MatchesSource
  <1>8. Local(r)'
    BY <1>6, <1>7 DEF Local
  <1> QED
    BY <1>2, <1>3, <1>4, <1>8, OneRequest

LEMMA CapStep ==
    ASSUME IInv, NEW r \in Requests, CheckCap(r)
    PROVE  IInv'
  <1>1. rows' = rows /\ IsInjective(rows) /\ rows \in Seq(Creds) /\ pc[r] = "cap" /\ "hop" \in PC
    BY DEF CheckCap, IInv, Types, PC, Running
  <1>2. CASE pc' = [pc EXCEPT ![r] = "hop"] /\ UNCHANGED <<locals, reply, metered, excused>>
    BY <1>1, <1>2, MoveOn DEF CheckCap
  <1>3. ASSUME NEW what \in {"refused", "error"}, Answer(r, what), UNCHANGED metered,
               \/ what = "refused" /\ UNCHANGED excused
               \/ excused' = excused \cup {r}
        PROVE  IInv'
    <2>1. /\ UNCHANGED <<rows, panel, model, owed>>
          /\ sticky' = sticky /\ tried' = tried /\ failed' = failed
          /\ what \in Reply /\ what \notin Retryable \cup Skip /\ pc[r] \in Running
      BY <1>1 DEF CheckCap, Reply, Retryable, Skip, Running
    <2>2. /\ sticky' \in [Keys -> Creds \cup {None}] /\ tried' \in [Requests -> SUBSET Creds]
          /\ failed' \in [Requests -> SUBSET Creds]
          /\ \A q \in Requests \ {r} : tried'[q] = tried[q]
      BY <2>1 DEF IInv, Types
    <2>3. Types' /\ Alone(r) /\ Local(r)'
      BY <1>3, <2>1, <2>2, AnswerStep
    <2>4. StickyServed'
      <3>1. reply[r] = "none" /\ \A q \in Requests \ {r} : reply'[q] = reply[q]
        BY <1>1, <2>3 DEF IInv, Local, Replies, Running, Alone
      <3> QED
        BY <2>1, <3>1, SameSticky
    <2> QED
      BY <1>1, <2>3, <2>4, OneRequest
  <1>4. CASE Answer(r, "refused") /\ UNCHANGED <<metered, excused>>
    BY <1>3, <1>4
  <1>5. CASE StoreFails(r)
    BY <1>3, <1>5 DEF StoreFails
  <1> QED
    BY <1>2, <1>4, <1>5 DEF CheckCap

LEMMA TurnStep ==
    ASSUME IInv, NEW r \in Requests, Turn(r) \/ ClientLeaves(r)
    PROVE  IInv'
  <1>1. IsInjective(rows) /\ rows \in Seq(Creds) /\ {"refresh1", "exec1", "left"} \subseteq PC
    BY DEF IInv, Types, PC, Running
  <1>2. CASE Turn(r)
    <2>1. PICK to \in {"refresh1", "exec1"} : pc' = [pc EXCEPT ![r] = to]
      BY <1>2 DEF Turn
    <2> QED
      BY <1>1, <1>2, <2>1, MoveOn DEF Turn
  <1>3. CASE ClientLeaves(r)
    BY <1>1, <1>3, MoveOn DEF ClientLeaves
  <1> QED
    BY <1>2, <1>3

\* Save may put the row of a removed credential back: no row goes.
LEMMA RefreshedStep ==
    ASSUME IInv, NEW r \in Requests, Refreshed(r)
    PROVE  IInv'
  <1>1. /\ IsInjective(rows) /\ rows \in Seq(Creds) /\ todo[r] \in Seq(Creds)
        /\ pc[r] \in {"refresh1", "refresh2"}
    BY DEF Refreshed, IInv, Types
  <1>2. todo[r] # << >>
    BY <1>1 DEF IInv, Local, Lists, Working
  <1>3. Head(todo[r]) \in Creds
    BY <1>1, <1>2, HeadAndTail
  <1>4. rows' \in Seq(Creds) /\ IsInjective(rows') /\ ToSet(rows) \subseteq ToSet(rows')
    <2>1. CASE rows' = rows
      BY <1>1, <2>1
    <2>2. CASE rows' = Append(rows, Head(todo[r])) /\ Head(todo[r]) \notin ToSet(rows)
      BY <1>1, <1>3, <2>2, OneMore
    <2> QED
      BY <2>1, <2>2 DEF Refreshed, SaveRow
  <1>5. PICK to \in {"exec1", "exec2"} : /\ pc' = [pc EXCEPT ![r] = to]
                                         /\ pc[r] = "refresh1" <=> to = "exec1"
    BY <1>1 DEF Refreshed, IInv, Types
  <1>6. to \in PC
    BY <1>5 DEF PC, Running
  <1> QED
    BY <1>1, <1>4, <1>5, <1>6, MoveOn DEF Refreshed

--------------------------------------------------------------------------------
(* The hops.                                                                   *)

\* A hop that is passed over had nothing that was owed and not tried.
LEMMA PassOverStep ==
    ASSUME IInv, NEW r \in Requests, NEW why \in Skip, pc[r] = "hop", chain[r] # << >>,
           PassOver(r, why), UNCHANGED <<rows, panel, sticky, model, tried, failed, owed>>,
           \A c \in owed[r] : ProviderOf[c] # Head(chain[r])
    PROVE  IInv'
  <1>1. /\ chain[r] \in Seq(Providers) /\ Local(r)
        /\ last' = [last EXCEPT ![r] = why] /\ chain' = [chain EXCEPT ![r] = Tail(chain[r])]
        /\ UNCHANGED <<rows, gone, failover, sticky, model, pc, todo, reply, metered, tried,
                       failed, owed, excused>>
    BY DEF PassOver, IInv, Types, panel
  <1>2. /\ Tail(chain[r]) \in Seq(Providers) /\ IsInjective(Tail(chain[r]))
        /\ ToSet(chain[r]) = {Head(chain[r])} \cup ToSet(Tail(chain[r]))
    BY <1>1, HeadAndTail DEF Local, Lists
  <1>3. chain' \in [Requests -> Seq(Providers)] /\ chain'[r] = Tail(chain[r])
    BY <1>1, <1>2 DEF IInv, Types
  <1>4. Types'
    BY <1>1, <1>3 DEF IInv, Types
  <1>5. StickyServed'
    BY <1>1, SameSticky
  <1>6. Alone(r)
    BY <1>1 DEF Alone, IInv, Types
  <1>7. Replies(r)' /\ Lists(r)' /\ Told(r)' /\ Counted(r)'
    BY <1>1, <1>2, <1>3 DEF Local, Replies, Lists, Told, Counted, Working
  <1>8. Owing(r)' /\ Ahead(r)' /\ NoneAgain(r)'
    BY <1>1, <1>2, <1>3 DEF Local, Owing, Ahead, NoneAgain, Between, Working, Serves,
       MatchesSource
  <1>9. Local(r)'
    BY <1>7, <1>8 DEF Local
  <1> QED
    BY <1>1, <1>4, <1>5, <1>6, <1>9, OneRequest

\* A hop begins with the list of all that serve it.
LEMMA HopBegins ==
    ASSUME IInv, NEW r \in Requests, pc[r] = "hop", chain[r] # << >>,
           NEW creds \in Seq(Creds), creds # << >>, IsInjective(creds),
           ToSet(creds) = {c \in ToSet(rows) : Serves(c, Head(chain[r]), model[r])},
           todo' = [todo EXCEPT ![r] = creds], pc' = [pc EXCEPT ![r] = "turn"],
           UNCHANGED <<rows, panel, sticky, model, chain, last, reply, metered, tried, failed, owed,
                       excused>>
    PROVE  IInv'
  <1>1. /\ chain[r] \in Seq(Providers) /\ Local(r) /\ "turn" \in PC
        /\ UNCHANGED <<gone, failover>>
    BY DEF IInv, Types, PC, Running, panel
  <1>2. ToSet(chain[r]) = {Head(chain[r])} \cup ToSet(Tail(chain[r]))
        /\ Head(chain[r]) \notin ToSet(Tail(chain[r]))
    BY <1>1, HeadAndTail DEF Local, Lists
  <1>3. pc'[r] = "turn" /\ todo'[r] = creds
    BY DEF IInv, Types
  <1>4. Types'
    BY <1>1 DEF IInv, Types
  <1>5. StickyServed'
    BY SameSticky
  <1>6. Alone(r)
    BY DEF Alone, IInv, Types
  <1>7. Replies(r)' /\ Told(r)' /\ Counted(r)'
    BY <1>1, <1>3 DEF Local, Replies, Told, Counted, Running
  <1>8. Lists(r)'
    BY <1>1, <1>3 DEF Local, Lists, Serves
  <1>9. Owing(r)'
    BY <1>1, <1>3, StillOwing
  <1>10. Ahead(r)'
    <2> SUFFICES ASSUME NEW c \in owed[r], c \notin tried[r],
                        ProviderOf[c] \notin ToSet(Tail(chain[r]))
                 PROVE  c \in ToSet(creds)
      BY <1>3 DEF Ahead, Between
    <2>1. ProviderOf[c] = Head(chain[r])
      BY <1>1, <1>2 DEF Local, Ahead, Between
    <2> QED
      BY <1>1, <2>1 DEF Local, Owing
  <1>11. NoneAgain(r)'
    <2>1. \A c \in tried[r] :
              ProviderOf[c] # Head(chain[r]) /\ ProviderOf[c] \notin ToSet(Tail(chain[r]))
      BY <1>1, <1>2 DEF Local, NoneAgain, Between
    <2>2. tried[r] \cap ToSet(creds) = {}
      BY <2>1 DEF Serves
    <2> QED
      BY <1>3, <2>1, <2>2 DEF NoneAgain, Between
  <1>12. Local(r)'
    BY <1>7, <1>8, <1>9, <1>10, <1>11 DEF Local
  <1> QED
    BY <1>4, <1>5, <1>6, <1>12, OneRequest

LEMMA TryHopStep ==
    ASSUME IInv, NEW r \in Requests, TryHop(r)
    PROVE  IInv'
  <1> DEFINE p == Head(chain[r])
             creds == PickCredentials(p, model[r], rows, sticky[KeyOf[r]])
  <1>1. /\ pc[r] = "hop" /\ chain[r] # << >>
        /\ UNCHANGED <<rows, panel, sticky, model, tried, failed, owed>>
    BY DEF TryHop
  <1>2. rows \in Seq(Creds) /\ IsInjective(rows) /\ Local(r)
    BY DEF IInv, Types
  <1>3. /\ creds \in Seq(Creds) /\ IsInjective(creds)
        /\ ToSet(creds) = {c \in ToSet(rows) : Serves(c, p, model[r])}
    BY <1>2, PickProperties
  <1> HIDE DEF creds, p
  <1>4. CASE p \notin Scope[KeyOf[r]] /\ PassOver(r, "403")
    <2>1. \A c \in owed[r] : ProviderOf[c] # Head(chain[r])
      BY <1>2, <1>4 DEF Local, Owing, p
    <2> QED
      BY <1>1, <1>4, <2>1, PassOverStep DEF Skip
  <1>5. CASE creds = << >> /\ PassOver(r, "503")
    <2>1. {c \in ToSet(rows) : Serves(c, p, model[r])} = {}
      BY <1>3, <1>5 DEF ToSet
    <2>2. \A c \in owed[r] : ProviderOf[c] # Head(chain[r])
      BY <1>2, <2>1 DEF Local, Owing, p
    <2> QED
      BY <1>1, <1>5, <2>2, PassOverStep DEF Skip
  <1>6. CASE /\ creds # << >>
             /\ todo' = [todo EXCEPT ![r] = creds] /\ pc' = [pc EXCEPT ![r] = "turn"]
             /\ UNCHANGED <<chain, last, reply, metered, excused>>
    BY <1>1, <1>3, <1>6, HopBegins DEF p
  <1>7. CASE StoreFails(r)
    <2>1. /\ Answer(r, "error") /\ excused' = excused \cup {r} /\ UNCHANGED metered
          /\ "error" \in Reply /\ "error" \notin Retryable \cup Skip /\ pc[r] \in Running
      BY <1>1, <1>7 DEF StoreFails, Reply, Retryable, Skip, Running
    <2>2. /\ sticky' \in [Keys -> Creds \cup {None}] /\ tried' \in [Requests -> SUBSET Creds]
          /\ failed' \in [Requests -> SUBSET Creds]
          /\ \A q \in Requests \ {r} : tried'[q] = tried[q]
      BY <1>1 DEF IInv, Types
    <2>3. Types' /\ Alone(r) /\ Local(r)'
      BY <1>1, <2>1, <2>2, AnswerStep
    <2>4. reply[r] = "none" /\ \A q \in Requests \ {r} : reply'[q] = reply[q]
      BY <1>2, <2>1, <2>3 DEF Local, Replies, Alone
    <2>5. StickyServed'
      BY <1>1, <2>4, SameSticky
    <2> QED
      BY <1>1, <2>3, <2>5, OneRequest
  <1> QED
    BY <1>4, <1>5, <1>6, <1>7 DEF TryHop, p, creds

\* A chain that is over has left nothing untried.
LEMMA HopsEndStep ==
    ASSUME IInv, NEW r \in Requests, HopsEnd(r)
    PROVE  IInv'
  <1>1. /\ pc[r] = "hop" /\ chain[r] = << >> /\ Record(r) /\ Answer(r, last[r])
        /\ UNCHANGED <<rows, panel, sticky, model, tried, failed, owed>> /\ Local(r)
    BY DEF HopsEnd, IInv
  <1>2. last[r] \in Reply /\ last[r] # "refused" /\ pc[r] \in Running
    BY <1>1 DEF IInv, Types, Reply, Failure, Retryable, Skip, Running
  <1>3. owed[r] \subseteq tried[r]
    BY <1>1 DEF Local, Ahead, Between, ToSet
  <1>4. /\ sticky' \in [Keys -> Creds \cup {None}] /\ tried' \in [Requests -> SUBSET Creds]
        /\ failed' \in [Requests -> SUBSET Creds]
        /\ \A q \in Requests \ {r} : tried'[q] = tried[q]
    BY <1>1 DEF IInv, Types
  <1>5. Types' /\ Alone(r) /\ Local(r)'
    BY <1>1, <1>2, <1>3, <1>4, AnswerStep
  <1>6. reply[r] = "none" /\ \A q \in Requests \ {r} : reply'[q] = reply[q]
    BY <1>1, <1>2, <1>5 DEF Local, Replies, Alone
  <1>7. StickyServed'
    BY <1>1, <1>6, SameSticky
  <1> QED
    BY <1>1, <1>5, <1>7, OneRequest

--------------------------------------------------------------------------------
(* The credentials of a hop.                                                   *)

\* What is known at an attempt: the lists are not empty, and what was tried is the
\* first entry and nothing behind it.
LEMMA AtAttempt ==
    ASSUME IInv, NEW r \in Requests, pc[r] \in {"exec1", "exec2", "refresh2"}
    PROVE  /\ todo[r] \in Seq(Creds) /\ todo[r] # << >> /\ Head(todo[r]) \in Creds
           /\ Tail(todo[r]) \in Seq(Creds) /\ Len(Tail(todo[r])) = Len(todo[r]) - 1
           /\ Len(todo[r]) \in Nat /\ (Len(todo[r]) > 1 => Tail(todo[r]) # << >>)
           /\ IsInjective(Tail(todo[r]))
           /\ ToSet(todo[r]) = {Head(todo[r])} \cup ToSet(Tail(todo[r]))
           /\ Head(todo[r]) \notin ToSet(Tail(todo[r]))
           /\ tried[r] \cap ToSet(Tail(todo[r])) = {}
           /\ chain[r] \in Seq(Providers) /\ chain[r] # << >>
           /\ Tail(chain[r]) \in Seq(Providers) /\ Len(Tail(chain[r])) = Len(chain[r]) - 1
           /\ Len(chain[r]) \in Nat /\ IsInjective(Tail(chain[r]))
           /\ Head(chain[r]) \notin ToSet(Tail(chain[r]))
           /\ \A c \in ToSet(todo[r]) : ProviderOf[c] = Head(chain[r])
  <1>1. todo[r] \in Seq(Creds) /\ chain[r] \in Seq(Providers) /\ Local(r)
    BY DEF IInv, Types
  <1>2. /\ todo[r] # << >> /\ chain[r] # << >> /\ IsInjective(todo[r]) /\ IsInjective(chain[r])
        /\ \A c \in ToSet(todo[r]) : ProviderOf[c] = Head(chain[r])
    BY <1>1 DEF Local, Lists, Working
  <1>3. /\ Head(todo[r]) \in Creds /\ Tail(todo[r]) \in Seq(Creds)
        /\ Len(Tail(todo[r])) = Len(todo[r]) - 1 /\ IsInjective(Tail(todo[r]))
        /\ Len(todo[r]) > 1 => Tail(todo[r]) # << >>
        /\ ToSet(todo[r]) = {Head(todo[r])} \cup ToSet(Tail(todo[r]))
        /\ Head(todo[r]) \notin ToSet(Tail(todo[r]))
    BY <1>1, <1>2, HeadAndTail
  <1>4. /\ Tail(chain[r]) \in Seq(Providers) /\ Len(Tail(chain[r])) = Len(chain[r]) - 1
        /\ IsInjective(Tail(chain[r])) /\ Head(chain[r]) \notin ToSet(Tail(chain[r]))
    BY <1>1, <1>2, HeadAndTail
  <1>5. Len(todo[r]) \in Nat /\ Len(chain[r]) \in Nat
    BY <1>1, LenProperties
  <1>6. tried[r] \cap ToSet(Tail(todo[r])) = {}
    BY <1>1, <1>3 DEF Local, NoneAgain
  <1> QED
    BY <1>1, <1>2, <1>3, <1>4, <1>5, <1>6

\* After a failure: what is owed was tried, this time or before, or is still ahead.
LEMMA FailStep ==
    ASSUME IInv, NEW r \in Requests, NEW how \in Failure,
           pc[r] \in {"exec1", "exec2", "refresh2"}, Fail(r, how),
           UNCHANGED <<rows, panel, sticky, model, owed>>,
           tried' = [tried EXCEPT ![r] = @ \cup {Head(todo[r])}],
           failed' = failed \/ failed' = [failed EXCEPT ![r] = @ \cup {Head(todo[r])}]
    PROVE  IInv'
  <1> DEFINE t == todo[r]
             h == chain[r]
  <1>1. /\ Head(t) \in Creds /\ Tail(t) \in Seq(Creds) /\ IsInjective(Tail(t))
        /\ Len(Tail(t)) = Len(t) - 1 /\ Len(t) \in Nat /\ (Len(t) > 1 => Tail(t) # << >>)
        /\ ToSet(t) = {Head(t)} \cup ToSet(Tail(t)) /\ Head(t) \notin ToSet(Tail(t))
        /\ tried[r] \cap ToSet(Tail(t)) = {}
        /\ h # << >> /\ Tail(h) \in Seq(Providers) /\ IsInjective(Tail(h))
        /\ Len(Tail(h)) = Len(h) - 1 /\ Len(h) \in Nat
        /\ Head(h) \notin ToSet(Tail(h))
        /\ \A c \in ToSet(t) : ProviderOf[c] = Head(h)
    BY AtAttempt
  <1>2. /\ Local(r) /\ pc[r] \in Running /\ pc[r] # "new" /\ Working(r)
        /\ tried'[r] = tried[r] \cup {Head(t)} /\ owed'[r] = owed[r] /\ model'[r] = model[r]
        /\ \A q \in Requests \ {r} : tried'[q] = tried[q] /\ failed'[q] = failed[q]
        /\ UNCHANGED <<rows, gone, failover, sticky, model, owed>>
    <2>1. \A q \in Requests \ {r} : failed'[q] = failed[q]
      BY DEF IInv, Types
    <2>2. \A q \in Requests \ {r} : tried'[q] = tried[q]
      BY DEF IInv, Types
    <2>3. tried'[r] = tried[r] \cup {Head(t)} /\ owed'[r] = owed[r] /\ model'[r] = model[r]
      BY DEF IInv, Types
    <2>4. Local(r) /\ pc[r] \in Running /\ pc[r] # "new" /\ Working(r)
      BY DEF IInv, Running, Working
    <2> QED
      BY <2>1, <2>2, <2>3, <2>4 DEF panel
  <1>3. tried' \in [Requests -> SUBSET Creds] /\ failed' \in [Requests -> SUBSET Creds]
    <2>1. tried' \in [Requests -> SUBSET Creds]
      BY <1>1 DEF IInv, Types
    <2>2. failed \in [Requests -> SUBSET Creds] /\ failed[r] \cup {Head(t)} \in SUBSET Creds
      BY <1>1 DEF IInv, Types
    <2>3. failed' \in [Requests -> SUBSET Creds]
      BY <2>2
    <2> QED
      BY <2>1, <2>3
  <1>4. /\ tried'[r] \cap ToSet(Tail(t)) = {}
        /\ \A c \in tried'[r] : ProviderOf[c] \notin ToSet(Tail(h))
        /\ \A c \in owed[r] : \/ c \in tried'[r] \/ c \in ToSet(Tail(t))
                              \/ ProviderOf[c] \in ToSet(Tail(h))
    <2>1. /\ \A c \in tried[r] : ProviderOf[c] \notin ToSet(Tail(h))
          /\ \A c \in owed[r] : c \in tried[r] \/ c \in ToSet(t) \/ ProviderOf[c] \in ToSet(Tail(h))
      BY <1>2 DEF Local, NoneAgain, Ahead
    <2> QED
      BY <1>1, <1>2, <2>1
  <1>5. reply[r] = "none"
    BY <1>2 DEF Local, Replies
  <1>6. Len(Tail(t)) = 0 => ToSet(Tail(t)) = {}
    BY <1>1, EmptySeq DEF ToSet
  <1>7. Len(Tail(h)) = 0 => ToSet(Tail(h)) = {}
    BY <1>1, EmptySeq DEF ToSet
  <1> HIDE DEF t, h
  <1>8. CASE /\ how \in Retryable /\ Len(t) > 1
             /\ last' = [last EXCEPT ![r] = how] /\ todo' = [todo EXCEPT ![r] = Tail(t)]
             /\ pc' = [pc EXCEPT ![r] = "turn"]
             /\ UNCHANGED <<chain, reply, metered, excused>>
    <2>1. pc'[r] = "turn" /\ todo'[r] = Tail(t) /\ Tail(t) # << >> /\ chain'[r] = h
      <3>1. Tail(t) # << >>
        BY <1>1, <1>8
      <3>2. pc'[r] = "turn" /\ todo'[r] = Tail(t) /\ chain'[r] = h
        BY <1>8 DEF IInv, Types, h
      <3> QED
        BY <3>1, <3>2
    <2>2. Types'
      BY <1>1, <1>2, <1>3, <1>8 DEF IInv, Types, PC, Running, Failure
    <2>3. StickyServed'
      BY <1>2, <1>5, <1>8, SameSticky
    <2>4. Alone(r)
      BY <1>2, <1>8 DEF Alone, IInv, Types
    <2>5. Replies(r)' /\ Told(r)' /\ Counted(r)'
      BY <1>2, <1>5, <1>8, <2>1 DEF Local, Replies, Told, Counted, Retryable, Skip, Running
    <2>6. Lists(r)'
      BY <1>1, <1>2, <1>8, <2>1 DEF Local, Lists, h
    <2>7. Owing(r)'
      BY <1>2, <2>1, StillOwing
    <2>8. Ahead(r)' /\ NoneAgain(r)'
      BY <1>2, <1>4, <2>1 DEF Ahead, NoneAgain, Between, Working
    <2>9. Local(r)'
      BY <2>5, <2>6, <2>7, <2>8 DEF Local
    <2> QED
      BY <1>2, <2>2, <2>3, <2>4, <2>9, OneRequest
  <1>9. CASE /\ how \in Retryable /\ Len(t) = 1 /\ Len(h) > 1
             /\ last' = [last EXCEPT ![r] = how] /\ todo' = [todo EXCEPT ![r] = << >>]
             /\ chain' = [chain EXCEPT ![r] = Tail(h)] /\ pc' = [pc EXCEPT ![r] = "hop"]
             /\ UNCHANGED <<reply, metered, excused>>
    <2>1. pc'[r] = "hop" /\ chain'[r] = Tail(h) /\ ToSet(Tail(t)) = {}
      BY <1>1, <1>6, <1>9 DEF IInv, Types
    <2>2. Types'
      <3>1. << >> \in Seq(Creds)
        OBVIOUS
      <3> QED
        BY <1>1, <1>2, <1>3, <1>9, <3>1 DEF IInv, Types, PC, Running, Failure
    <2>3. StickyServed'
      BY <1>2, <1>5, <1>9, SameSticky
    <2>4. Alone(r)
      BY <1>2, <1>9 DEF Alone, IInv, Types
    <2>5. Replies(r)' /\ Told(r)' /\ Counted(r)'
      BY <1>2, <1>5, <1>9, <2>1 DEF Local, Replies, Told, Counted, Retryable, Skip, Running
    <2>6. Lists(r)'
      BY <1>1, <1>2, <2>1 DEF Local, Lists, Working
    <2>7. Owing(r)'
      BY <1>2, <2>1, StillOwing
    <2>8. Ahead(r)' /\ NoneAgain(r)'
      BY <1>2, <1>4, <2>1 DEF Ahead, NoneAgain, Between, Working
    <2>9. Local(r)'
      BY <2>5, <2>6, <2>7, <2>8 DEF Local
    <2> QED
      BY <1>2, <2>2, <2>3, <2>4, <2>9, OneRequest
  <1>10. CASE /\ how \in Retryable => Len(t) = 1 /\ Len(h) = 1
              /\ Record(r) /\ Answer(r, how)
    <2>1. how \in Retryable \cup Skip => owed[r] \subseteq tried'[r]
      BY <1>1, <1>4, <1>6, <1>7, <1>10 DEF Failure, Retryable, Skip
    <2>2. how \in Reply /\ how # "refused"
      BY DEF Failure, Retryable, Reply
    <2>3. sticky' \in [Keys -> Creds \cup {None}]
      BY <1>2 DEF IInv, Types
    <2>4. Types' /\ Alone(r) /\ Local(r)'
      BY <1>2, <1>3, <1>10, <2>1, <2>2, <2>3, AnswerStep
    <2>5. StickyServed'
      <3>1. \A q \in Requests \ {r} : reply'[q] = reply[q]
        BY <2>4 DEF Alone
      <3> QED
        BY <1>2, <1>5, <3>1, SameSticky
    <2> QED
      BY <1>2, <2>4, <2>5, OneRequest
  <1> QED
    BY <1>8, <1>9, <1>10 DEF Fail, t, h

\* A refresh that fails: with the old copy to the provider, or on as after the 401.
LEMMA RefreshFailsStep ==
    ASSUME IInv, NEW r \in Requests, RefreshFails(r)
    PROVE  IInv'
  <1>1. UNCHANGED <<rows, panel, sticky, model, tried, failed, owed>>
    BY DEF RefreshFails
  <1>2. CASE /\ pc[r] = "refresh1" /\ pc' = [pc EXCEPT ![r] = "exec1"]
             /\ UNCHANGED <<locals, reply, metered, excused>>
    <2>1. "exec1" \in PC /\ rows \in Seq(Creds) /\ IsInjective(rows)
      BY DEF IInv, Types, PC, Running
    <2> QED
      BY <1>1, <1>2, <2>1, MoveOn
  <1>3. CASE pc[r] = "refresh2" /\ Fail(r, "401")
    <2>1. Head(todo[r]) \in tried[r]
      BY <1>3 DEF IInv, Local, NoneAgain
    <2>2. tried' = [tried EXCEPT ![r] = @ \cup {Head(todo[r])}]
      BY <1>1, <2>1 DEF IInv, Types
    <2>3. "401" \in Failure
      BY DEF Failure, Retryable
    <2> QED
      BY <1>1, <1>3, <2>2, <2>3, FailStep
  <1> QED
    BY <1>2, <1>3 DEF RefreshFails

LEMMA FailedStep ==
    ASSUME IInv, NEW r \in Requests, Failed(r)
    PROVE  IInv'
  <1>1. PICK how \in Failure : Fail(r, how)
    BY DEF Failed
  <1> QED
    BY <1>1, FailStep DEF Failed, Executing, Attempted, InVain

\* The first 401: the credential was tried, and gets its second attempt.
LEMMA UnauthorizedStep ==
    ASSUME IInv, NEW r \in Requests, Unauthorized(r)
    PROVE  IInv'
  <1>1. /\ pc[r] = "exec1" /\ pc' = [pc EXCEPT ![r] = "refresh2"]
        /\ tried' = [tried EXCEPT ![r] = @ \cup {Head(todo[r])}]
        /\ failed' = [failed EXCEPT ![r] = @ \cup {Head(todo[r])}]
        /\ UNCHANGED <<rows, gone, failover, sticky, model, chain, todo, last, reply, metered,
                       owed, excused>>
    BY DEF Unauthorized, Attempted, InVain, panel, locals
  <1>2. /\ Head(todo[r]) \in Creds /\ Head(todo[r]) \notin ToSet(Tail(todo[r]))
        /\ tried[r] \cap ToSet(Tail(todo[r])) = {} /\ Head(todo[r]) \in ToSet(todo[r])
        /\ ProviderOf[Head(todo[r])] \notin ToSet(Tail(chain[r]))
    BY <1>1, AtAttempt
  <1>3. pc'[r] = "refresh2" /\ tried'[r] = tried[r] \cup {Head(todo[r])} /\ Local(r)
    BY <1>1 DEF IInv, Types
  <1>4. Types'
    BY <1>1, <1>2 DEF IInv, Types, PC, Running
  <1>5. StickyServed'
    <2>1. reply[r] = "none"
      BY <1>1, <1>3 DEF Local, Replies, Running
    <2>2. \A q \in Requests \ {r} : tried'[q] = tried[q] /\ failed'[q] = failed[q]
      BY <1>1 DEF IInv, Types
    <2> QED
      BY <1>1, <2>1, <2>2, SameSticky
  <1>6. Alone(r)
    BY <1>1 DEF Alone, IInv, Types
  <1>7. Replies(r)' /\ Lists(r)' /\ Told(r)' /\ Counted(r)'
    BY <1>1, <1>3 DEF Local, Replies, Lists, Told, Counted, Working, Running
  <1>8. Owing(r)'
    BY <1>1, <1>3, StillOwing
  <1>9. Ahead(r)'
    BY <1>1, <1>3 DEF Local, Ahead, Between, Working
  <1>10. NoneAgain(r)'
    BY <1>1, <1>2, <1>3 DEF Local, NoneAgain, Between, Working
  <1>11. Local(r)'
    BY <1>7, <1>8, <1>9, <1>10 DEF Local
  <1> QED
    BY <1>1, <1>4, <1>5, <1>6, <1>11, OneRequest

--------------------------------------------------------------------------------
(* Success, and what follows a stream.                                         *)

\* The credential that answered sticks to the key, and the request that it served is
\* the witness for it.
LEMMA SucceededStep ==
    ASSUME IInv, NEW r \in Requests, Succeeded(r)
    PROVE  IInv'
  <1>1. /\ pc[r] \in {"exec1", "exec2"}
        /\ tried' = [tried EXCEPT ![r] = @ \cup {Head(todo[r])}]
        /\ failed' = [failed EXCEPT ![r] = @ \ {Head(todo[r])}]
        /\ sticky' = [sticky EXCEPT ![KeyOf[r]] = Head(todo[r])]
        /\ UNCHANGED <<rows, panel, gone, failover, model, owed>>
    BY DEF Succeeded, Executing, Attempted, Sticks, panel
  <1>2. Head(todo[r]) \in Creds
    BY <1>1, AtAttempt
  <1>3. /\ Local(r) /\ pc[r] \in Running /\ pc[r] # "new" /\ KeyOf[r] \in Keys
        /\ tried'[r] = tried[r] \cup {Head(todo[r])} /\ failed'[r] = failed[r] \ {Head(todo[r])}
        /\ \A q \in Requests \ {r} : tried'[q] = tried[q] /\ failed'[q] = failed[q]
    BY <1>1, RequestsAssumption DEF IInv, Types, Running
  <1>4. reply[r] = "none"
    BY <1>3 DEF Local, Replies
  <1>5. /\ tried' \in [Requests -> SUBSET Creds] /\ failed' \in [Requests -> SUBSET Creds]
        /\ sticky' \in [Keys -> Creds \cup {None}]
    BY <1>1, <1>2 DEF IInv, Types
  <1>6. ASSUME reply'[r] \in {"ok", "stream"}, \A q \in Requests \ {r} : reply'[q] = reply[q]
        PROVE  StickyServed'
    <2> SUFFICES ASSUME NEW k \in Keys, sticky'[k] # None
                 PROVE  \E q \in Requests : /\ KeyOf[q] = k /\ reply'[q] \in {"ok", "stream"}
                                            /\ sticky'[k] \in tried'[q] \ failed'[q]
      BY DEF StickyServed
    <2>1. CASE k = KeyOf[r]
      <3>1. sticky'[k] = Head(todo[r])
        BY <1>1, <2>1 DEF IInv, Types
      <3> QED
        BY <1>3, <1>6, <2>1, <3>1
    <2>2. CASE k # KeyOf[r]
      <3>1. sticky'[k] = sticky[k]
        BY <1>1, <2>2 DEF IInv, Types
      <3>2. PICK q \in Requests : /\ KeyOf[q] = k /\ reply[q] \in {"ok", "stream"}
                                  /\ sticky[k] \in tried[q] \ failed[q]
        BY <3>1 DEF IInv, StickyServed
      <3>3. q # r
        BY <1>4, <3>2
      <3> QED
        BY <1>3, <1>6, <3>1, <3>2, <3>3
    <2> QED
      BY <2>1, <2>2
  <1>7. CASE Record(r) /\ Answer(r, "ok")
    <2>1. "ok" \in Reply /\ "ok" \notin Retryable \cup Skip
      BY DEF Reply, Retryable, Skip
    <2>2. Types' /\ Alone(r) /\ Local(r)'
      BY <1>1, <1>3, <1>5, <1>7, <2>1, AnswerStep
    <2>3. reply'[r] = "ok"
      BY <1>7 DEF Answer, IInv, Types
    <2>4. StickyServed'
      BY <1>6, <2>2, <2>3 DEF Alone
    <2> QED
      BY <1>1, <2>2, <2>4, OneRequest
  <1>8. CASE /\ reply' = [reply EXCEPT ![r] = "stream"] /\ pc' = [pc EXCEPT ![r] = "stream"]
             /\ Return(r) /\ UNCHANGED <<metered, excused>>
    <2>1. /\ chain' = [chain EXCEPT ![r] = << >>] /\ todo' = [todo EXCEPT ![r] = << >>]
          /\ last' = [last EXCEPT ![r] = "none"]
      BY <1>8 DEF Return
    <2>2. << >> \in Seq(Creds) /\ << >> \in Seq(Providers) /\ IsInjective(<< >>)
      BY DEF IsInjective
    <2>3. Types'
      BY <1>1, <1>5, <1>8, <2>1, <2>2 DEF IInv, Types, PC, Reply
    <2>4. Alone(r)
      BY <1>1, <1>3, <1>8, <2>1 DEF Alone, IInv, Types
    <2>5. /\ pc'[r] = "stream" /\ reply'[r] = "stream" /\ chain'[r] = << >>
          /\ owed'[r] = owed[r] /\ model'[r] = model[r]
      BY <1>1, <1>8, <2>1 DEF IInv, Types
    <2>6. Replies(r)' /\ Lists(r)' /\ Told(r)' /\ Counted(r)'
      BY <1>3, <1>8, <2>2, <2>5 DEF Local, Replies, Lists, Told, Counted, Working, Running,
                                    Retryable, Skip
    <2>7. Owing(r)'
      BY <1>1, <1>3, <2>5, StillOwing
    <2>8. Ahead(r)' /\ NoneAgain(r)'
      BY <2>5 DEF Ahead, NoneAgain, Between, Working
    <2>9. Local(r)'
      BY <2>6, <2>7, <2>8 DEF Local
    <2>10. StickyServed'
      BY <1>6, <2>4, <2>5 DEF Alone
    <2> QED
      BY <1>1, <2>3, <2>4, <2>9, <2>10, OneRequest
  <1> QED
    BY <1>7, <1>8 DEF Succeeded

\* The stream is over, with its client or without: the event is recorded.
LEMMA StreamOver ==
    ASSUME IInv, NEW r \in Requests, StreamEnds(r) \/ LeftEnds(r)
    PROVE  IInv'
  <1>1. /\ pc[r] \in {"stream", "left"} /\ pc' = [pc EXCEPT ![r] = "done"] /\ Record(r)
        /\ UNCHANGED <<rows, gone, failover, sticky, model, chain, todo, last, reply, tried,
                       failed, owed>>
    BY DEF StreamEnds, LeftEnds, panel, locals
  <1>2. \/ metered' = [metered EXCEPT ![r] = @ + 1] /\ excused' = excused
        \/ metered' = metered /\ excused' = excused \cup {r}
    BY <1>1 DEF Record
  <1>3. metered' \in [Requests -> Nat] /\ excused' \subseteq Requests
    <2>1. metered \in [Requests -> Nat] /\ excused \subseteq Requests
      BY DEF IInv, Types
    <2>2. CASE metered' = metered /\ excused' = excused \cup {r}
      BY <2>1, <2>2
    <2>3. CASE metered' = [metered EXCEPT ![r] = @ + 1] /\ excused' = excused
      BY <2>1, <2>3
    <2> QED
      BY <1>2, <2>2, <2>3
  <1>4. Types'
    BY <1>1, <1>3 DEF IInv, Types, PC
  <1>5. StickyServed'
    BY <1>1, SameSticky
  <1>6. Alone(r)
    BY <1>1, <1>2 DEF Alone, IInv, Types
  <1>7. pc'[r] = "done" /\ Local(r) /\ reply[r] = "stream"
    BY <1>1 DEF IInv, Types, Local, Replies
  <1>8. r \in excused' \/ metered'[r] = 1
    <2>1. r \in excused \/ metered[r] = 0
      BY <1>1, <1>7, Before
    <2> QED
      BY <1>2, <2>1 DEF IInv, Types
  <1>9. Replies(r)' /\ Lists(r)' /\ Told(r)' /\ Counted(r)'
    BY <1>1, <1>7, <1>8 DEF Local, Replies, Lists, Told, Counted, Working, Running
  <1>10. Owing(r)'
    BY <1>1, <1>7, StillOwing
  <1>11. Ahead(r)' /\ NoneAgain(r)'
    BY <1>7 DEF Ahead, NoneAgain, Between, Working
  <1>12. Local(r)'
    BY <1>9, <1>10, <1>11 DEF Local
  <1> QED
    BY <1>1, <1>4, <1>5, <1>6, <1>12, OneRequest

--------------------------------------------------------------------------------
(* The theorems.                                                               *)

\* Every step keeps the invariant.
LEMMA NextInv == IInv /\ [Next]_vars => IInv'
  <1> SUFFICES ASSUME IInv, [Next]_vars PROVE IInv'
    OBVIOUS
  <1>1. ASSUME NEW c \in Creds, Connect(c) \/ Disconnect(c) PROVE IInv'
    BY <1>1, PanelStep
  <1>2. ASSUME NEW r \in Requests, NEW m \in Models, Arrive(r, m) PROVE IInv'
    BY <1>2, ArriveStep
  <1>3. ASSUME NEW r \in Requests, Step(r) PROVE IInv'
    BY <1>3, CapStep, TryHopStep, HopsEndStep, TurnStep, RefreshedStep, RefreshFailsStep,
       UnauthorizedStep, FailedStep, SucceededStep, StreamOver DEF Step
  <1>4. ASSUME NEW r \in Requests, ClientLeaves(r) \/ LeftEnds(r) PROVE IInv'
    BY <1>4, TurnStep, StreamOver
  <1>5. CASE UNCHANGED vars
    <2>1. UNCHANGED <<rows, gone, failover, sticky, pc, model, chain, todo, last, reply, metered,
                      tried, failed, owed, excused>>
      BY <1>5 DEF vars, panel, requests, locals
    <2>2. Types' /\ StickyServed'
      BY <2>1, SameSticky DEF IInv, Types
    <2>3. ASSUME NEW q \in Requests PROVE Local(q)'
      BY <2>1, SameRequest DEF IInv
    <2> QED
      BY <2>2, <2>3 DEF IInv
  <1> QED
    BY <1>1, <1>2, <1>3, <1>4, <1>5, ToggleStep, CrashStep DEF Next

\* The invariant holds of every reachable state.
THEOREM Invariance == Spec => []IInv
  BY InitInv, NextInv, PTL DEF Spec

\* The types of all variables, for any number of keys, requests and credentials.
THEOREM TypeCorrect == Spec => []TypeOK
  <1>1. IInv => TypeOK
    <2> SUFFICES ASSUME IInv PROVE TypeOK
      OBVIOUS
    <2>1. ASSUME NEW T, NEW s \in Seq(T) PROVE ToSet(s) \subseteq T
      BY LenProperties DEF ToSet
    <2>2. ToSet(rows) \subseteq Creds
      BY <2>1 DEF IInv, Types
    <2>3. ASSUME NEW r \in Requests
          PROVE  /\ pc[r] # "new" => model[r] \in Models
                 /\ ToSet(chain[r]) \subseteq Providers /\ IsInjective(chain[r])
                 /\ ToSet(todo[r]) \subseteq Creds
      <3>1. chain[r] \in Seq(Providers) /\ todo[r] \in Seq(Creds)
        BY DEF IInv, Types
      <3> QED
        BY <2>1, <3>1 DEF IInv, Local, Lists
    <2> QED
      BY <2>2, <2>3 DEF TypeOK, IInv, Types
  <1> QED
    BY <1>1, Invariance, PTL

\* No credential gets a second turn in a request, however long its lists are, whatever
\* sticks to the key and whatever the panel connects and removes meanwhile.
THEOREM TriedOnceAlways == Spec => []TriedOnce
  <1>1. IInv => TriedOnce
    BY DEF IInv, Local, Lists, NoneAgain, TriedOnce, Working
  <1> QED
    BY <1>1, Invariance, PTL

\* The sticky credential of a key has served that key, and did not fail in the request it
\* served, under any number of requests.
THEOREM StickyServedAlways == Spec => []StickyServed
  <1>1. IInv => StickyServed
    BY DEF IInv
  <1> QED
    BY <1>1, Invariance, PTL

\* One usage event for every request that was let in and is over, none for any other.
THEOREM MeteredOnceAlways == Spec => []MeteredOnce
  <1>1. IInv => MeteredOnce
    BY DEF IInv, Local, Counted, MeteredOnce
  <1> QED
    BY <1>1, Invariance, PTL

\* A request comes to a hop only behind all that it owes of the hops before.
THEOREM HopsInOrderAlways == Spec => []HopsInOrder
  <1>1. IInv => HopsInOrder
    <2> SUFFICES ASSUME IInv, NEW r \in Requests, Working(r), NEW c \in owed[r], c \notin tried[r]
                 PROVE  ProviderOf[c] \in ToSet(chain[r])
      BY DEF HopsInOrder
    <2>1. /\ chain[r] \in Seq(Providers) /\ chain[r] # << >>
          /\ \A d \in ToSet(todo[r]) : ProviderOf[d] = Head(chain[r])
      BY DEF IInv, Types, Local, Lists
    <2>2. ToSet(chain[r]) = {Head(chain[r])} \cup ToSet(Tail(chain[r]))
      BY <2>1, HeadAndTail
    <2>3. c \in ToSet(todo[r]) \/ ProviderOf[c] \in ToSet(Tail(chain[r]))
      BY DEF IInv, Local, Ahead
    <2> QED
      BY <2>1, <2>2, <2>3
  <1> QED
    BY <1>1, Invariance, PTL

\* A client is told a retryable failure, or that a hop was passed over, only when all
\* that its chain led to and that stayed stored was tried.
THEOREM FailoverCompleteAlways == Spec => []FailoverComplete
  <1>1. IInv => FailoverComplete
    BY DEF IInv, Local, Told, FailoverComplete
  <1> QED
    BY <1>1, Invariance, PTL
================================================================================
