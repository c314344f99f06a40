---------------------------- MODULE ProxiesProofs ----------------------------
(***************************************************************************)
(* The pool of the ssh proxy, for every set of goroutines and addresses,   *)
(* any pool_max_size and any number of requests; and that what is proved   *)
(* of each part of Proxies holds of the whole.                             *)
(***************************************************************************)
EXTENDS Proxies, ClientStoreProofs, FiniteSetTheorems, SequenceTheorems

-----------------------------------------------------------------------------
(***************************************************************************)
(* The connection pool of the ssh proxy: the pool and its order of use     *)
(* agree and keep to the limit, no connection is dropped while it is open, *)
(* and none survives Close.                                                *)
(***************************************************************************)
\* order lists the addresses of entries that have a connection, each once.
Lists(order, entries) ==
    /\ order \in Seq(Addrs)
    /\ \A i, j \in 1 .. Len(order) : order[i] = order[j] => i = j
    /\ \A i \in 1 .. Len(order) : entries[order[i]] # None
    /\ \A a \in Addrs : entries[a] # None => \E i \in 1 .. Len(order) : order[i] = a

\* A list of the entries is as long as there are entries.
LEMMA ListsCount ==
    ASSUME NEW entries, NEW order, Lists(order, entries)
    PROVE  LET keys == {a \in Addrs : entries[a] # None}
           IN  Range(order) = keys /\ Len(order) = Cardinality(keys)
<1> DEFINE keys == {a \in Addrs : entries[a] # None}
<1> USE DEF Lists
<1>1. order \in [1 .. Len(order) -> keys] /\ Len(order) \in Nat /\ DOMAIN order = 1 .. Len(order)
  BY LenProperties
<1>2. Range(order) = keys
  BY <1>1 DEF Range
<1>3. order \in Bijection(1 .. Len(order), keys)
  BY <1>1 DEF Bijection, Injection, Surjection, IsInjective
<1>4. IsFiniteSet(1 .. Len(order)) /\ Cardinality(1 .. Len(order)) = Len(order)
  <2>1. \A n \in Nat : IsFiniteSet(1 .. n) /\ Cardinality(1 .. n) = n
    <3> TAKE n \in Nat
    <3>1. IsFiniteSet(1 .. n) /\ Cardinality(1 .. n) = IF 1 > n THEN 0 ELSE n - 1 + 1
      BY FS_Interval
    <3> QED
      BY <3>1
  <2> QED
    BY <1>1, <2>1
<1>5. ExistsBijection(1 .. Len(order), keys)
  BY <1>3 DEF ExistsBijection
<1> HIDE DEF keys
<1>6. Cardinality(keys) = Len(order)
  BY <1>4, <1>5, FS_Bijection
<1> QED
  BY <1>2, <1>6 DEF keys

\* evictOldestLocked: dropping the first address and its entry leaves a list.
LEMMA ListsTail ==
    ASSUME NEW entries \in [Addrs -> Clients \cup {None}], NEW order,
           Lists(order, entries), order # <<>>
    PROVE  /\ Head(order) \in Addrs /\ entries[Head(order)] # None
           /\ Lists(Tail(order), [entries EXCEPT ![Head(order)] = None])
           /\ Len(Tail(order)) = Len(order) - 1
<1> USE DEF Lists
<1> DEFINE rest == Tail(order)
           left == [entries EXCEPT ![Head(order)] = None]
<1>1. /\ rest \in Seq(Addrs) /\ Len(rest) = Len(order) - 1 /\ Len(order) \in Nat \ {0}
      /\ \A i \in 1 .. Len(rest) : rest[i] = order[i + 1]
      /\ Head(order) = order[1] /\ Head(order) \in Addrs
  BY HeadTailProperties, LenProperties, EmptySeq
<1>2. entries[Head(order)] # None
  BY <1>1
<1>3. \A i, j \in 1 .. Len(rest) : rest[i] = rest[j] => i = j
  BY <1>1
<1>4. ASSUME NEW i \in 1 .. Len(rest) PROVE left[rest[i]] # None
  <2>1. rest[i] = order[i + 1] /\ i + 1 \in 1 .. Len(order) /\ 1 \in 1 .. Len(order) /\ i + 1 # 1
    BY <1>1
  <2>2. rest[i] # Head(order) /\ rest[i] \in Addrs
    BY <1>1, <2>1
  <2> QED
    BY <2>1, <2>2
<1>5. ASSUME NEW a \in Addrs, left[a] # None PROVE \E i \in 1 .. Len(rest) : rest[i] = a
  <2>1. a # Head(order) /\ entries[a] # None
    BY <1>5, <1>1
  <2>2. PICK j \in 1 .. Len(order) : order[j] = a
    BY <2>1
  <2>3. j - 1 \in 1 .. Len(rest) /\ rest[j - 1] = a
    BY <1>1, <2>1, <2>2, SMTT(30)
  <2> QED
    BY <2>3
<1> QED
  BY <1>1, <1>2, <1>3, <1>4, <1>5

\* The dead entry of an address is dropped, and the address with it.
LEMMA ListsForget ==
    ASSUME NEW a \in Addrs, pool \in [Addrs -> Clients \cup {None}],
           Lists(recent, pool), pool[a] # None
    PROVE  /\ Lists(Forget(a), [pool EXCEPT ![a] = None])
           /\ Len(Forget(a)) = Len(recent) - 1
<1> DEFINE k == CHOOSE i \in DOMAIN recent : recent[i] = a
           left == [pool EXCEPT ![a] = None]
<1>1. Len(recent) \in Nat /\ DOMAIN recent = 1 .. Len(recent)
  BY LenProperties DEF Lists
<1>a. \A i, j \in 1 .. Len(recent) : recent[i] = recent[j] => i = j
  BY DEF Lists
<1>b. \A i \in 1 .. Len(recent) : recent[i] \in Addrs /\ pool[recent[i]] # None
  BY LenProperties DEF Lists
<1>c. \A b \in Addrs : pool[b] # None => \E i \in 1 .. Len(recent) : recent[i] = b
  BY DEF Lists
<1>2. k \in 1 .. Len(recent) /\ recent[k] = a
  BY <1>1, <1>c
<1> HIDE DEF k
<1> DEFINE before == SubSeq(recent, 1, k - 1)
           after == SubSeq(recent, k + 1, Len(recent))
           rest == before \o after
<1>3. /\ before \in Seq(Addrs) /\ Len(before) = k - 1
      /\ \A i \in 1 .. k - 1 : before[i] = recent[i]
  BY <1>1, <1>2, <1>b, SubSeqProperties
<1>4. /\ after \in Seq(Addrs) /\ Len(after) = Len(recent) - k
      /\ \A i \in 1 .. Len(recent) - k : after[i] = recent[k + i]
  <2>1. /\ after \in Seq(Addrs)
        /\ Len(after) = IF k + 1 <= Len(recent) THEN Len(recent) - (k + 1) + 1 ELSE 0
        /\ \A i \in 1 .. Len(recent) - (k + 1) + 1 : after[i] = recent[(k + 1) + i - 1]
    <3>1. k + 1 \in Int /\ Len(recent) \in Int /\ \A i \in k + 1 .. Len(recent) : recent[i] \in Addrs
      BY <1>1, <1>2, <1>b
    <3> QED
      BY <3>1, SubSeqProperties
  <2> HIDE DEF after
  <2>2. Len(after) = Len(recent) - k
    <3>1. \A n \in Nat : \A m \in 1 .. n : (IF m + 1 <= n THEN n - (m + 1) + 1 ELSE 0) = n - m
      OBVIOUS
    <3> QED
      BY <1>1, <1>2, <2>1, <3>1, Zenon
  <2>3. ASSUME NEW i \in 1 .. Len(recent) - k PROVE after[i] = recent[k + i]
    <3>1. i \in 1 .. Len(recent) - (k + 1) + 1 /\ (k + 1) + i - 1 = k + i
      BY <1>1, <1>2
    <3>2. after[i] = recent[(k + 1) + i - 1]
      BY <2>1, <3>1
    <3> QED
      BY <3>1, <3>2
  <2> QED
    BY <2>1, <2>2, <2>3
<1> HIDE DEF before, after
<1>5. /\ rest \in Seq(Addrs) /\ Len(rest) = Len(recent) - 1
      /\ \A i \in 1 .. Len(rest) : rest[i] = IF i < k THEN recent[i] ELSE recent[i + 1]
  <2>1. /\ rest \in Seq(Addrs) /\ Len(rest) = Len(before) + Len(after)
        /\ \A i \in 1 .. Len(before) + Len(after) :
              rest[i] = IF i <= Len(before) THEN before[i] ELSE after[i - Len(before)]
    <3>1. \A s, t \in Seq(Addrs) :
             /\ s \o t \in Seq(Addrs) /\ Len(s \o t) = Len(s) + Len(t)
             /\ \A i \in 1 .. Len(s) + Len(t) : (s \o t)[i] = IF i <= Len(s) THEN s[i] ELSE t[i - Len(s)]
      BY ConcatProperties
    <3> QED
      BY <1>3, <1>4, <3>1, Zenon
  <2> HIDE DEF rest
  <2>2. Len(rest) = Len(recent) - 1
    BY <1>1, <1>2, <1>3, <1>4, <2>1
  <2>3. ASSUME NEW i \in 1 .. Len(rest)
        PROVE  rest[i] = IF i < k THEN recent[i] ELSE recent[i + 1]
    <3>1. CASE i < k
      BY <1>1, <1>2, <1>3, <1>4, <2>1, <2>2, <3>1
    <3>2. CASE i >= k
      <4>1. rest[i] = after[i - (k - 1)] /\ i - (k - 1) \in 1 .. Len(recent) - k
        BY <1>1, <1>2, <1>3, <1>4, <2>1, <2>2, <3>2
      <4>2. k + (i - (k - 1)) = i + 1
        BY <1>2
      <4> QED
        BY <1>4, <3>2, <4>1, <4>2, <1>2, SMTT(30)
    <3> QED
      BY <1>2, <3>1, <3>2
  <2> QED
    BY <2>1, <2>2, <2>3, Zenon
<1> HIDE DEF rest
<1>6. ASSUME NEW i \in 1 .. Len(rest), NEW j \in 1 .. Len(rest), rest[i] = rest[j] PROVE i = j
  <2> DEFINE was(n) == IF n < k THEN n ELSE n + 1
  <2>1. was(i) \in 1 .. Len(recent) /\ was(j) \in 1 .. Len(recent)
    BY <1>1, <1>2, <1>5
  <2>2. rest[i] = recent[was(i)] /\ rest[j] = recent[was(j)]
    BY <1>5, ZenonT(40)
  <2>3. was(i) = was(j)
    BY <1>6, <1>a, <2>1, <2>2, ZenonT(40)
  <2> QED
    BY <1>1, <1>2, <1>5, <2>3
<1>7. ASSUME NEW i \in 1 .. Len(rest) PROVE left[rest[i]] # None
  <2> DEFINE j == IF i < k THEN i ELSE i + 1
  <2>1. j \in 1 .. Len(recent) /\ j # k /\ rest[i] = recent[j]
    BY <1>1, <1>2, <1>5
  <2> HIDE DEF j
  <2>2. recent[j] # a /\ recent[j] \in Addrs /\ pool[recent[j]] # None
    BY <1>2, <1>a, <1>b, <2>1, ZenonT(20)
  <2> QED
    BY <2>1, <2>2
<1>8. ASSUME NEW b \in Addrs, left[b] # None PROVE \E i \in 1 .. Len(rest) : rest[i] = b
  <2>1. b # a /\ pool[b] # None
    BY <1>8
  <2>2. PICK j \in 1 .. Len(recent) : recent[j] = b
    BY <1>c, <2>1
  <2>3. CASE j < k
    BY <1>2, <1>5, <2>2, <2>3
  <2>4. CASE j > k
    <3>1. j - 1 \in 1 .. Len(rest) /\ rest[j - 1] = b
      BY <1>1, <1>2, <1>5, <2>2, <2>4, SMTT(30)
    <3> QED
      BY <3>1
  <2> QED
    BY <1>2, <2>1, <2>2, <2>3, <2>4
<1> QED
  BY <1>5, <1>6, <1>7, <1>8, Zenon DEF Lists, Forget, k, rest, before, after

\* A new entry is the most recent one.
LEMMA ListsAppend ==
    ASSUME NEW entries \in [Addrs -> Clients \cup {None}], NEW order, Lists(order, entries),
           NEW a \in Addrs, entries[a] = None, NEW c, c # None
    PROVE  /\ Lists(Append(order, a), [entries EXCEPT ![a] = c])
           /\ Len(Append(order, a)) = Len(order) + 1
<1> USE DEF Lists
<1> DEFINE more == Append(order, a)
           now == [entries EXCEPT ![a] = c]
<1>1. /\ more \in Seq(Addrs) /\ Len(more) = Len(order) + 1 /\ Len(order) \in Nat
      /\ \A i \in 1 .. Len(order) : more[i] = order[i] /\ order[i] \in Addrs
      /\ more[Len(order) + 1] = a
  BY AppendProperties, LenProperties, ElementOfSeq
<1> HIDE DEF more
<1>2. \A i, j \in 1 .. Len(more) : more[i] = more[j] => i = j
  BY <1>1
<1>3. \A i \in 1 .. Len(more) : now[more[i]] # None
  BY <1>1, SMTT(30)
<1>4. ASSUME NEW b \in Addrs, now[b] # None PROVE \E i \in 1 .. Len(more) : more[i] = b
  <2>1. CASE b = a
    BY <1>1, <2>1
  <2>2. CASE b # a
    BY <1>1, <1>4, <2>2
  <2> QED
    BY <2>1, <2>2
<1> QED
  BY <1>1, <1>2, <1>3, <1>4, ZenonT(20) DEF more

\* cleanupExpiredConnections: the first n addresses are dropped with their entries.
LEMMA ListsExpire ==
    ASSUME pool \in [Addrs -> Clients \cup {None}], Lists(recent, pool),
           NEW n \in 1 .. Len(recent)
    PROVE  LET expired == {recent[i] : i \in 1 .. n}
               left == [a \in Addrs |-> IF a \in expired THEN None ELSE pool[a]]
               rest == SubSeq(recent, n + 1, Len(recent))
           IN  Lists(rest, left) /\ Len(rest) <= Len(recent)
<1> DEFINE expired == {recent[i] : i \in 1 .. n}
           left == [a \in Addrs |-> IF a \in expired THEN None ELSE pool[a]]
           rest == SubSeq(recent, n + 1, Len(recent))
<1>a. \A i, j \in 1 .. Len(recent) : recent[i] = recent[j] => i = j
  BY DEF Lists
<1>b. \A i \in 1 .. Len(recent) : recent[i] \in Addrs /\ pool[recent[i]] # None
  BY LenProperties DEF Lists
<1>c. \A b \in Addrs : pool[b] # None => \E i \in 1 .. Len(recent) : recent[i] = b
  BY DEF Lists
<1>1. /\ rest \in Seq(Addrs) /\ Len(rest) = Len(recent) - n /\ Len(recent) \in Nat /\ n \in Nat
      /\ \A i \in 1 .. Len(rest) : rest[i] = recent[n + i]
  BY <1>b, LenProperties, SubSeqProperties DEF Lists
<1> HIDE DEF rest
<1>2. ASSUME NEW i \in 1 .. Len(rest), NEW j \in 1 .. Len(rest), rest[i] = rest[j] PROVE i = j
  <2>1. n + i \in 1 .. Len(recent) /\ n + j \in 1 .. Len(recent) /\ recent[n + i] = recent[n + j]
    BY <1>1, <1>2
  <2>2. n + i = n + j
    BY <1>a, <2>1
  <2> QED
    BY <1>1, <2>2
<1>3. ASSUME NEW i \in 1 .. Len(rest) PROVE left[rest[i]] # None
  <2>1. rest[i] = recent[n + i] /\ n + i \in 1 .. Len(recent) /\ rest[i] \in Addrs /\ pool[rest[i]] # None
    BY <1>1, <1>b
  <2>2. rest[i] \notin expired
    BY <1>1, <1>a, <2>1
  <2> QED
    BY <2>1, <2>2
<1>4. ASSUME NEW b \in Addrs, left[b] # None PROVE \E i \in 1 .. Len(rest) : rest[i] = b
  <2>1. b \notin expired /\ pool[b] # None
    BY <1>4
  <2>2. PICK j \in 1 .. Len(recent) : recent[j] = b
    BY <1>c, <2>1
  <2>3. j > n
    BY <1>1, <2>1, <2>2
  <2>4. j - n \in 1 .. Len(rest) /\ rest[j - n] = b
    BY <1>1, <2>2, <2>3, SMTT(30)
  <2> QED
    BY <2>4
<1>5. Lists(rest, left) /\ Len(rest) <= Len(recent)
  <2> HIDE DEF left
  <2>1. Len(rest) <= Len(recent)
    BY <1>1
  <2> QED
    BY <1>1, <1>2, <1>3, <1>4, <2>1, ZenonT(20) DEF Lists
<1> QED
  BY <1>5, Zenon DEF rest

-----------------------------------------------------------------------------
\* Between LockPool and the step that unlocks, a request has poolMu; while it
\* tests an entry that entry is there, and while it dials its address has none
\* and there is room for one.
HoldersFindWhatTheySaw ==
    \A r \in Requests :
       /\ place[r] # "idle" => addr[r] \in Addrs
       /\ place[r] \in {"keepalive", "config", "dial"} => poolMu = r
       /\ place[r] = "keepalive" => pool[addr[r]] # None
       /\ place[r] \in {"config", "dial"} => pool[addr[r]] = None /\ Len(recent) < MaxSize

\* A pooled connection was dialled.
PooledWereDialled == \A a \in Addrs : pool[a] \in made \cup {None}

\* A request only dials before Close has forgotten the configuration, and after
\* it the pool stays empty.
CloseEmptiesForGood ==
    /\ \A r \in Requests : place[r] = "dial" => sshConfig
    /\ poolCloser = "done" => ~sshConfig /\ \A a \in Addrs : pool[a] = None

\* The inductive invariant of the pool.
PoolIInv ==
    /\ PoolTypeOK
    /\ Lists(recent, pool) /\ Len(recent) <= MaxSize
    /\ HoldersFindWhatTheySaw
    /\ PooledWereDialled
    /\ NoConnectionLost
    /\ CloseEmptiesForGood

LEMMA PoolInitIInv == PoolInit => PoolIInv
<1> SUFFICES ASSUME PoolInit PROVE PoolIInv
  OBVIOUS
<1> USE SshPoolAssumption DEF PoolInit
<1>1. <<>> \in Seq(Addrs) /\ Len(<<>>) = 0
  BY EmptySeq
<1>2. PoolTypeOK
  BY <1>1 DEF PoolTypeOK
<1>3. Lists(recent, pool) /\ Len(recent) <= MaxSize
  BY <1>1 DEF Lists
<1>4. HoldersFindWhatTheySaw /\ PooledWereDialled /\ NoConnectionLost /\ CloseEmptiesForGood
  BY DEF HoldersFindWhatTheySaw, PooledWereDialled, NoConnectionLost, CloseEmptiesForGood
<1> QED
  BY <1>2, <1>3, <1>4 DEF PoolIInv

\* evictOldestLocked: a full pool loses its oldest entry, which is closed.
LEMMA RoomIsMade ==
    ASSUME NEW entries \in [Addrs -> Clients \cup {None}], NEW order, NEW gone,
           Lists(order, entries), Len(order) <= MaxSize, MakeRoom(entries, order, gone)
    PROVE  /\ Lists(recent', pool') /\ Len(recent') < MaxSize
           /\ pool' \in [Addrs -> Clients \cup {None}]
           /\ \A a \in Addrs : pool'[a] = entries[a] \/ (pool'[a] = None /\ entries[a] \in hungUp')
           /\ gone \subseteq hungUp'
           /\ \A c \in hungUp' \ gone : c # None /\ \E a \in Addrs : entries[a] = c
<1> DEFINE keys == {a \in Addrs : entries[a] # None}
<1>1. Len(order) = Cardinality(keys) /\ Len(order) \in Nat /\ order \in Seq(Addrs)
  BY ListsCount, LenProperties, SMTT(30) DEF Lists
<1>2. CASE Full(keys) /\ order # <<>>
  <2>1. /\ pool' = [entries EXCEPT ![Head(order)] = None]
        /\ recent' = Tail(order)
        /\ hungUp' = gone \cup {entries[Head(order)]}
    BY <1>2 DEF MakeRoom, CloseEvicted
  <2>2. /\ Head(order) \in Addrs /\ entries[Head(order)] # None
        /\ Lists(recent', pool') /\ Len(recent') = Len(order) - 1
    BY <1>2, <2>1, ListsTail, Zenon
  <2>3. Len(recent') < MaxSize
    BY <1>1, <2>2, SshPoolAssumption
  <2>4. \A a \in Addrs : pool'[a] = entries[a] \/ (pool'[a] = None /\ entries[a] \in hungUp')
    <3> TAKE a \in Addrs
    <3>1. CASE a = Head(order)
      BY <2>1, <3>1
    <3>2. CASE a # Head(order)
      BY <2>1, <3>2
    <3> QED
      BY <3>1, <3>2
  <2>5. pool' \in [Addrs -> Clients \cup {None}]
    BY <2>1, <2>2
  <2> QED
    BY <2>1, <2>2, <2>3, <2>4, <2>5
<1>3. CASE ~(Full(keys) /\ order # <<>>)
  <2>1. pool' = entries /\ recent' = order /\ hungUp' = gone
    BY <1>3 DEF MakeRoom
  <2>2. Len(order) < MaxSize
    <3>1. CASE ~Full(keys)
      BY <1>1, <3>1, SshPoolAssumption DEF Full
    <3>2. CASE order = <<>>
      BY <3>2, EmptySeq, SshPoolAssumption
    <3> QED
      BY <1>3, <3>1, <3>2
  <2>3. Lists(recent', pool') /\ Len(recent') < MaxSize /\ pool' \in [Addrs -> Clients \cup {None}]
    BY <2>1, <2>2
  <2> QED
    BY <2>1, <2>3
<1> QED
  BY <1>2, <1>3

LEMMA NoneIsNoClient == None \notin Clients
<1>1. Clients \subseteq Nat
  BY SshPoolAssumption DEF Clients
<1> QED
  BY <1>1, SshPoolAssumption, Zenon

\* Entries that leave the pool are closed as they do: nothing is lost, and what
\* is closed had been dialled.
LEMMA DropsAreClosed ==
    ASSUME PoolIInv, made' = made,
           \A a \in Addrs : pool'[a] = pool[a] \/ (pool'[a] = None /\ pool[a] \in hungUp' \cup {None}),
           hungUp \subseteq hungUp',
           \A c \in hungUp' \ hungUp : c # None /\ \E a \in Addrs : pool[a] = c
    PROVE  /\ PooledWereDialled' /\ NoConnectionLost' /\ hungUp' \subseteq made'
           /\ \A a \in Addrs : pool[a] = None => pool'[a] = None
<1> USE DEF PoolIInv, PooledWereDialled, NoConnectionLost
<1>1. PooledWereDialled'
  OBVIOUS
<1>2. None \notin made
  BY NoneIsNoClient DEF PoolTypeOK
<1>3. ASSUME NEW c \in made' \ hungUp' PROVE \E a \in Addrs : pool'[a] = c
  <2>1. PICK a \in Addrs : pool[a] = c
    OBVIOUS
  <2>2. pool'[a] = c
    BY <1>2, <2>1
  <2> QED
    BY <2>2
<1>4. hungUp' \subseteq made'
  BY DEF PoolTypeOK
<1> QED
  BY <1>1, <1>3, <1>4

\* getClient and LockPool's hit, the answers that end an attempt and the end of a
\* request: the pool is left as it is.
LEMMA GetClientIInv ==
    ASSUME PoolIInv, NEW r \in Requests, NEW a \in Addrs, GetClient(r, a) PROVE PoolIInv'
<1> USE SshPoolAssumption DEF PoolIInv, GetClient, GoTo, pooled, shutdown
<1>1. PoolTypeOK'
  BY DEF PoolTypeOK
<1>2. HoldersFindWhatTheySaw' /\ CloseEmptiesForGood'
  BY DEF HoldersFindWhatTheySaw, CloseEmptiesForGood, PoolTypeOK
<1>3. Lists(recent, pool)' /\ PooledWereDialled' /\ NoConnectionLost'
  BY DEF Lists, PooledWereDialled, NoConnectionLost
<1> QED
  BY <1>1, <1>2, <1>3, ZenonT(20)

LEMMA HitIInv ==
    ASSUME PoolIInv, NEW r \in Requests, place[r] = "locking", poolMu = None, poolMu' = r,
           pool[addr[r]] # None, GoTo(r, "keepalive"), UNCHANGED <<pooled, addr, made, shutdown>>
    PROVE  PoolIInv'
<1> USE SshPoolAssumption DEF PoolIInv, GoTo, pooled, shutdown
<1>1. PoolTypeOK'
  BY DEF PoolTypeOK
<1>2. HoldersFindWhatTheySaw' /\ CloseEmptiesForGood'
  BY DEF HoldersFindWhatTheySaw, CloseEmptiesForGood, PoolTypeOK
<1>3. Lists(recent, pool)' /\ PooledWereDialled' /\ NoConnectionLost'
  BY DEF Lists, PooledWereDialled, NoConnectionLost
<1> QED
  BY <1>1, <1>2, <1>3, ZenonT(20)

LEMMA ReadConfigIInv ==
    ASSUME PoolIInv, NEW r \in Requests, ReadConfig(r) \/ DialFails(r) \/ Finish(r) PROVE PoolIInv'
<1> USE SshPoolAssumption DEF PoolIInv, ReadConfig, DialFails, Finish, GoTo, UnlockPool, pooled, shutdown
<1>1. PoolTypeOK'
  BY ZenonT(20) DEF PoolTypeOK
<1>2. HoldersFindWhatTheySaw' /\ CloseEmptiesForGood'
  BY SMTT(30) DEF HoldersFindWhatTheySaw, CloseEmptiesForGood, PoolTypeOK
<1>3. Lists(recent, pool)' /\ PooledWereDialled' /\ NoConnectionLost' /\ UNCHANGED recent
  BY DEF Lists, PooledWereDialled, NoConnectionLost
<1> QED
  BY <1>1, <1>2, <1>3, ZenonT(20)

\* Nobody has poolMu: no request is between LockPool and the step that unlocks.
LEMMA NobodyInside ==
    ASSUME PoolIInv, poolMu = None
    PROVE  \A r \in Requests : place[r] \in {"idle", "locking", "using"}
  BY SshPoolAssumption, ZenonT(40) DEF PoolIInv, PoolTypeOK, HoldersFindWhatTheySaw

\* Only the request that has poolMu is.
LEMMA NobodyElseInside ==
    ASSUME PoolIInv, NEW r \in Requests, poolMu = r
    PROVE  \A q \in Requests \ {r} : place[q] \in {"idle", "locking", "using"}
  BY SMTT(30) DEF PoolIInv, PoolTypeOK, HoldersFindWhatTheySaw

LEMMA MissIInv ==
    ASSUME PoolIInv, NEW r \in Requests, place[r] = "locking", poolMu = None, poolMu' = r,
           pool[addr[r]] = None, GoTo(r, "config"), MakeRoom(pool, recent, hungUp),
           UNCHANGED <<addr, made, shutdown>>
    PROVE  PoolIInv'
<1> USE DEF GoTo, shutdown
<1>1. /\ Lists(recent', pool') /\ Len(recent') < MaxSize
      /\ pool' \in [Addrs -> Clients \cup {None}]
      /\ \A a \in Addrs : pool'[a] = pool[a] \/ (pool'[a] = None /\ pool[a] \in hungUp')
      /\ hungUp \subseteq hungUp'
      /\ \A c \in hungUp' \ hungUp : c # None /\ \E a \in Addrs : pool[a] = c
  BY RoomIsMade, SMTT(30) DEF PoolIInv, PoolTypeOK
<1>2. /\ PooledWereDialled' /\ NoConnectionLost' /\ hungUp' \subseteq made'
      /\ \A a \in Addrs : pool[a] = None => pool'[a] = None
  BY <1>1, DropsAreClosed, ZenonT(20)
<1>3. PoolTypeOK'
  BY <1>1, <1>2, ZenonT(20) DEF PoolIInv, PoolTypeOK, Lists
<1>4. Len(recent') <= MaxSize
  <2>1. Len(recent') \in Nat
    BY <1>1, LenProperties, ZenonT(20) DEF Lists
  <2> QED
    BY <1>1, <2>1, SshPoolAssumption, SMTT(30)
<1>5. HoldersFindWhatTheySaw'
  <2>1. place' \in [Requests -> {"idle", "locking", "keepalive", "config", "dial", "using"}]
        /\ place'[r] = "config" /\ addr[r] \in Addrs /\ \A q \in Requests \ {r} : place'[q] = place[q]
    BY ZenonT(20) DEF PoolIInv, PoolTypeOK, HoldersFindWhatTheySaw
  <2>2. \A q \in Requests \ {r} : place'[q] \in {"idle", "locking", "using"}
    BY <2>1, NobodyInside, SMTT(30)
  <2> QED
    BY <1>1, <1>2, <2>1, <2>2, ZenonT(20) DEF PoolIInv, HoldersFindWhatTheySaw
<1>6. CloseEmptiesForGood'
  BY <1>2, NobodyInside, ZenonT(20) DEF PoolIInv, PoolTypeOK, CloseEmptiesForGood
<1>7. Lists(recent, pool)'
  BY <1>1, ZenonT(20) DEF Lists
<1> QED
  BY <1>2, <1>3, <1>4, <1>5, <1>6, <1>7, ZenonT(40) DEF PoolIInv

LEMMA LockPoolIInv ==
    ASSUME PoolIInv, NEW r \in Requests, LockPool(r) PROVE PoolIInv'
  BY HitIInv, MissIInv, SMTT(30) DEF LockPool

\* The keepalive is answered: the entry moves to the end of the order.
LEMMA AliveIInv ==
    ASSUME PoolIInv, NEW r \in Requests, Alive(r) PROVE PoolIInv'
<1> DEFINE a == addr[r]
<1> USE DEF Alive, GoTo, UnlockPool, shutdown
<1>1. /\ a \in Addrs /\ pool[a] # None /\ poolMu = r /\ Lists(recent, pool)
      /\ pool \in [Addrs -> Clients \cup {None}]
  BY DEF PoolIInv, PoolTypeOK, HoldersFindWhatTheySaw
<1>2. Lists(Forget(a), [pool EXCEPT ![a] = None]) /\ Len(Forget(a)) = Len(recent) - 1
  BY <1>1, ListsForget, Zenon
<1>3. /\ Lists(Append(Forget(a), a), [[pool EXCEPT ![a] = None] EXCEPT ![a] = pool[a]])
      /\ Len(Append(Forget(a), a)) = Len(Forget(a)) + 1
  <2>1. [pool EXCEPT ![a] = None] \in [Addrs -> Clients \cup {None}]
        /\ [pool EXCEPT ![a] = None][a] = None
    BY <1>1
  <2> HIDE DEF a
  <2> QED
    BY <1>1, <1>2, <2>1, ListsAppend, ZenonT(20)
<1>4. [[pool EXCEPT ![a] = None] EXCEPT ![a] = pool[a]] = pool
  BY <1>1, ZenonT(40)
<1>5. Lists(recent', pool) /\ Len(recent') = Len(recent)
  <2>1. Len(recent) \in Nat
    BY <1>1, LenProperties, ZenonT(40) DEF Lists
  <2> QED
    BY <1>2, <1>3, <1>4, <2>1, SMTT(30)
<1>6. PoolTypeOK' /\ Lists(recent, pool)' /\ PooledWereDialled' /\ NoConnectionLost'
  BY <1>5, SMTT(30) DEF PoolIInv, PoolTypeOK, Lists, PooledWereDialled, NoConnectionLost
<1>7. HoldersFindWhatTheySaw' /\ CloseEmptiesForGood'
  BY <1>1, <1>5, NobodyElseInside DEF PoolIInv, PoolTypeOK, HoldersFindWhatTheySaw, CloseEmptiesForGood
<1> QED
  BY <1>5, <1>6, <1>7, ZenonT(20) DEF PoolIInv

\* It is not: the dead entry is closed and dropped, and maybe the oldest one.
LEMMA DeadIInv ==
    ASSUME PoolIInv, NEW r \in Requests, Dead(r) PROVE PoolIInv'
<1> DEFINE a == addr[r]
           entries == [pool EXCEPT ![a] = None]
           gone == hungUp \cup {pool[a]}
<1> USE DEF Dead, GoTo, shutdown
<1>1. /\ a \in Addrs /\ pool[a] # None /\ poolMu = r /\ Lists(recent, pool)
      /\ pool \in [Addrs -> Clients \cup {None}] /\ recent \in Seq(Addrs) /\ Len(recent) <= MaxSize
  BY ZenonT(40) DEF PoolIInv, PoolTypeOK, HoldersFindWhatTheySaw
<1>2. Lists(Forget(a), entries) /\ Len(Forget(a)) <= MaxSize
  <2>1. Lists(Forget(a), entries) /\ Len(Forget(a)) = Len(recent) - 1
    BY <1>1, ListsForget, ZenonT(40)
  <2>2. Len(recent) \in Nat
    BY <1>1, LenProperties
  <2> QED
    BY <1>1, <2>1, <2>2, SshPoolAssumption
<1>3. entries \in [Addrs -> Clients \cup {None}] /\ MakeRoom(entries, Forget(a), gone)
  BY <1>1
<1>4. \A b \in Addrs : entries[b] = IF b = a THEN None ELSE pool[b]
  BY <1>1
<1>5. UNCHANGED <<poolMu, addr, made, sshMu, sshConfig, cleanupDone, poolCloser, cleaner, captured>>
      /\ place' = [place EXCEPT ![r] = "config"] /\ place[r] = "keepalive"
  BY SMTT(30)
<1> HIDE DEF entries, Dead, GoTo, shutdown
<1>6. /\ Lists(recent', pool') /\ Len(recent') < MaxSize
      /\ pool' \in [Addrs -> Clients \cup {None}]
      /\ \A b \in Addrs : pool'[b] = entries[b] \/ (pool'[b] = None /\ entries[b] \in hungUp')
      /\ gone \subseteq hungUp'
      /\ \A c \in hungUp' \ gone : c # None /\ \E b \in Addrs : entries[b] = c
  BY <1>2, <1>3, RoomIsMade, ZenonT(40)
<1>7. /\ \A b \in Addrs : pool'[b] = pool[b] \/ (pool'[b] = None /\ pool[b] \in hungUp')
      /\ hungUp \subseteq hungUp'
      /\ \A c \in hungUp' \ hungUp : c # None /\ \E b \in Addrs : pool[b] = c
  BY <1>1, <1>4, <1>6, ZenonT(40)
<1>8. /\ PooledWereDialled' /\ NoConnectionLost' /\ hungUp' \subseteq made'
      /\ \A b \in Addrs : pool[b] = None => pool'[b] = None
  BY <1>5, <1>7, DropsAreClosed, ZenonT(20)
<1>9. PoolTypeOK' /\ Lists(recent, pool)'
  BY <1>5, <1>6, <1>8, ZenonT(40) DEF PoolIInv, PoolTypeOK, Lists
<1>10. Len(recent') <= MaxSize
  <2>1. Len(recent') \in Nat
    BY <1>6, LenProperties, ZenonT(40) DEF Lists
  <2> QED
    BY <1>6, <2>1, SshPoolAssumption, SMTT(30)
<1>11. HoldersFindWhatTheySaw'
  <2>1. place'[r] = "config" /\ \A q \in Requests \ {r} : place'[q] = place[q]
    BY <1>5 DEF PoolIInv, PoolTypeOK
  <2>2. \A q \in Requests \ {r} : place'[q] \in {"idle", "locking", "using"}
    BY <1>1, <2>1, NobodyElseInside, ZenonT(40)
  <2>3. pool'[a] = None
    BY <1>1, <1>4, <1>6, ZenonT(40)
  <2> QED
    BY <1>1, <1>5, <1>6, <2>1, <2>2, <2>3, ZenonT(40) DEF PoolIInv, HoldersFindWhatTheySaw
<1>12. CloseEmptiesForGood'
  BY <1>1, <1>5, <1>8, NobodyElseInside, ZenonT(20) DEF PoolIInv, PoolTypeOK, CloseEmptiesForGood
<1> QED
  BY <1>8, <1>9, <1>10, <1>11, <1>12, ZenonT(20) DEF PoolIInv

\* While fewer than MaxDials connections were made, the next one has a number.
LEMMA NextDial ==
    ASSUME NEW n \in Nat, n < MaxDials PROVE n + 1 \in Clients
BY SshPoolAssumption, SMT DEF Clients

\* The new connection goes where the pool has none.
LEMMA DialSucceedsIInv ==
    ASSUME PoolIInv, NEW r \in Requests, DialSucceeds(r) PROVE PoolIInv'
<1> DEFINE a == addr[r]
           c == Cardinality(made) + 1
<1> USE DEF DialSucceeds, GoTo, UnlockPool, shutdown
<1>1. /\ a \in Addrs /\ pool[a] = None /\ poolMu = r /\ Lists(recent, pool) /\ Len(recent) < MaxSize
      /\ pool \in [Addrs -> Clients \cup {None}] /\ recent \in Seq(Addrs) /\ sshConfig = TRUE
  BY ZenonT(20) DEF PoolIInv, PoolTypeOK, HoldersFindWhatTheySaw, CloseEmptiesForGood
<1>2. c \in Clients
  <2>1. IsFiniteSet(Clients) /\ Cardinality(Clients) = MaxDials
    BY FS_Interval, SshPoolAssumption, SMTT(30) DEF Clients
  <2>2. made \subseteq Clients /\ made # Clients
    BY ZenonT(20) DEF PoolIInv, PoolTypeOK
  <2>3. Cardinality(made) \in Nat /\ Cardinality(made) < MaxDials
    BY <2>1, <2>2, FS_Subset, FS_CardinalityType, SMTT(30)
  <2> QED
    BY <2>3, NextDial, ZenonT(20)
<1> HIDE DEF c
<1>3. /\ made' = made \cup {c} /\ pool' = [pool EXCEPT ![a] = c] /\ recent' = Append(recent, a)
      /\ UNCHANGED <<hungUp, addr, sshMu, sshConfig, cleanupDone, poolCloser, cleaner, captured>>
      /\ place' = [place EXCEPT ![r] = "using"] /\ place[r] = "dial" /\ poolMu' = None
  BY DEF c
<1> HIDE DEF DialSucceeds
<1>4. Lists(recent', pool') /\ Len(recent') = Len(recent) + 1
  <2>1. ASSUME NEW b \in Addrs, pool[b] = None, NEW d \in Clients
        PROVE  /\ Lists(Append(recent, b), [pool EXCEPT ![b] = d])
               /\ Len(Append(recent, b)) = Len(recent) + 1
    BY <1>1, <2>1, NoneIsNoClient, ListsAppend, ZenonT(40)
  <2> QED
    BY <1>1, <1>2, <1>3, <2>1, Zenon
<1>5. PoolTypeOK' /\ Lists(recent, pool)'
  BY <1>1, <1>2, <1>3, <1>4, ZenonT(40) DEF PoolIInv, PoolTypeOK, Lists
<1>6. Len(recent') <= MaxSize
  BY <1>1, <1>4, LenProperties, SshPoolAssumption, SMTT(30)
<1>7. pool'[a] = c /\ \A b \in Addrs \ {a} : pool'[b] = pool[b]
  BY <1>1, <1>3
<1>8. PooledWereDialled'
  BY <1>1, <1>3, <1>7 DEF PoolIInv, PooledWereDialled
<1>9. NoConnectionLost'
  <2>1. ASSUME NEW d \in made' \ hungUp' PROVE \E b \in Addrs : pool'[b] = d
    <3>1. CASE d = c
      BY <1>1, <1>7, <3>1, ZenonT(20)
    <3>2. CASE d # c
      <4>1. PICK b \in Addrs : pool[b] = d
        BY <1>3, <3>2, SMTT(30) DEF PoolIInv, NoConnectionLost
      <4>2. b # a
        BY <1>1, <1>3, <3>2, <4>1, NoneIsNoClient, ZenonT(40) DEF PoolIInv, PoolTypeOK
      <4> QED
        BY <1>7, <4>1, <4>2, ZenonT(20)
    <3> QED
      BY <3>1, <3>2, ZenonT(20)
  <2> QED
    BY <2>1 DEF NoConnectionLost
<1>10. HoldersFindWhatTheySaw' /\ CloseEmptiesForGood'
  <2>1. \A q \in Requests : place'[q] \in {"idle", "locking", "using"}
    BY <1>1, <1>3, NobodyElseInside, SMTT(30) DEF PoolIInv, PoolTypeOK
  <2>2. \A q \in Requests : place'[q] # "idle" => addr'[q] \in Addrs
    BY <1>1, <1>3, ZenonT(40) DEF PoolIInv, PoolTypeOK, HoldersFindWhatTheySaw
  <2>3. poolCloser' # "done"
    BY <1>1, <1>3, ZenonT(40) DEF PoolIInv, CloseEmptiesForGood
  <2> QED
    BY <2>1, <2>2, <2>3, ZenonT(20) DEF HoldersFindWhatTheySaw, CloseEmptiesForGood
<1> QED
  BY <1>5, <1>6, <1>8, <1>9, <1>10, ZenonT(40) DEF PoolIInv

\* cleanupExpiredConnections closes what it drops.
LEMMA CleanUpIInv ==
    ASSUME PoolIInv, NEW n \in Nat, CleanUp(n) PROVE PoolIInv'
<1> DEFINE expired == {recent[i] : i \in 1 .. n}
           left == [a \in Addrs |-> IF a \in expired THEN None ELSE pool[a]]
           rest == SubSeq(recent, n + 1, Len(recent))
<1> USE DEF CleanUp, shutdown
<1>1. /\ Lists(recent, pool) /\ Len(recent) <= MaxSize /\ pool \in [Addrs -> Clients \cup {None}]
      /\ n \in 1 .. Len(recent) /\ poolMu = None
  BY ZenonT(40) DEF PoolIInv, PoolTypeOK
<1>2. /\ pool' = left /\ recent' = rest /\ hungUp' = hungUp \cup {pool[a] : a \in expired}
      /\ UNCHANGED <<poolMu, made, place, addr, sshMu, sshConfig, cleanupDone, poolCloser, cleaner,
                     captured>>
  BY ZenonT(20)
<1>3. Lists(rest, left) /\ Len(rest) <= Len(recent)
  BY <1>1, ListsExpire, ZenonT(20)
<1>4. expired \subseteq Addrs /\ \A a \in expired : pool[a] # None
  BY <1>1, LenProperties DEF Lists
<1> HIDE DEF rest, expired, CleanUp, shutdown
<1>5. Lists(recent, pool)' /\ recent' \in Seq(Addrs) /\ Len(recent') <= MaxSize
  <2>1. Len(rest) \in Nat /\ Len(recent) \in Nat
    BY <1>1, <1>3, LenProperties, ZenonT(40) DEF Lists
  <2>2. Len(rest) <= MaxSize
    BY <1>1, <1>3, <2>1, SshPoolAssumption, SMTT(30)
  <2> QED
    BY <1>2, <1>3, <2>2, ZenonT(40) DEF Lists
<1>6. pool' \in [Addrs -> Clients \cup {None}]
      /\ \A a \in Addrs : pool'[a] = IF a \in expired THEN None ELSE pool[a]
  BY <1>1, <1>2, ZenonT(40)
<1>7. /\ \A a \in Addrs : pool'[a] = pool[a] \/ (pool'[a] = None /\ pool[a] \in hungUp' \cup {None})
      /\ hungUp \subseteq hungUp'
      /\ \A c \in hungUp' \ hungUp : c # None /\ \E a \in Addrs : pool[a] = c
  BY <1>2, <1>4, <1>6, ZenonT(40)
<1>8. /\ PooledWereDialled' /\ NoConnectionLost' /\ hungUp' \subseteq made'
      /\ \A a \in Addrs : pool[a] = None => pool'[a] = None
  BY <1>2, <1>7, DropsAreClosed, ZenonT(40)
<1>9. PoolTypeOK'
  BY <1>2, <1>5, <1>6, <1>8, ZenonT(40) DEF PoolIInv, PoolTypeOK
<1>10. HoldersFindWhatTheySaw' /\ CloseEmptiesForGood'
  BY <1>1, <1>2, <1>8, NobodyInside, ZenonT(20) DEF PoolIInv, HoldersFindWhatTheySaw, CloseEmptiesForGood
<1> QED
  BY <1>5, <1>8, <1>9, <1>10, ZenonT(40) DEF PoolIInv

\* The empty list is the list of the empty pool.
LEMMA EmptyPoolListed ==
    Lists(<<>>, [a \in Addrs |-> None]) /\ Len(<<>>) <= MaxSize
BY EmptySeq, SshPoolAssumption, SMT DEF Lists

\* Close: every entry is closed, and no request is about to dial.
LEMMA ClosePoolIInv ==
    ASSUME PoolIInv, ClosePool PROVE PoolIInv'
<1> USE DEF ClosePool, ConfigAfterClose
<1>1. /\ pool' = [a \in Addrs |-> None] /\ recent' = <<>> /\ poolMu = None /\ sshConfig' = FALSE
      /\ hungUp' = hungUp \cup ({pool[a] : a \in Addrs} \ {None})
      /\ sshMu' = None /\ poolCloser' = "done"
      /\ UNCHANGED <<poolMu, cleanupDone, made, place, addr, cleaner, captured>>
  OBVIOUS
<1> HIDE DEF ClosePool, ConfigAfterClose
<1>2. <<>> \in Seq(Addrs) /\ Len(<<>>) = 0
  BY EmptySeq, SMTT(30)
<1>3. Lists(recent', pool') /\ Len(recent') <= MaxSize
  BY <1>1, EmptyPoolListed, ZenonT(20)
<1>4. /\ PooledWereDialled' /\ NoConnectionLost' /\ hungUp' \subseteq made'
  BY <1>1, DropsAreClosed
<1>5. PoolTypeOK'
  BY <1>1, <1>2, <1>4, ZenonT(40) DEF PoolIInv, PoolTypeOK
<1>6. HoldersFindWhatTheySaw' /\ CloseEmptiesForGood'
  BY <1>1, NobodyInside, ZenonT(40) DEF PoolIInv, HoldersFindWhatTheySaw, CloseEmptiesForGood
<1> QED
  BY <1>3, <1>4, <1>5, <1>6, ZenonT(40) DEF PoolIInv

\* The clean-up loop's start and end, and Close taking mu.
LEMMA LoopIInv ==
    ASSUME PoolIInv, Capture \/ CleanupEnds \/ LockForClose PROVE PoolIInv'
<1> USE DEF Capture, CleanupEnds, LockForClose, pooled
<1>1. UNCHANGED <<poolMu, sshConfig, pool, recent, made, hungUp, place, addr>>
      /\ poolCloser' \in {poolCloser, "locked"}
  BY SMTT(30)
<1>2. PoolTypeOK'
  BY ZenonT(20) DEF PoolIInv, PoolTypeOK
<1>3. HoldersFindWhatTheySaw' /\ CloseEmptiesForGood'
  BY <1>1, ZenonT(20) DEF PoolIInv, HoldersFindWhatTheySaw, CloseEmptiesForGood
<1>4. Lists(recent, pool)' /\ PooledWereDialled' /\ NoConnectionLost'
  BY <1>1, SMTT(30) DEF PoolIInv, Lists, PooledWereDialled, NoConnectionLost
<1> QED
  BY <1>1, <1>2, <1>3, <1>4, ZenonT(20) DEF PoolIInv

LEMMA PoolNextIInv == PoolIInv /\ [PoolNext]_poolVars => PoolIInv'
<1> SUFFICES ASSUME PoolIInv, [PoolNext]_poolVars PROVE PoolIInv'
  OBVIOUS
<1>1. ASSUME NEW n \in 1 .. Cardinality(Addrs), CleanUp(n) PROVE PoolIInv'
  <2>1. n \in Nat
    BY FS_CardinalityType, SshPoolAssumption, SMTT(30)
  <2> QED
    BY <1>1, <2>1, CleanUpIInv, ZenonT(20)
<1>2. ASSUME UNCHANGED poolVars PROVE PoolIInv'
  BY <1>2, ZenonT(40) DEF poolVars, PoolIInv, PoolTypeOK, Lists, HoldersFindWhatTheySaw, PooledWereDialled,
     NoConnectionLost, CloseEmptiesForGood
<1> QED
  BY ZenonT(20), <1>1, <1>2, GetClientIInv, LockPoolIInv, AliveIInv, DeadIInv, ReadConfigIInv,
     DialSucceedsIInv, LoopIInv, ClosePoolIInv DEF PoolNext

-----------------------------------------------------------------------------
\* The pool's inductive invariant holds in every reachable state.
THEOREM PoolInductive == PoolSpec => []PoolIInv
  BY PoolInitIInv, PoolNextIInv, PTL DEF PoolSpec

\* getPooledClient, evictOldestLocked and cleanupExpiredConnections keep the pool
\* to pool_max_size, and its order of use lists exactly its entries.
THEOREM PoolKeepsToItsSize == PoolSpec => []PoolBounded
<1>1. PoolIInv => PoolBounded
  BY ListsCount DEF PoolIInv, PoolBounded
<1> QED
  BY <1>1, PoolInductive, PTL

\* A connection that leaves the pool is closed as it does.
THEOREM ConnectionsAreNotLost == PoolSpec => []NoConnectionLost
<1>1. PoolIInv => NoConnectionLost
  BY DEF PoolIInv
<1> QED
  BY <1>1, PoolInductive, PTL

\* Once Close has returned every connection ever dialled is closed, and none is
\* dialled any more by a request that was under way.
THEOREM CloseLeavesNothing == PoolSpec => []NothingSurvivesClose
<1>1. PoolIInv => NothingSurvivesClose
  <2> SUFFICES ASSUME PoolIInv, poolCloser = "done" PROVE made \subseteq hungUp
    BY DEF NothingSurvivesClose
  <2>1. None \notin made
    BY NoneIsNoClient DEF PoolIInv, PoolTypeOK
  <2> QED
    BY <2>1 DEF PoolIInv, CloseEmptiesForGood, NoConnectionLost
<1> QED
  BY <1>1, PoolInductive, PTL
-----------------------------------------------------------------------------
(***************************************************************************)
(* The whole: a behaviour of Proxies is one of each of its parts, where    *)
(* the parts that are not active only stutter.                             *)
(***************************************************************************)
LEMMA PartsOfProxies == ProxySpec => ClientSpec /\ PoolSpec /\ StoreSpec /\ CacheSpec
<1>1. NewProxyByType => ClientInit(Kinds) /\ PoolInit /\ StoreInit /\ CacheInit
  BY DEF NewProxyByType, ClientInit, Kinds
<1>2. [ProxyNext]_proxyVars => /\ [ClientNext]_clientVars /\ [PoolNext]_poolVars
                               /\ [StoreNext]_storeVars /\ [CacheNext]_secretVars
  BY DEF ProxyNext, proxyVars
<1> QED
  BY <1>1, <1>2, PTL DEF ProxySpec, ClientSpec, PoolSpec, StoreSpec, CacheSpec

\* The type invariant of the proxies and stores, for every instance.
THEOREM ProxiesTypeCorrect == ProxySpec => []ProxyTypeOK
<1>1. NewProxyByType => active \in Parts
  BY DEF NewProxyByType
<1>2. active \in Parts /\ [ProxyNext]_proxyVars => (active \in Parts)'
  BY DEF ProxyNext, proxyVars
<1>3. /\ ClientIInv => ClientTypeOK
      /\ PoolIInv => PoolTypeOK
      /\ StoreIInv => StoreTypeOK
      /\ active \in Parts /\ ClientTypeOK /\ PoolTypeOK /\ StoreTypeOK /\ CacheTypeOK => ProxyTypeOK
  BY DEF ClientIInv, PoolIInv, StoreIInv, ProxyTypeOK
<1> QED
  BY <1>1, <1>2, <1>3, PartsOfProxies, ClientInductive, PoolInductive, StoreInductive,
     CacheTypeCorrect, PTL DEF ProxySpec

\* Whichever proxy or store is running, it keeps its promises: no client and no
\* connection is lost, read-only and size limits hold, credentials survive a crash,
\* secrets are current, and requests are served as the Proxy interface says.
THEOREM ProxiesSafe ==
    ProxySpec => /\ []ClientsReleased /\ []ReadOnlyHonoured /\ []WholeOrRefused
                 /\ []PoolBounded /\ []NothingSurvivesClose /\ []NoConnectionLost
                 /\ []StoredNotLost /\ []SecretsAreCurrent
                 /\ ImplementsContract
  BY PartsOfProxies, NoClientLeaked, ReadOnlyIsHonoured, ResponsesAreWhole, PoolKeepsToItsSize,
     CloseLeavesNothing, ConnectionsAreNotLost, CredentialsAreNotLost, SecretsStayCurrent,
     ProxiesImplementContract, PTL
=============================================================================
