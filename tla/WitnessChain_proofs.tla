------------------------ MODULE WitnessChain_proofs ------------------------
(* Theorems about WitnessChain, for every set of receipts and any number of appends and crashes. *)
EXTENDS WitnessChain, SequenceTheorems, TLAPS

-----------------------------------------------------------------------------
(* What a record commits to, and what one more of them makes of a chain.   *)

LEMMA NothingCommitted == Elements(None) = {}
  BY DEF Elements, None

LEMMA OneMore ==
  ASSUME NEW S, NEW h \in Seq(S), NEW r \in S
  PROVE  /\ Append(h, r) # None
         /\ Append(h, r)[Len(Append(h, r))] = r
         /\ Prev(Append(h, r)) = h
         /\ Elements(Append(h, r)) = Elements(h) \union {r}
<1>1. /\ Append(h, r) \in Seq(S) /\ Len(Append(h, r)) = Len(h) + 1 /\ Len(h) \in Nat
      /\ \A i \in 1..Len(h) : Append(h, r)[i] = h[i]
      /\ Append(h, r)[Len(h) + 1] = r
      /\ Append(h, r) # None
  BY AppendProperties, LenProperties DEF None
<1>2. Prev(Append(h, r)) = h
  <2>1. Prev(Append(h, r)) = SubSeq(Append(h, r), 1, Len(h))
    BY <1>1 DEF Prev
  <2>2. /\ SubSeq(Append(h, r), 1, Len(h)) \in Seq(S)
        /\ Len(SubSeq(Append(h, r), 1, Len(h))) = Len(h)
        /\ \A i \in 1..Len(h) : SubSeq(Append(h, r), 1, Len(h))[i] = h[i]
    <3>1. \A i \in 1..Len(h) : Append(h, r)[i] \in S
      BY <1>1, ElementOfSeq
    <3>2. /\ SubSeq(Append(h, r), 1, Len(h)) \in Seq(S)
          /\ Len(SubSeq(Append(h, r), 1, Len(h))) = IF 1 <= Len(h) THEN Len(h) - 1 + 1 ELSE 0
          /\ \A i \in 1..Len(h) - 1 + 1 : SubSeq(Append(h, r), 1, Len(h))[i] = Append(h, r)[1 + i - 1]
      BY <1>1, <3>1, SubSeqProperties
    <3>3. QED
      BY <1>1, <3>2
  <2>3. QED
    BY <2>1, <2>2, SeqEqual
<1>3. Elements(Append(h, r)) = Elements(h) \union {r}
  <2>1. \A x \in Elements(Append(h, r)) : x \in Elements(h) \union {r}
    BY <1>1 DEF Elements
  <2>2. \A x \in Elements(h) : x \in Elements(Append(h, r))
    BY <1>1 DEF Elements
  <2>3. r \in Elements(Append(h, r))
    BY <1>1 DEF Elements
  <2>4. QED
    BY <2>1, <2>2, <2>3
<1>4. QED
  BY <1>1, <1>2, <1>3

LEMMA LastAppended ==
  ASSUME NEW c \in Seq(Hashes), NEW x \in Hashes
  PROVE  /\ Append(c, x) \in Seq(Hashes) /\ Append(c, x) # <<>>
         /\ Len(Append(c, x)) = Len(c) + 1 /\ Len(c) \in Nat
         /\ \A i \in 1..Len(c) : Append(c, x)[i] = c[i]
         /\ Append(c, x)[Len(c) + 1] = x
         /\ LastOf(Append(c, x)) = x
  BY AppendProperties, LenProperties DEF LastOf

LEMMA LastIsHash ==
  ASSUME NEW c \in Seq(Hashes)
  PROVE  /\ LastOf(c) \in Hashes /\ Len(c) \in Nat
         /\ c # <<>> => Len(c) \in 1..Len(c) /\ LastOf(c) = c[Len(c)]
         /\ c = <<>> => LastOf(c) = None /\ Len(c) = 0
<1>1. Len(c) \in Nat /\ (c # <<>> => Len(c) >= 1)
  BY EmptySeq, LenProperties
<1>2. None \in Hashes
  BY EmptySeq DEF Hashes, None
<1>3. CASE c = <<>>
  BY <1>2, <1>3, EmptySeq DEF LastOf
<1>4. CASE c # <<>>
  BY <1>1, <1>4, ElementOfSeq DEF LastOf
<1>5. QED
  BY <1>1, <1>3, <1>4

\* A record appended to a chain keeps it walking if it is chained to its last one.
LEMMA WalksOn ==
  ASSUME NEW c \in Seq(Hashes), NEW x \in Hashes
  PROVE  Walks(Append(c, x)) <=> Walks(c) /\ x # Unreadable /\ Prev(x) = LastOf(c)
<1> DEFINE d == Append(c, x)
<1>1. /\ Len(d) = Len(c) + 1 /\ Len(c) \in Nat /\ d[Len(c) + 1] = x
      /\ \A i \in 1..Len(c) : d[i] = c[i]
  BY LastAppended
<1>2. LastOf(c) = IF Len(c) + 1 = 1 THEN None ELSE d[Len(c) + 1 - 1]
  BY <1>1, LastIsHash
<1> HIDE DEF d
<1>3. ASSUME Walks(d)
      PROVE  Walks(c) /\ x # Unreadable /\ Prev(x) = LastOf(c)
  <2>1. ASSUME NEW i \in 1..Len(c)
        PROVE  c[i] # Unreadable /\ Prev(c[i]) = IF i = 1 THEN None ELSE c[i - 1]
    <3>1. i \in 1..Len(d) /\ d[i] = c[i] /\ (i # 1 => d[i - 1] = c[i - 1])
      BY <1>1, <2>1
    <3>2. QED
      BY <1>3, <3>1 DEF Walks
  <2>2. Len(c) + 1 \in 1..Len(d)
    BY <1>1
  <2>3. x # Unreadable /\ Prev(x) = LastOf(c)
    BY <1>1, <1>2, <1>3, <2>2 DEF Walks
  <2>4. QED
    BY <2>1, <2>3 DEF Walks
<1>4. ASSUME Walks(c), x # Unreadable, Prev(x) = LastOf(c)
      PROVE  Walks(d)
  <2>1. ASSUME NEW i \in 1..Len(d)
        PROVE  d[i] # Unreadable /\ Prev(d[i]) = IF i = 1 THEN None ELSE d[i - 1]
    <3>1. CASE i \in 1..Len(c)
      <4>1. d[i] = c[i] /\ (i # 1 => d[i - 1] = c[i - 1])
        BY <1>1, <3>1
      <4>2. QED
        BY <1>4, <3>1, <4>1 DEF Walks
    <3>2. CASE i = Len(c) + 1
      BY <1>1, <1>2, <1>4, <3>2
    <3>3. QED
      BY <1>1, <3>1, <3>2
  <2>2. QED
    BY <2>1 DEF Walks
<1>5. QED
  BY <1>3, <1>4 DEF d

\* A chain that walks still has a record for each receipt it commits to.
LEMMA CoversOn ==
  ASSUME NEW c \in Seq(Hashes), NEW h \in Hashes, NEW r \in Receipts \union Legacy,
         Walks(Append(c, Append(h, r))), Walks(c) => Covered(c)
  PROVE  Covered(Append(c, Append(h, r)))
<1> DEFINE x == Append(h, r)
           d == Append(c, x)
<1>0. x \in Hashes
  BY AppendProperties DEF Hashes
<1>1. /\ Len(d) = Len(c) + 1 /\ Len(c) \in Nat /\ d[Len(c) + 1] = x
      /\ \A i \in 1..Len(c) : d[i] = c[i]
  BY <1>0, LastAppended
<1>2. /\ x # Unreadable /\ Prev(x) = h /\ Elements(x) = Elements(h) \union {r} /\ x[Len(x)] = r
  BY OneMore DEF Hashes, None, Unreadable
<1>3. Covered(c) /\ h = LastOf(c)
  BY <1>0, <1>2, WalksOn
<1> HIDE DEF d, x
<1>4. ASSUME NEW i \in 1..Len(c), NEW q \in Elements(c[i])
      PROVE  \E k \in 1..i : d[k] # Unreadable /\ d[k][Len(d[k])] = q
  <2>1. PICK k \in 1..i : c[k] # Unreadable /\ c[k][Len(c[k])] = q
    BY <1>3, <1>4 DEF Covered
  <2>2. d[k] = c[k]
    BY <1>1
  <2>3. QED
    BY <2>1, <2>2
<1>5. ASSUME NEW q \in Elements(x)
      PROVE  \E k \in 1..Len(c) + 1 : d[k] # Unreadable /\ d[k][Len(d[k])] = q
  <2>1. CASE q = r
    BY <1>1, <1>2, <2>1
  <2>2. CASE q \in Elements(h)
    <3>1. c # <<>> /\ Len(c) \in 1..Len(c) /\ h = c[Len(c)]
      BY <1>3, <2>2, LastIsHash, NothingCommitted
    <3>2. PICK k \in 1..Len(c) : d[k] # Unreadable /\ d[k][Len(d[k])] = q
      BY <1>4, <2>2, <3>1
    <3>3. QED
      BY <1>1, <3>2
  <2>3. QED
    BY <1>2, <2>1, <2>2
<1>6. ASSUME NEW i \in 1..Len(d), NEW q \in Elements(d[i])
      PROVE  \E k \in 1..i : d[k] # Unreadable /\ d[k][Len(d[k])] = q
  <2>1. CASE i \in 1..Len(c)
    BY <1>1, <1>4, <1>6, <2>1
  <2>2. CASE i = Len(c) + 1
    BY <1>1, <1>5, <1>6, <2>2
  <2>3. QED
    BY <1>1, <2>1, <2>2
<1>7. QED
  BY <1>6 DEF Covered, d, x

-----------------------------------------------------------------------------
(* The records an action starts from, and what it leaves of a chain.       *)

Appends == [at : {"idle", "tidied", "hashed", "written"}, item : Hashes, prev : Hashes, count : Nat]
Reads ==
  [at : Reader, records : Seq(Hashes), torn : BOOLEAN, owed : SUBSET (Receipts \union Legacy),
   verdict : {"none", "ok", "broken", "truncated", "diverged", "empty", "missing", "unreadable"}]
Anchors == [state : {"ok", "missing", "unreadable"}, head : Hashes, count : Nat]

LEMMA Types ==
  TypeOK <=> /\ chain \in Seq(Hashes)
             /\ tail \in {"clean", "torn", "bare"}
             /\ anchor \in Anchors /\ (anchor.state = "ok" => anchor.count >= 1 /\ anchor.head # None)
             /\ marked \in BOOLEAN /\ proc \in {"down", "starting", "up"}
             /\ append \in Appends /\ reader \in Reads
             /\ crashes \in 0..CrashesMax /\ damage \in Damage
             /\ used \subseteq Receipts /\ acked \subseteq Receipts \union Legacy
  BY DEF TypeOK, Appends, Reads, Anchors

LEMMA Blanks ==
  /\ None \in Hashes /\ None = Unreadable /\ <<>> \in Seq(Hashes)
  /\ Idle \in Appends /\ NoRead \in Reads
  /\ \A state \in {"missing", "unreadable"} : [Missing EXCEPT !.state = state] \in Anchors
  /\ LastOf(<<>>) = None /\ Walks(<<>>) /\ Covered(<<>>)
<1>1. None \in Hashes /\ <<>> \in Seq(Hashes) /\ Len(<<>>) = 0
  BY EmptySeq DEF None, Hashes
<1>2. None = Unreadable
  BY DEF None, Unreadable
<1>3. Idle \in Appends /\ NoRead \in Reads
  BY <1>1 DEF Idle, Appends, NoRead, Reads, Reader
<1>4. \A state \in {"missing", "unreadable"} : [Missing EXCEPT !.state = state] \in Anchors
  BY <1>1 DEF Missing, Anchors
<1>5. LastOf(<<>>) = None /\ Walks(<<>>) /\ Covered(<<>>)
  BY <1>1 DEF LastOf, Walks, Covered
<1>6. QED
  BY <1>1, <1>2, <1>3, <1>4, <1>5

LEMMA SomeOf ==
  ASSUME NEW h \in Hashes
  PROVE  /\ Len(h) \in Nat /\ Elements(h) \subseteq Receipts \union Legacy
         /\ h # None => /\ h[Len(h)] \in Elements(h) /\ h[Len(h)] \in Receipts \union Legacy
                        /\ Len(h) >= 1
<1>1. h \in Seq(Receipts \union Legacy) /\ Len(h) \in Nat /\ (h # None => Len(h) >= 1)
  BY EmptySeq, LenProperties DEF Hashes, None
<1>2. \A i \in 1..Len(h) : h[i] \in Receipts \union Legacy
  BY <1>1, ElementOfSeq
<1>3. Elements(h) \subseteq Receipts \union Legacy
  BY <1>2 DEF Elements
<1>4. ASSUME h # None
      PROVE  h[Len(h)] \in Elements(h)
  <2>1. Len(h) \in 1..Len(h)
    BY <1>1, <1>4
  <2>2. QED
    BY <2>1 DEF Elements
<1>5. QED
  BY <1>1, <1>3, <1>4

-----------------------------------------------------------------------------
(* The record at work reaches the file.                                    *)

\* Whatever the write left behind, a fragment or the record, the chain holds what the invariant asks
\* of it, and a chain that had parted from its anchor has not met it again.
LEMMA RecordWritten ==
  ASSUME IInv, append.at = "hashed", chain' = Append(chain, append.item),
         UNCHANGED <<anchor, damage, used, acked>>
  PROVE  /\ chain' \in Seq(Hashes) /\ chain' # <<>> /\ LastOf(chain') = append.item
         /\ Len(chain') = Len(chain) + 1 /\ Len(chain) \in Nat
         /\ damage # "chain" => /\ Walks(chain')
                                /\ \A i \in 1..Len(chain') : Len(chain'[i]) = i
                                /\ acked \subseteq Elements(LastOf(chain'))
                                /\ anchor.state = "ok" => ExtendsAnchor'
         /\ ChainSound'
         /\ anchor.state = "ok" /\ Forked => Forked'
<1> DEFINE item == append.item
           prev == append.prev
           m == item[Len(item)]
<1>0. TypeOK /\ WholeSound /\ ChainSound /\ AnchorSound /\ AppendSound
  BY DEF IInv
<1>1. /\ chain \in Seq(Hashes) /\ item \in Hashes /\ prev \in Hashes /\ item # None
      /\ item = Append(prev, m) /\ m \in Receipts \union Legacy
      /\ m \notin Elements(anchor.head)
  BY <1>0, Types, SomeOf DEF Appends, AppendSound, Pending, Mine
<1>2. /\ Prev(item) = prev /\ Elements(item) = Elements(prev) \union {m}
      /\ Len(item) = Len(prev) + 1 /\ Len(prev) \in Nat
  <2> HIDE DEF m
  <2>1. Prev(Append(prev, m)) = prev /\ Elements(Append(prev, m)) = Elements(prev) \union {m}
    BY <1>1, OneMore DEF Hashes
  <2>2. Len(Append(prev, m)) = Len(prev) + 1 /\ Len(prev) \in Nat
    BY <1>1, AppendProperties, LenProperties DEF Hashes
  <2>3. QED
    BY <1>1, <2>1, <2>2
<1>3. /\ chain' \in Seq(Hashes) /\ chain' # <<>> /\ LastOf(chain') = item
      /\ Len(chain') = Len(chain) + 1 /\ Len(chain) \in Nat
      /\ \A i \in 1..Len(chain) : chain'[i] = chain[i]
      /\ chain'[Len(chain) + 1] = item
  BY <1>1, LastAppended
<1> HIDE DEF m
<1>4. ASSUME damage # "chain"
      PROVE  /\ Walks(chain')
             /\ \A i \in 1..Len(chain') : Len(chain'[i]) = i
             /\ acked \subseteq Elements(LastOf(chain'))
             /\ anchor.state = "ok" => ExtendsAnchor'
  <2>1. /\ Walks(chain) /\ prev = LastOf(chain) /\ acked \subseteq Elements(prev)
        /\ \A i \in 1..Len(chain) : Len(chain[i]) = i
        /\ anchor.state = "ok" => ExtendsAnchor
    BY <1>0, <1>4 DEF WholeSound
  <2>2. Walks(chain')
    BY <1>1, <1>2, <2>1, WalksOn, Blanks
  <2>3. Len(item) = Len(chain) + 1
    BY <1>1, <1>2, <1>3, <2>1, LastIsHash, EmptySeq DEF None
  <2>4. \A i \in 1..Len(chain') : Len(chain'[i]) = i
    BY <1>3, <2>1, <2>3
  <2>5. acked \subseteq Elements(LastOf(chain'))
    BY <1>2, <1>3, <2>1
  <2>6. anchor.state = "ok" => ExtendsAnchor'
    BY <1>0, <1>3, <2>1, Types DEF ExtendsAnchor, Anchors
  <2>7. QED
    BY <2>2, <2>4, <2>5, <2>6
<1>5. ChainSound'
  <2>1. ASSUME NEW i \in 1..Len(chain'), NEW j \in 1..Len(chain'), i <= j, chain'[j] # Unreadable
        PROVE  Elements(chain'[i]) \subseteq Elements(chain'[j])
    <3>1. CASE j \in 1..Len(chain)
      <4>1. i \in 1..Len(chain) /\ chain'[i] = chain[i] /\ chain'[j] = chain[j]
        BY <1>3, <2>1, <3>1
      <4>2. QED
        BY <1>0, <2>1, <3>1, <4>1 DEF ChainSound
    <3>2. CASE j = Len(chain) + 1 /\ i \in 1..Len(chain)
      BY <1>0, <1>3, <3>2 DEF AppendSound
    <3>3. CASE i = j
      BY <3>3
    <3>4. j \in 1..Len(chain) \/ (j = Len(chain) + 1 /\ i \in 1..Len(chain)) \/ i = j
      <4>1. Len(chain') = Len(chain) + 1 /\ Len(chain) \in Nat
        BY <1>3
      <4>2. QED
        BY <2>1, <4>1
    <3>5. QED
      BY <3>1, <3>2, <3>3, <3>4
  <2>2. Walks(chain') => Covered(chain')
    BY <1>0, <1>1, CoversOn DEF ChainSound
  <2>3. ASSUME NEW i \in 1..Len(chain')
        PROVE  Elements(chain'[i]) \subseteq used' \union Legacy
    <3>1. Elements(item) \subseteq used \union Legacy
      BY <1>0 DEF AppendSound
    <3>2. QED
      BY <1>0, <1>3, <3>1 DEF ChainSound
  <2>4. QED
    BY <2>1, <2>2, <2>3 DEF ChainSound
<1>6. ASSUME anchor.state = "ok", Forked
      PROVE  Forked'
  <2>1. item # anchor.head
    BY <1>1, <1>2
  <2>2. anchor.count \in Nat /\ anchor.count >= 1
    BY <1>0, <1>6, Types DEF Anchors
  <2>3. ASSUME Len(chain') >= anchor.count
        PROVE  chain'[anchor.count] # anchor.head
    <3>1. CASE anchor.count \in 1..Len(chain)
      BY <1>3, <1>6, <2>2, <3>1 DEF Forked, ExtendsAnchor
    <3>2. CASE anchor.count = Len(chain) + 1
      BY <1>3, <2>1, <3>2
    <3>3. QED
      BY <1>3, <2>2, <2>3, <3>1, <3>2
  <2>4. QED
    BY <1>3, <1>6, <2>1, <2>3 DEF Forked, ExtendsAnchor
<1>7. QED
  BY <1>3, <1>4, <1>5, <1>6

\* What an append that raises, and a process that dies, leave of the files.
LEMMA WriteCut ==
  ASSUME IInv, append' = Idle, UNCHANGED <<anchor, damage, used, acked>>,
         chain' = chain \/ (append.at = "hashed" /\ chain' = Append(chain, append.item))
  PROVE  chain' \in Seq(Hashes) /\ WholeSound' /\ ChainSound' /\ AnchorSound' /\ AppendSound'
<1>0. TypeOK /\ WholeSound /\ ChainSound /\ AnchorSound /\ AppendSound
  BY DEF IInv
<1>1. append'.at = "idle"
  BY DEF Idle
<1>2. AppendSound'
  BY <1>1 DEF AppendSound, Pending
<1>3. CASE chain' = chain
  <2>1. ExtendsAnchor' <=> ExtendsAnchor
    BY <1>3 DEF ExtendsAnchor
  <2>2. Forked' <=> Forked
    BY <1>3, <2>1 DEF Forked
  <2>3. WholeSound'
    BY <1>0, <1>1, <1>3, <2>1 DEF WholeSound
  <2>4. ChainSound' /\ AnchorSound'
    BY <1>0, <1>3, <2>2 DEF ChainSound, AnchorSound
  <2>5. QED
    BY <1>0, <1>2, <1>3, <2>3, <2>4, Types
<1>4. CASE append.at = "hashed" /\ chain' = Append(chain, append.item)
  <2>1. WholeSound'
    BY <1>1, <1>4, RecordWritten DEF WholeSound
  <2>2. AnchorSound'
    BY <1>0, <1>4, RecordWritten DEF AnchorSound
  <2>3. QED
    BY <1>2, <1>4, <2>1, <2>2, RecordWritten
<1>5. QED
  BY <1>3, <1>4


LEMMA StartNoopKeeps ==
  ASSUME IInv, proc = "down", marked \/ anchor.state # "missing", proc' = "starting",
         UNCHANGED <<anchor, tail, acked, chain, marked, append, crashes, damage, used, reader>>
  PROVE  IInv'
<1>0. /\ TypeOK /\ PhasesSound /\ WholeSound /\ ChainSound /\ AnchorSound
      /\ AppendSound /\ ReaderSound /\ PassMeansWhole
  BY DEF IInv
<1>1. TypeOK'
  BY <1>0 DEF TypeOK, Reader, Damage, Missing
<1>2. PhasesSound'
  BY <1>0 DEF PhasesSound, Missing
<1>3. WholeSound'
  BY <1>0 DEF WholeSound, ExtendsAnchor, Missing
<1>4. ChainSound'
  BY <1>0 DEF ChainSound, Missing
<1>5. AnchorSound'
  BY <1>0 DEF AnchorSound, Forked, ExtendsAnchor, Missing
<1>6. AppendSound'
  BY <1>0 DEF AppendSound, Pending, Mine, Forked, ExtendsAnchor, Missing
<1>7. ReaderSound'
  BY <1>0 DEF ReaderSound, Missing
<1>8. PassMeansWhole'
  BY <1>0 DEF PassMeansWhole, Missing
<1>9. QED
  BY <1>1, <1>2, <1>3, <1>4, <1>5, <1>6, <1>7, <1>8 DEF IInv

LEMMA MigratesKeeps ==
  ASSUME IInv, proc = "down", ~marked, anchor.state = "missing", MigrateChain, proc' = "starting",
         UNCHANGED <<chain, marked, append, crashes, damage, used, reader>>
  PROVE  IInv'
<1>0. /\ TypeOK /\ PhasesSound /\ WholeSound /\ ChainSound /\ AnchorSound
      /\ AppendSound /\ ReaderSound /\ PassMeansWhole
  BY DEF IInv
<1>a. append.at = "idle" /\ reader.at = "idle" /\ Len(chain) <= 1
  BY <1>0 DEF PhasesSound
<1>b. /\ chain \in Seq(Hashes) /\ LastOf(chain) \in Hashes /\ Len(chain) \in Nat
      /\ chain # <<>> => Len(chain) \in 1..Len(chain) /\ LastOf(chain) = chain[Len(chain)]
  BY <1>0, Types, LastIsHash
<1>c. \/ /\ chain # <<>> /\ LastOf(chain) # Unreadable
         /\ anchor' = [state |-> "ok", head |-> LastOf(chain), count |-> Len(chain)]
         /\ tail' = "clean" /\ acked' = acked \union Elements(LastOf(chain))
         /\ damage # "chain" /\ Len(chain) \in 1..Len(chain)
      \/ tail' \in {tail, "clean"} /\ UNCHANGED <<anchor, acked>>
  BY <1>0, <1>b DEF MigrateChain, PhasesSound
<1>d. Elements(LastOf(chain)) \subseteq (used \union Legacy) \cap (Receipts \union Legacy)
  BY <1>0, <1>b, NothingCommitted, LastIsHash, SomeOf DEF ChainSound
<1>1. TypeOK'
  <2>1. anchor' \in Anchors /\ (anchor'.state = "ok" => anchor'.count >= 1 /\ anchor'.head # None)
    BY <1>0, <1>b, <1>c, Types, Blanks DEF Anchors
  <2>2. tail' \in {"clean", "torn", "bare"} /\ acked' \subseteq Receipts \union Legacy
    BY <1>0, <1>c, <1>d, Types
  <2>3. QED
    BY <1>0, <2>1, <2>2 DEF TypeOK, Appends, Reads, Anchors
<1>2. PhasesSound'
  BY <1>0 DEF PhasesSound, MigrateChain
<1>3. WholeSound'
  <2>1. damage # "chain" /\ anchor'.state = "ok" => ExtendsAnchor'
    BY <1>0, <1>b, <1>c DEF ExtendsAnchor, WholeSound
  <2>2. damage # "chain" => acked' \subseteq Elements(LastOf(chain))
    BY <1>0, <1>c DEF WholeSound
  <2>3. QED
    BY <1>0, <1>a, <2>1, <2>2 DEF WholeSound
<1>4. ChainSound'
  BY <1>0 DEF ChainSound, MigrateChain
<1>5. AnchorSound'
  <2>1. Elements(anchor'.head) \subseteq used \union Legacy
    BY <1>0, <1>c, <1>d DEF AnchorSound
  <2>2. anchor'.state = "ok" => acked' \subseteq Elements(anchor'.head)
    BY <1>0, <1>c DEF WholeSound
  <2>3. QED
    BY <2>1, <2>2 DEF AnchorSound
<1>6. AppendSound'
  BY <1>a DEF AppendSound, Pending
<1>7. ReaderSound'
  <2>1. acked \subseteq acked'
    BY <1>c
  <2>2. QED
    BY <1>0, <1>a, <2>1 DEF ReaderSound
<1>8. PassMeansWhole'
  BY <1>0 DEF PassMeansWhole, MigrateChain
<1>9. QED
  BY <1>1, <1>2, <1>3, <1>4, <1>5, <1>6, <1>7, <1>8 DEF IInv

LEMMA MarkRootKeeps ==
  ASSUME IInv, MarkRoot
  PROVE  IInv'
<1>0. /\ TypeOK /\ PhasesSound /\ WholeSound /\ ChainSound /\ AnchorSound
      /\ AppendSound /\ ReaderSound /\ PassMeansWhole
  BY DEF IInv
<1>1. TypeOK'
  BY <1>0 DEF TypeOK, Reader, Damage, MarkRoot
<1>2. PhasesSound'
  BY <1>0 DEF PhasesSound, MarkRoot
<1>3. WholeSound'
  BY <1>0 DEF WholeSound, ExtendsAnchor, MarkRoot
<1>4. ChainSound'
  BY <1>0 DEF ChainSound, MarkRoot
<1>5. AnchorSound'
  BY <1>0 DEF AnchorSound, Forked, ExtendsAnchor, MarkRoot
<1>6. AppendSound'
  BY <1>0 DEF AppendSound, Pending, Mine, Forked, ExtendsAnchor, MarkRoot
<1>7. ReaderSound'
  BY <1>0 DEF ReaderSound, MarkRoot
<1>8. PassMeansWhole'
  BY <1>0 DEF PassMeansWhole, MarkRoot
<1>9. QED
  BY <1>1, <1>2, <1>3, <1>4, <1>5, <1>6, <1>7, <1>8 DEF IInv

LEMMA SetAsideTornTailKeeps ==
  ASSUME IInv, NEW r \in Receipts, SetAsideTornTail(r)
  PROVE  IInv'
<1>0. /\ TypeOK /\ PhasesSound /\ WholeSound /\ ChainSound /\ AnchorSound
      /\ AppendSound /\ ReaderSound /\ PassMeansWhole
  BY DEF IInv
<1>1. TypeOK'
  <2>1. [Idle EXCEPT !.at = "tidied", !.item = <<r>>] \in Appends
    <3>1. <<r>> \in Hashes
      BY DEF Hashes
    <3>2. QED
      BY <3>1, Blanks DEF Idle, Appends
  <2>2. QED
    BY <1>0, <2>1 DEF TypeOK, Appends, Reads, Anchors, SetAsideTornTail
<1>2. PhasesSound'
  BY <1>0 DEF PhasesSound, Idle, SetAsideTornTail
<1>3. WholeSound'
  BY <1>0 DEF WholeSound, ExtendsAnchor, Idle, SetAsideTornTail
<1>4. ChainSound'
  BY <1>0 DEF ChainSound, Idle, SetAsideTornTail
<1>5. AnchorSound'
  BY <1>0 DEF AnchorSound, Forked, ExtendsAnchor, Idle, SetAsideTornTail
<1>6. AppendSound'
  <2>1. append' = [at |-> "tidied", item |-> <<r>>, prev |-> None, count |-> 0]
    BY DEF SetAsideTornTail, Idle
  <2>2. <<r>> # None /\ Len(<<r>>) = 1 /\ <<r>>[1] = r /\ Elements(<<r>>) = {r}
    BY DEF None, Elements
  <2>3. r \notin Elements(anchor.head)
    BY <1>0, WitnessAssumption DEF AnchorSound, SetAsideTornTail
  <2>4. QED
    BY <2>1, <2>2, <2>3 DEF AppendSound, SetAsideTornTail, Mine, Pending
<1>7. ReaderSound'
  BY <1>0 DEF ReaderSound, Idle, SetAsideTornTail
<1>8. PassMeansWhole'
  BY <1>0 DEF PassMeansWhole, Idle, SetAsideTornTail
<1>9. QED
  BY <1>1, <1>2, <1>3, <1>4, <1>5, <1>6, <1>7, <1>8 DEF IInv

LEMMA SetAsideFailsKeeps ==
  ASSUME IInv, NEW r \in Receipts, SetAsideFails(r)
  PROVE  IInv'
<1>0. /\ TypeOK /\ PhasesSound /\ WholeSound /\ ChainSound /\ AnchorSound
      /\ AppendSound /\ ReaderSound /\ PassMeansWhole
  BY DEF IInv
<1>1. TypeOK'
  BY <1>0 DEF TypeOK, SetAsideFails
<1>2. PhasesSound'
  BY <1>0 DEF PhasesSound, SetAsideFails
<1>3. WholeSound'
  BY <1>0 DEF WholeSound, ExtendsAnchor, SetAsideFails
<1>4. ChainSound'
  BY <1>0 DEF ChainSound, SetAsideFails
<1>5. AnchorSound'
  BY <1>0 DEF AnchorSound, Forked, ExtendsAnchor, SetAsideFails
<1>6. AppendSound'
  BY <1>0 DEF AppendSound, Mine, Pending, SetAsideFails, Forked, ExtendsAnchor
<1>7. ReaderSound'
  BY <1>0 DEF ReaderSound, SetAsideFails
<1>8. PassMeansWhole'
  BY <1>0 DEF PassMeansWhole, SetAsideFails
<1>9. QED
  BY <1>1, <1>2, <1>3, <1>4, <1>5, <1>6, <1>7, <1>8 DEF IInv

LEMMA ReadHeadKeeps ==
  ASSUME IInv, ReadHead
  PROVE  IInv'
<1>0. /\ TypeOK /\ PhasesSound /\ WholeSound /\ ChainSound /\ AnchorSound
      /\ AppendSound /\ ReaderSound /\ PassMeansWhole
  BY DEF IInv
<1>a. /\ chain \in Seq(Hashes) /\ append \in Appends /\ anchor \in Anchors /\ append.at = "tidied"
      /\ append.item \in Seq(Receipts \union Legacy) /\ Len(append.item) = 1
  BY <1>0, Types DEF ReadHead, AppendSound, Appends, Hashes
<1> DEFINE prev == LastOf(chain)
           r == append.item[1]
<1>b. /\ prev \in Hashes /\ Len(chain) \in Nat
      /\ chain # <<>> => Len(chain) \in 1..Len(chain) /\ prev = chain[Len(chain)] /\ prev # Unreadable
      /\ chain = <<>> => prev = None /\ Len(chain) = 0
  BY <1>a, LastIsHash DEF ReadHead
<1>c. r \in Receipts \union Legacy /\ append.item = <<r>> /\ Mine = r
  BY <1>a DEF Mine
<1>d. /\ prev \o append.item = Append(prev, r)
      /\ Append(prev, r) \in Hashes
  <2> HIDE DEF prev, r
  <2>1. prev \in Seq(Receipts \union Legacy)
    BY <1>b DEF Hashes
  <2>2. Append(prev, r) = prev \o <<r>>
    BY <1>c, <2>1, AppendIsConcat
  <2>3. Append(prev, r) \in Hashes
    BY <1>c, <2>1, AppendProperties DEF Hashes
  <2>4. QED
    BY <1>c, <2>2, <2>3
<1>e. /\ Append(prev, r) # None /\ Append(prev, r)[Len(Append(prev, r))] = r
      /\ Elements(Append(prev, r)) = Elements(prev) \union {r}
  BY <1>b, <1>c, OneMore DEF Hashes
<1>f. NextAnchorCount(prev) \in Nat
  BY <1>a, <1>b DEF NextAnchorCount, Anchors
<1> HIDE DEF r
<1>g. append' = [at |-> "hashed", item |-> Append(prev, r), prev |-> prev, count |-> NextAnchorCount(prev)]
  BY <1>d DEF ReadHead
<1>h. UNCHANGED <<chain, tail, anchor, marked, proc, crashes, damage, used, acked, reader>>
  BY DEF ReadHead
<1> HIDE DEF prev
<1>1. TypeOK'
  <2>1. append' \in Appends
    BY <1>b, <1>d, <1>f, <1>g DEF Appends
  <2>2. QED
    BY <1>0, <1>h, <2>1 DEF TypeOK, Appends, Reads, Anchors
<1>2. PhasesSound'
  BY <1>0 DEF PhasesSound, ReadHead
<1>3. WholeSound'
  <2> SUFFICES ASSUME damage # "chain"
               PROVE  NextAnchorCount(prev) \in {0, Len(chain) + 1}
    BY <1>0, <1>g, <1>h DEF WholeSound, ExtendsAnchor, prev
  <2>1. CASE prev = None
    <3>1. chain = <<>>
      BY <1>b, <2>1, Blanks
    <3>2. QED
      BY <1>b, <2>1, <3>1 DEF NextAnchorCount
  <2>2. CASE prev # None /\ anchor.state = "ok" /\ anchor.head = prev
    <3>1. Len(chain) >= anchor.count /\ chain[anchor.count] = prev /\ anchor.count >= 1 /\ anchor.count \in Nat
      BY <1>0, <1>a, <2>2, Types DEF WholeSound, ExtendsAnchor, Anchors
    <3>2. anchor.count \in 1..Len(chain) /\ chain # <<>>
      BY <1>b, <2>2, <3>1
    <3>3. anchor.count = Len(chain)
      BY <1>0, <1>b, <3>1, <3>2 DEF WholeSound
    <3>4. QED
      BY <2>2, <3>3 DEF NextAnchorCount
  <2>3. CASE prev # None /\ ~(anchor.state = "ok" /\ anchor.head = prev)
    BY <2>3 DEF NextAnchorCount
  <2>4. QED
    BY <2>1, <2>2, <2>3
<1>4. ChainSound'
  BY <1>0 DEF ChainSound, ReadHead
<1>5. AnchorSound'
  BY <1>0 DEF AnchorSound, Forked, ExtendsAnchor, ReadHead
<1>6. AppendSound'
  <2>1. \A k \in 1..Len(chain) : Elements(chain[k]) \subseteq Elements(prev)
    BY <1>0, <1>b DEF ChainSound
  <2>2. Elements(prev) \subseteq used \union Legacy
    BY <1>0, <1>b, NothingCommitted DEF ChainSound
  <2>3. r \notin Elements(anchor.head) /\ r \in used \union Legacy
    <3>1. 1 \in 1..Len(append.item)
      BY <1>a
    <3>2. Elements(append.item) = {r}
      BY <1>c DEF Elements
    <3>3. QED
      BY <1>0, <1>a, <1>c, <3>2 DEF AppendSound
  <2>4. ASSUME NextAnchorCount(prev) # 0
        PROVE  acked \subseteq Elements(prev)
    <3>1. CASE prev = None
      <4>1. chain = <<>> /\ anchor.state = "missing"
        BY <1>b, <2>4, <3>1, Blanks DEF NextAnchorCount
      <4>2. damage # "chain"
        BY <1>0, <4>1 DEF PhasesSound
      <4>3. QED
        BY <1>0, <1>b, <4>1, <4>2, NothingCommitted DEF WholeSound, prev
    <3>2. CASE prev # None
      <4>1. anchor.state = "ok" /\ (anchor.head = prev \/ ExtendsAnchor)
        BY <2>4, <3>2 DEF NextAnchorCount
      <4>2. acked \subseteq Elements(anchor.head)
        BY <1>0, <4>1 DEF AnchorSound, Forked, prev
      <4>3. Elements(anchor.head) \subseteq Elements(prev)
        <5>1. CASE anchor.head = prev
          BY <5>1
        <5>2. CASE ExtendsAnchor
          <6>1. anchor.count \in 1..Len(chain) /\ chain[anchor.count] = anchor.head
            BY <1>0, <1>a, <1>b, <4>1, <5>2, Types DEF ExtendsAnchor, Anchors
          <6>2. QED
            BY <2>1, <6>1
        <5>3. QED
          BY <4>1, <5>1, <5>2
      <4>4. QED
        BY <4>2, <4>3
    <3>3. QED
      BY <3>1, <3>2
  <2>5. ASSUME NextAnchorCount(prev) = 0, anchor.state = "ok"
        PROVE  Forked
    <3>1. anchor.count >= 1 /\ anchor.head # None /\ anchor.count \in Nat
      BY <1>0, <1>a, <2>5, Types DEF Anchors
    <3>2. prev # anchor.head
      BY <2>5, <3>1 DEF NextAnchorCount
    <3>3. CASE prev = None
      <4>1. chain = <<>> /\ ~ExtendsAnchor
        BY <1>b, <3>1, <3>3, Blanks DEF ExtendsAnchor
      <4>2. QED
        BY <1>0, <2>5, <3>2, <4>1 DEF Forked, WholeSound, prev
    <3>4. CASE prev # None
      <4>1. ~ExtendsAnchor
        BY <1>b, <2>5, <3>2, <3>4 DEF NextAnchorCount
      <4>2. QED
        BY <1>0, <2>5, <3>2, <4>1 DEF Forked, WholeSound, prev
    <3>5. QED
      BY <3>3, <3>4
  <2>6. Forked' <=> Forked
    BY <1>h DEF Forked, ExtendsAnchor
  <2>7. QED
    BY <1>e, <1>f, <1>g, <1>h, <2>1, <2>2, <2>3, <2>4, <2>5, <2>6 DEF AppendSound, Mine, Pending
<1>7. ReaderSound'
  BY <1>0 DEF ReaderSound, ReadHead
<1>8. PassMeansWhole'
  BY <1>0 DEF PassMeansWhole, ReadHead
<1>9. QED
  BY <1>1, <1>2, <1>3, <1>4, <1>5, <1>6, <1>7, <1>8 DEF IInv

LEMMA HeadUnreadableKeeps ==
  ASSUME IInv, HeadUnreadable
  PROVE  IInv'
<1>0. /\ TypeOK /\ PhasesSound /\ WholeSound /\ ChainSound /\ AnchorSound
      /\ AppendSound /\ ReaderSound /\ PassMeansWhole
  BY DEF IInv
<1>1. TypeOK'
  BY <1>0, Blanks DEF TypeOK, Appends, Reads, Anchors, HeadUnreadable
<1>2. PhasesSound'
  BY <1>0 DEF PhasesSound, Idle, HeadUnreadable
<1>3. WholeSound'
  BY <1>0 DEF WholeSound, ExtendsAnchor, Idle, HeadUnreadable
<1>4. ChainSound'
  BY <1>0 DEF ChainSound, Idle, HeadUnreadable
<1>5. AnchorSound'
  BY <1>0 DEF AnchorSound, Forked, ExtendsAnchor, Idle, HeadUnreadable
<1>6. AppendSound'
  BY <1>0 DEF AppendSound, Pending, Mine, Forked, ExtendsAnchor, Idle, HeadUnreadable
<1>7. ReaderSound'
  BY <1>0 DEF ReaderSound, Idle, HeadUnreadable
<1>8. PassMeansWhole'
  BY <1>0 DEF PassMeansWhole, Idle, HeadUnreadable
<1>9. QED
  BY <1>1, <1>2, <1>3, <1>4, <1>5, <1>6, <1>7, <1>8 DEF IInv

LEMMA WriteReceiptKeeps ==
  ASSUME IInv, WriteReceipt
  PROVE  IInv'
<1>0. /\ TypeOK /\ PhasesSound /\ WholeSound /\ ChainSound /\ AnchorSound
      /\ AppendSound /\ ReaderSound /\ PassMeansWhole
  BY DEF IInv
<1>a. /\ append.at = "hashed" /\ chain' = Append(chain, append.item)
      /\ append' = [append EXCEPT !.at = "written"]
      /\ UNCHANGED <<tail, anchor, marked, proc, crashes, damage, used, acked, reader>>
  BY DEF WriteReceipt
<1>b. /\ append'.at = "written" /\ append'.item = append.item /\ append'.prev = append.prev
      /\ append'.count = append.count
  BY <1>0, <1>a, Types DEF Appends
<1>1. TypeOK'
  BY <1>0 DEF TypeOK, Reader, Damage, WriteReceipt
<1>2. PhasesSound'
  BY <1>0 DEF PhasesSound, WriteReceipt
<1>3. WholeSound'
  <2>1. damage # "chain" => append.count \in {0, Len(chain) + 1}
    BY <1>0, <1>a DEF WholeSound
  <2>2. QED
    BY <1>a, <1>b, <2>1, RecordWritten DEF WholeSound
<1>4. ChainSound'
  BY <1>a, RecordWritten
<1>5. AnchorSound'
  BY <1>0, <1>a, RecordWritten DEF AnchorSound
<1>6. AppendSound'
  <2>1. anchor.state = "ok" /\ Forked => Forked'
    BY <1>a, RecordWritten
  <2>2. QED
    BY <1>0, <1>a, <1>b, <2>1 DEF AppendSound, Mine, Pending
<1>7. ReaderSound'
  BY <1>0 DEF ReaderSound, WriteReceipt
<1>8. PassMeansWhole'
  BY <1>0 DEF PassMeansWhole, WriteReceipt
<1>9. QED
  BY <1>1, <1>2, <1>3, <1>4, <1>5, <1>6, <1>7, <1>8 DEF IInv

LEMMA WriteFailsKeeps ==
  ASSUME IInv, WriteFails
  PROVE  IInv'
<1>0. /\ TypeOK /\ PhasesSound /\ WholeSound /\ ChainSound /\ AnchorSound
      /\ AppendSound /\ ReaderSound /\ PassMeansWhole
  BY DEF IInv
<1>a. /\ append' = Idle /\ UNCHANGED <<anchor, damage, used, acked>>
      /\ chain' = chain \/ (append.at = "hashed" /\ chain' = Append(chain, append.item))
      /\ tail' \in {tail, "torn", "bare"}
  BY DEF WriteFails, Cut
<1>b. chain' \in Seq(Hashes) /\ WholeSound' /\ ChainSound' /\ AnchorSound' /\ AppendSound'
  BY <1>a, WriteCut
<1>1. TypeOK'
  BY <1>0, <1>a, <1>b, Blanks DEF TypeOK, Appends, Reads, Anchors, WriteFails
<1>2. PhasesSound'
  BY <1>0 DEF PhasesSound, Idle, Cut, WriteFails
<1>3. WholeSound'
  BY <1>b
<1>4. ChainSound'
  BY <1>b
<1>5. AnchorSound'
  BY <1>b
<1>6. AppendSound'
  BY <1>b
<1>7. ReaderSound'
  BY <1>0 DEF ReaderSound, Idle, Cut, WriteFails
<1>8. PassMeansWhole'
  BY <1>0 DEF PassMeansWhole, Idle, Cut, WriteFails
<1>9. QED
  BY <1>1, <1>2, <1>3, <1>4, <1>5, <1>6, <1>7, <1>8 DEF IInv

LEMMA WriteAnchorKeeps ==
  ASSUME IInv, WriteAnchor
  PROVE  IInv'
<1>0. /\ TypeOK /\ PhasesSound /\ WholeSound /\ ChainSound /\ AnchorSound
      /\ AppendSound /\ ReaderSound /\ PassMeansWhole
  BY DEF IInv
<1>a. append.at = "written" /\ acked' = acked \union {Mine} /\ append' = Idle /\ anchor' = Anchored
  BY DEF WriteAnchor, Mine
<1>b. UNCHANGED <<chain, tail, marked, proc, crashes, damage, used, reader>>
  BY DEF WriteAnchor
<1>c. append \in Appends /\ append.item \in Hashes /\ append.item # None /\ append.count \in Nat
  BY <1>0, <1>a, Types DEF Appends, AppendSound
<1>d. Mine \in Elements(append.item) /\ Mine \in Receipts \union Legacy
  BY <1>c, SomeOf DEF Mine
<1>e. \/ /\ append.count # 0 /\ acked' \subseteq Elements(append.item)
         /\ anchor' = [state |-> "ok", head |-> append.item, count |-> append.count]
      \/ append.count = 0 /\ anchor' = anchor
  BY <1>0, <1>a, <1>d DEF Anchored, AppendSound, Pending
<1>1. TypeOK'
  <2>1. anchor' \in Anchors /\ (anchor'.state = "ok" => anchor'.count >= 1 /\ anchor'.head # None)
    BY <1>0, <1>c, <1>e, Types DEF Anchors
  <2>2. acked' \subseteq Receipts \union Legacy
    BY <1>0, <1>a, <1>d, Types
  <2>3. QED
    BY <1>0, <1>a, <1>b, <2>1, <2>2, Blanks DEF TypeOK, Appends, Reads, Anchors
<1>2. PhasesSound'
  BY <1>0 DEF PhasesSound, Idle, Anchored, WriteAnchor
<1>3. WholeSound'
  <2> SUFFICES ASSUME damage # "chain"
               PROVE  /\ acked' \subseteq Elements(LastOf(chain))
                      /\ anchor'.state = "ok" => ExtendsAnchor'
    BY <1>0, <1>a, <1>b DEF WholeSound, Idle
  <2>1. /\ append.item = LastOf(chain) /\ append.count \in {0, Len(chain)}
        /\ acked \subseteq Elements(LastOf(chain)) /\ (anchor.state = "ok" => ExtendsAnchor)
    BY <1>0, <1>a DEF WholeSound
  <2>2. chain \in Seq(Hashes) /\ Len(chain) \in Nat /\ LastOf(chain) = chain[Len(chain)]
    BY <1>0, <1>c, <2>1, Types, LastIsHash
  <2>3. QED
    BY <1>a, <1>b, <1>d, <1>e, <2>1, <2>2 DEF ExtendsAnchor
<1>4. ChainSound'
  BY <1>0 DEF ChainSound, Idle, Anchored, WriteAnchor
<1>5. AnchorSound'
  <2>1. CASE append.count # 0
    BY <1>0, <1>a, <1>b, <1>e, <2>1 DEF AnchorSound, AppendSound
  <2>2. CASE append.count = 0
    <3>1. Forked' <=> Forked
      BY <1>b, <1>e, <2>2 DEF Forked, ExtendsAnchor
    <3>2. QED
      BY <1>0, <1>a, <1>b, <1>e, <2>2, <3>1 DEF AnchorSound, AppendSound, Pending
  <2>3. QED
    BY <2>1, <2>2
<1>6. AppendSound'
  <2>1. append'.at = "idle"
    BY <1>a DEF Idle
  <2>2. QED
    BY <2>1 DEF AppendSound, Pending
<1>7. ReaderSound'
  <2>1. acked \subseteq acked'
    BY <1>a
  <2>2. QED
    BY <1>0, <1>b, <1>e, <2>1 DEF ReaderSound
<1>8. PassMeansWhole'
  BY <1>0 DEF PassMeansWhole, Idle, Anchored, WriteAnchor
<1>9. QED
  BY <1>1, <1>2, <1>3, <1>4, <1>5, <1>6, <1>7, <1>8 DEF IInv

LEMMA AnchorFailsKeeps ==
  ASSUME IInv, AnchorFails
  PROVE  IInv'
<1>0. /\ TypeOK /\ PhasesSound /\ WholeSound /\ ChainSound /\ AnchorSound
      /\ AppendSound /\ ReaderSound /\ PassMeansWhole
  BY DEF IInv
<1>1. TypeOK'
  BY <1>0, Blanks DEF TypeOK, Appends, Reads, Anchors, AnchorFails
<1>2. PhasesSound'
  BY <1>0 DEF PhasesSound, Idle, AnchorFails
<1>3. WholeSound'
  BY <1>0 DEF WholeSound, ExtendsAnchor, Idle, AnchorFails
<1>4. ChainSound'
  BY <1>0 DEF ChainSound, Idle, AnchorFails
<1>5. AnchorSound'
  BY <1>0 DEF AnchorSound, Forked, ExtendsAnchor, Idle, AnchorFails
<1>6. AppendSound'
  BY <1>0 DEF AppendSound, Pending, Mine, Forked, ExtendsAnchor, Idle, AnchorFails
<1>7. ReaderSound'
  BY <1>0 DEF ReaderSound, Idle, AnchorFails
<1>8. PassMeansWhole'
  BY <1>0 DEF PassMeansWhole, Idle, AnchorFails
<1>9. QED
  BY <1>1, <1>2, <1>3, <1>4, <1>5, <1>6, <1>7, <1>8 DEF IInv

LEMMA CrashKeeps ==
  ASSUME IInv, Crash
  PROVE  IInv'
<1>0. /\ TypeOK /\ PhasesSound /\ WholeSound /\ ChainSound /\ AnchorSound
      /\ AppendSound /\ ReaderSound /\ PassMeansWhole
  BY DEF IInv
<1>a. /\ append' = Idle /\ UNCHANGED <<anchor, damage, used, acked>>
      /\ chain' = chain \/ (append.at = "hashed" /\ chain' = Append(chain, append.item))
      /\ tail' \in {tail, "torn", "bare"}
  BY DEF Crash, Cut
<1>b. chain' \in Seq(Hashes) /\ WholeSound' /\ ChainSound' /\ AnchorSound' /\ AppendSound'
  BY <1>a, WriteCut
<1>1. TypeOK'
  <2>1. crashes' \in 0..CrashesMax
    BY <1>0, WitnessAssumption DEF TypeOK, Crash
  <2>2. QED
    BY <1>0, <1>a, <1>b, <2>1, Blanks DEF TypeOK, Appends, Reads, Anchors, Crash
<1>2. PhasesSound'
  BY <1>0 DEF PhasesSound, Idle, NoRead, Cut, Crash
<1>3. WholeSound'
  BY <1>b
<1>4. ChainSound'
  BY <1>b
<1>5. AnchorSound'
  BY <1>b
<1>6. AppendSound'
  BY <1>b
<1>7. ReaderSound'
  <2>1. NoRead.owed = {} /\ NoRead.records = <<>> /\ NoRead.at = "idle" /\ NoRead.verdict = "none"
    BY DEF NoRead
  <2>2. QED
    BY <2>1, Blanks DEF ReaderSound, Crash
<1>8. PassMeansWhole'
  BY <1>0 DEF PassMeansWhole, Idle, NoRead, Cut, Crash
<1>9. QED
  BY <1>1, <1>2, <1>3, <1>4, <1>5, <1>6, <1>7, <1>8 DEF IInv

LEMMA ReadChainKeeps ==
  ASSUME IInv, ReadChain
  PROVE  IInv'
<1>0. /\ TypeOK /\ PhasesSound /\ WholeSound /\ ChainSound /\ AnchorSound
      /\ AppendSound /\ ReaderSound /\ PassMeansWhole
  BY DEF IInv
<1>1. TypeOK'
  BY <1>0 DEF TypeOK, Reader, Damage, ReadChain
<1>2. PhasesSound'
  BY <1>0 DEF PhasesSound, ReadChain
<1>3. WholeSound'
  BY <1>0 DEF WholeSound, ExtendsAnchor, ReadChain
<1>4. ChainSound'
  BY <1>0 DEF ChainSound, ReadChain
<1>5. AnchorSound'
  BY <1>0 DEF AnchorSound, Forked, ExtendsAnchor, ReadChain
<1>6. AppendSound'
  BY <1>0 DEF AppendSound, Pending, Mine, Forked, ExtendsAnchor, ReadChain
<1>7. ReaderSound'
  <2>1. /\ reader'.owed = acked /\ reader'.records = chain /\ reader'.at = "chain" /\ reader'.verdict = "none"
        /\ UNCHANGED <<chain, anchor, acked>>
    BY DEF ReadChain
  <2>2. anchor.state = "ok" /\ LastOf(chain) = anchor.head => acked \subseteq Elements(anchor.head)
    BY <1>0 DEF AnchorSound, Forked
  <2>3. QED
    BY <1>0, <2>1, <2>2 DEF ReaderSound, ChainSound
<1>8. PassMeansWhole'
  BY <1>0 DEF PassMeansWhole, ReadChain
<1>9. QED
  BY <1>1, <1>2, <1>3, <1>4, <1>5, <1>6, <1>7, <1>8 DEF IInv

LEMMA CompareToAnchorKeeps ==
  ASSUME IInv, CompareToAnchor
  PROVE  IInv'
<1>0. /\ TypeOK /\ PhasesSound /\ WholeSound /\ ChainSound /\ AnchorSound
      /\ AppendSound /\ ReaderSound /\ PassMeansWhole
  BY DEF IInv
<1>1. TypeOK'
  <2>1. Verdict(reader.records, reader.torn, anchor)
          \in {"ok", "broken", "truncated", "diverged", "empty", "missing", "unreadable"}
    BY <1>0, Types DEF Verdict, Anchors
  <2>2. reader' \in Reads
    BY <1>0, <2>1, Types DEF CompareToAnchor, Reads, Reader
  <2>3. QED
    BY <1>0, <2>2 DEF TypeOK, Appends, Reads, Anchors, CompareToAnchor
<1>2. PhasesSound'
  BY <1>0 DEF PhasesSound, CompareToAnchor
<1>3. WholeSound'
  BY <1>0 DEF WholeSound, ExtendsAnchor, CompareToAnchor
<1>4. ChainSound'
  BY <1>0 DEF ChainSound, CompareToAnchor
<1>5. AnchorSound'
  BY <1>0 DEF AnchorSound, Forked, ExtendsAnchor, CompareToAnchor
<1>6. AppendSound'
  BY <1>0 DEF AppendSound, Pending, Mine, Forked, ExtendsAnchor, CompareToAnchor
<1>7. ReaderSound'
  BY <1>0 DEF ReaderSound, CompareToAnchor
<1>8. PassMeansWhole'
  <2> SUFFICES ASSUME Verdict(reader.records, reader.torn, anchor) = "ok", NEW r \in reader.owed
               PROVE  \E i \in 1..Len(reader.records) :
                        /\ reader.records[i] # Unreadable
                        /\ reader.records[i][Len(reader.records[i])] = r
    BY <1>0, Types DEF PassMeansWhole, CompareToAnchor, Reads
  <2> DEFINE records == reader.records
  <2>1. Walks(records) /\ anchor.state = "ok" /\ LastOf(records) = anchor.head
    BY <1>0, Types DEF Verdict, Anchors
  <2>2. r \in Elements(LastOf(records))
    BY <1>0, <2>1 DEF ReaderSound, CompareToAnchor
  <2>3. records \in Seq(Hashes)
    BY <1>0, Types DEF Reads
  <2>4. records # <<>> /\ Len(records) \in 1..Len(records) /\ LastOf(records) = records[Len(records)]
    BY <2>2, <2>3, LastIsHash, NothingCommitted
  <2>5. PICK i \in 1..Len(records) : records[i] # Unreadable /\ records[i][Len(records[i])] = r
    BY <1>0, <2>1, <2>2, <2>4 DEF ReaderSound, Covered
  <2>6. QED
    BY <2>5
<1>9. QED
  BY <1>1, <1>2, <1>3, <1>4, <1>5, <1>6, <1>7, <1>8 DEF IInv

LEMMA EndVerifyKeeps ==
  ASSUME IInv, EndVerify
  PROVE  IInv'
<1>0. /\ TypeOK /\ PhasesSound /\ WholeSound /\ ChainSound /\ AnchorSound
      /\ AppendSound /\ ReaderSound /\ PassMeansWhole
  BY DEF IInv
<1>1. TypeOK'
  BY <1>0 DEF TypeOK, Reader, Damage, NoRead, EndVerify
<1>2. PhasesSound'
  BY <1>0 DEF PhasesSound, NoRead, EndVerify
<1>3. WholeSound'
  BY <1>0 DEF WholeSound, ExtendsAnchor, NoRead, EndVerify
<1>4. ChainSound'
  BY <1>0 DEF ChainSound, NoRead, EndVerify
<1>5. AnchorSound'
  BY <1>0 DEF AnchorSound, Forked, ExtendsAnchor, NoRead, EndVerify
<1>6. AppendSound'
  BY <1>0 DEF AppendSound, Pending, Mine, Forked, ExtendsAnchor, NoRead, EndVerify
<1>7. ReaderSound'
  <2>1. NoRead.owed = {} /\ NoRead.records = <<>> /\ NoRead.at = "idle" /\ NoRead.verdict = "none"
    BY DEF NoRead
  <2>2. QED
    BY <2>1, Blanks DEF ReaderSound, EndVerify
<1>8. PassMeansWhole'
  BY <1>0 DEF PassMeansWhole, NoRead, EndVerify
<1>9. QED
  BY <1>1, <1>2, <1>3, <1>4, <1>5, <1>6, <1>7, <1>8 DEF IInv

LEMMA LoseRecordsKeeps ==
  ASSUME IInv, NEW i \in 1..Len(chain), NEW j \in 1..Len(chain), i <= j, LoseRecords(i, j)
  PROVE  IInv'
<1>0. /\ TypeOK /\ PhasesSound /\ WholeSound /\ ChainSound /\ AnchorSound
      /\ AppendSound /\ ReaderSound /\ PassMeansWhole
  BY DEF IInv
<1> DEFINE gone == j - i + 1
           Was(k) == IF k < i THEN k ELSE k + gone
<1>a. /\ chain \in Seq(Hashes) /\ Len(chain) \in Nat /\ damage = "none" /\ damage' = "chain"
      /\ i \in Nat /\ j \in Nat /\ 1 <= i /\ i <= j /\ j <= Len(chain)
      /\ anchor.state = "missing" => gone < Len(chain)
      /\ tail' \in {tail, "clean"} /\ UNCHANGED <<anchor, marked, proc, append, crashes, used, acked, reader>>
  BY <1>0, Types, LenProperties DEF LoseRecords
<1>b. /\ chain' \in Seq(Hashes) /\ Len(chain') = Len(chain) - gone
      /\ \A k \in 1..Len(chain') : Was(k) \in 1..Len(chain) /\ chain'[k] = chain[Was(k)]
  <2> DEFINE kept == SubSeq(chain, 1, i - 1)
             rest == SubSeq(chain, j + 1, Len(chain))
  <2>1. \A k \in 1..Len(chain) : chain[k] \in Hashes
    BY <1>a, ElementOfSeq
  <2>2. /\ kept \in Seq(Hashes) /\ Len(kept) = i - 1
        /\ \A k \in 1..i - 1 : kept[k] = chain[k]
    <3>1. \A k \in 1..i - 1 : chain[k] \in Hashes
      BY <1>a, <2>1
    <3>2. /\ kept \in Seq(Hashes)
          /\ Len(kept) = IF 1 <= i - 1 THEN i - 1 - 1 + 1 ELSE 0
          /\ \A k \in 1..i - 1 - 1 + 1 : kept[k] = chain[1 + k - 1]
      BY <1>a, <3>1, SubSeqProperties
    <3>3. QED
      BY <1>a, <3>2
  <2>3. /\ rest \in Seq(Hashes) /\ Len(rest) = Len(chain) - j
        /\ \A k \in 1..Len(chain) - j : rest[k] = chain[j + k]
    <3>1. \A k \in j + 1..Len(chain) : chain[k] \in Hashes
      BY <1>a, <2>1
    <3>2. /\ rest \in Seq(Hashes)
          /\ Len(rest) = IF j + 1 <= Len(chain) THEN Len(chain) - (j + 1) + 1 ELSE 0
          /\ \A k \in 1..Len(chain) - (j + 1) + 1 : rest[k] = chain[j + 1 + k - 1]
      BY <1>a, <3>1, SubSeqProperties
    <3>3. QED
      BY <1>a, <3>2
  <2> HIDE DEF kept, rest
  <2>4. /\ kept \o rest \in Seq(Hashes) /\ Len(kept \o rest) = Len(kept) + Len(rest)
        /\ \A k \in 1..Len(kept) + Len(rest) :
             (kept \o rest)[k] = IF k <= Len(kept) THEN kept[k] ELSE rest[k - Len(kept)]
    BY <2>2, <2>3, ConcatProperties
  <2>5. chain' = kept \o rest
    BY DEF LoseRecords, kept, rest
  <2>6. Len(chain') = Len(chain) - gone
    BY <1>a, <2>2, <2>3, <2>4, <2>5
  <2>7. ASSUME NEW k \in 1..Len(chain')
        PROVE  Was(k) \in 1..Len(chain) /\ chain'[k] = chain[Was(k)]
    <3>1. CASE k < i
      BY <1>a, <2>2, <2>3, <2>4, <2>5, <2>6, <3>1
    <3>2. CASE k >= i
      <4>1. k - Len(kept) \in 1..Len(chain) - j /\ j + (k - Len(kept)) = k + gone
        BY <1>a, <2>2, <2>6, <3>2
      <4>2. chain'[k] = rest[k - Len(kept)]
        BY <1>a, <2>2, <2>3, <2>4, <2>5, <2>6, <3>2
      <4>3. QED
        BY <1>a, <2>3, <2>6, <3>2, <4>1, <4>2
    <3>3. QED
      BY <1>a, <2>6, <3>1, <3>2
  <2>8. QED
    BY <2>4, <2>5, <2>6, <2>7
<1>c. /\ Walks(chain) /\ Covered(chain) /\ ~Forked
      /\ \A k \in 1..Len(chain) : Len(chain[k]) = k
  BY <1>0, <1>a DEF WholeSound, ChainSound, Forked
<1>1. TypeOK'
  BY <1>0, <1>a, <1>b DEF TypeOK, Appends, Reads, Anchors, Damage
<1>2. PhasesSound'
  <2>1. anchor.state = "missing" => chain' # <<>> /\ marked
    BY <1>0, <1>a, <1>b, EmptySeq DEF PhasesSound
  <2>2. ~marked => Len(chain') <= 1
    BY <1>0, <1>a, <1>b DEF PhasesSound
  <2>3. QED
    BY <1>0, <1>a, <2>1, <2>2 DEF PhasesSound
<1>3. WholeSound'
  BY <1>a DEF WholeSound
<1>4. ChainSound'
  <2>1. ASSUME NEW p \in 1..Len(chain'), NEW q \in 1..Len(chain'), p <= q, chain'[q] # Unreadable
        PROVE  Elements(chain'[p]) \subseteq Elements(chain'[q])
    <3>1. Was(p) \in 1..Len(chain) /\ Was(q) \in 1..Len(chain) /\ Was(p) <= Was(q)
      BY <1>a, <1>b, <2>1
    <3>2. chain'[p] = chain[Was(p)] /\ chain'[q] = chain[Was(q)]
      BY <1>b
    <3> HIDE DEF Was
    <3>3. QED
      BY <1>0, <2>1, <3>1, <3>2 DEF ChainSound
  <2>2. ASSUME Walks(chain')
        PROVE  Covered(chain')
    <3>1. CASE j = Len(chain)
      <4>1. \A k \in 1..Len(chain') : k \in 1..Len(chain) /\ chain'[k] = chain[k]
        BY <1>a, <1>b, <3>1
      <4>2. ASSUME NEW k \in 1..Len(chain'), NEW r \in Elements(chain'[k])
            PROVE  \E n \in 1..k : chain'[n] # Unreadable /\ chain'[n][Len(chain'[n])] = r
        <5>1. PICK n \in 1..k : chain[n] # Unreadable /\ chain[n][Len(chain[n])] = r
          BY <1>c, <4>1, <4>2 DEF Covered
        <5>2. n \in 1..Len(chain')
          BY <1>a, <1>b, <4>2, <5>1
        <5>3. QED
          BY <4>1, <5>1, <5>2
      <4>3. QED
        BY <4>2 DEF Covered
    <3>2. CASE j # Len(chain)
      <4>1. /\ i \in 1..Len(chain') /\ chain'[i] = chain[j + 1] /\ j + 1 \in 1..Len(chain)
            /\ i # 1 => i - 1 \in 1..Len(chain) /\ chain'[i - 1] = chain[i - 1]
        <5>1. i \in 1..Len(chain') /\ j + 1 \in 1..Len(chain) /\ Was(i) = j + 1
          BY <1>a, <1>b, <3>2
        <5>2. ASSUME i # 1
              PROVE  i - 1 \in 1..Len(chain) /\ i - 1 \in 1..Len(chain') /\ Was(i - 1) = i - 1
          BY <1>a, <1>b, <3>2, <5>2
        <5> HIDE DEF Was
        <5>3. QED
          BY <1>b, <5>1, <5>2
      <4>2. Prev(chain[j + 1]) = IF i = 1 THEN None ELSE chain[i - 1]
        BY <2>2, <4>1 DEF Walks
      <4>3. Prev(chain[j + 1]) = chain[j]
        BY <1>a, <1>c, <4>1 DEF Walks
      <4>4. Len(None) = 0
        BY EmptySeq DEF None
      <4>5. QED
        BY <1>a, <1>c, <4>1, <4>2, <4>3, <4>4
    <3>3. QED
      BY <3>1, <3>2
  <2>3. \A k \in 1..Len(chain') : Elements(chain'[k]) \subseteq used' \union Legacy
    BY <1>0, <1>a, <1>b DEF ChainSound
  <2>4. QED
    BY <2>1, <2>2, <2>3 DEF ChainSound
<1>5. AnchorSound'
  BY <1>0, <1>a, <1>c DEF AnchorSound
<1>6. AppendSound'
  <2>1. append.at = "hashed" => \A k \in 1..Len(chain') : Elements(chain'[k]) \subseteq Elements(append.item)
    BY <1>0, <1>b DEF AppendSound
  <2>2. QED
    BY <1>0, <1>a, <1>c, <2>1 DEF AppendSound, Mine, Pending
<1>7. ReaderSound'
  BY <1>0, <1>a DEF ReaderSound
<1>8. PassMeansWhole'
  BY <1>0, <1>a DEF PassMeansWhole
<1>9. QED
  BY <1>1, <1>2, <1>3, <1>4, <1>5, <1>6, <1>7, <1>8 DEF IInv

LEMMA SpoilRecordKeeps ==
  ASSUME IInv, NEW i \in 1..Len(chain), SpoilRecord(i)
  PROVE  IInv'
<1>0. /\ TypeOK /\ PhasesSound /\ WholeSound /\ ChainSound /\ AnchorSound
      /\ AppendSound /\ ReaderSound /\ PassMeansWhole
  BY DEF IInv
<1>a. /\ chain \in Seq(Hashes) /\ Len(chain) \in Nat /\ damage = "none" /\ damage' = "chain"
      /\ chain' = [chain EXCEPT ![i] = Unreadable]
      /\ UNCHANGED <<tail, anchor, marked, proc, append, crashes, used, acked, reader>>
  BY <1>0, Types, LenProperties DEF SpoilRecord
<1>b. /\ chain' \in Seq(Hashes) /\ Len(chain') = Len(chain) /\ chain'[i] = Unreadable
      /\ \A k \in 1..Len(chain) : k # i => chain'[k] = chain[k]
  BY <1>a, Blanks, ExceptSeq
<1>c. Elements(Unreadable) = {}
  BY NothingCommitted, Blanks
<1>d. \A k \in 1..Len(chain) : chain'[k] = chain[k] \/ Elements(chain'[k]) = {}
  BY <1>b, <1>c
<1>e. ~Forked
  BY <1>a DEF Forked
<1>1. TypeOK'
  BY <1>0, <1>a, <1>b DEF TypeOK, Appends, Reads, Anchors, Damage
<1>2. PhasesSound'
  <2>1. chain' # <<>>
    BY <1>a, <1>b, EmptySeq
  <2>2. ~marked => Len(chain') = 1 /\ i = 1
    BY <1>0, <1>a, <1>b DEF PhasesSound
  <2>3. ~marked => LastOf(chain') = Unreadable
    BY <1>b, <2>1, <2>2 DEF LastOf
  <2>4. QED
    BY <1>0, <1>a, <2>1, <2>2, <2>3 DEF PhasesSound
<1>3. WholeSound'
  BY <1>0 DEF WholeSound, ExtendsAnchor, SpoilRecord
<1>4. ChainSound'
  <2>1. ASSUME NEW p \in 1..Len(chain'), NEW q \in 1..Len(chain'), p <= q, chain'[q] # Unreadable
        PROVE  Elements(chain'[p]) \subseteq Elements(chain'[q])
    BY <1>0, <1>b, <1>d, <2>1 DEF ChainSound
  <2>2. ~Walks(chain')
    BY <1>a, <1>b DEF Walks
  <2>3. \A k \in 1..Len(chain') : Elements(chain'[k]) \subseteq used' \union Legacy
    BY <1>0, <1>a, <1>b, <1>d DEF ChainSound
  <2>4. QED
    BY <2>1, <2>2, <2>3 DEF ChainSound
<1>5. AnchorSound'
  BY <1>0, <1>a, <1>e DEF AnchorSound
<1>6. AppendSound'
  <2>1. append.at = "hashed" => \A k \in 1..Len(chain') : Elements(chain'[k]) \subseteq Elements(append.item)
    BY <1>0, <1>b, <1>d DEF AppendSound
  <2>2. QED
    BY <1>0, <1>a, <1>e, <2>1 DEF AppendSound, Mine, Pending
<1>7. ReaderSound'
  BY <1>0 DEF ReaderSound, SpoilRecord
<1>8. PassMeansWhole'
  BY <1>0 DEF PassMeansWhole, SpoilRecord
<1>9. QED
  BY <1>1, <1>2, <1>3, <1>4, <1>5, <1>6, <1>7, <1>8 DEF IInv

LEMMA LoseAnchorKeeps ==
  ASSUME IInv, NEW state \in {"missing", "unreadable"}, LoseAnchor(state)
  PROVE  IInv'
<1>0. /\ TypeOK /\ PhasesSound /\ WholeSound /\ ChainSound /\ AnchorSound
      /\ AppendSound /\ ReaderSound /\ PassMeansWhole
  BY DEF IInv
<1>a. anchor'.state # "ok" /\ anchor'.head = None /\ Elements(anchor'.head) = {}
  BY NothingCommitted DEF LoseAnchor, Missing
<1>1. TypeOK'
  <2>1. anchor' \in Anchors /\ anchor'.state # "ok"
    BY Blanks DEF LoseAnchor, Missing
  <2>2. QED
    BY <1>0, <2>1 DEF TypeOK, Appends, Reads, Anchors, LoseAnchor, Damage
<1>2. PhasesSound'
  BY <1>0 DEF PhasesSound, Missing, LoseAnchor
<1>3. WholeSound'
  BY <1>0 DEF WholeSound, ExtendsAnchor, Missing, LoseAnchor
<1>4. ChainSound'
  BY <1>0 DEF ChainSound, Missing, LoseAnchor
<1>5. AnchorSound'
  BY <1>0, <1>a DEF AnchorSound
<1>6. AppendSound'
  BY <1>0, <1>a DEF AppendSound, LoseAnchor, Mine, Pending
<1>7. ReaderSound'
  BY <1>0 DEF ReaderSound, Missing, LoseAnchor
<1>8. PassMeansWhole'
  BY <1>0 DEF PassMeansWhole, Missing, LoseAnchor
<1>9. QED
  BY <1>1, <1>2, <1>3, <1>4, <1>5, <1>6, <1>7, <1>8 DEF IInv

-----------------------------------------------------------------------------
(* The theorems.                                                           *)

LEMMA InvInit ==
  ASSUME Init
  PROVE  IInv
<1>1. /\ append.at = "idle" /\ reader.at = "idle" /\ reader.verdict = "none" /\ reader.owed = {}
      /\ reader.records = <<>>
  BY DEF Init, Idle, NoRead
<1>2. /\ anchor.state = "missing" /\ anchor.head = None /\ anchor \in Anchors
  BY Blanks DEF Init, Missing, Anchors
<1>3. crashes \in 0..CrashesMax /\ damage \in Damage
  BY WitnessAssumption DEF Init, Damage
<1>4. CASE chain = <<>>
  <2>1. Len(chain) = 0
    BY <1>4, EmptySeq
  <2>2. TypeOK
    BY <1>2, <1>4, <1>3, Blanks, Types DEF Init
  <2>3. PhasesSound /\ WholeSound /\ ChainSound
    BY <1>1, <1>2, <1>4, <2>1, Blanks DEF Init, PhasesSound, WholeSound, ChainSound
  <2>4. AnchorSound /\ AppendSound /\ ReaderSound /\ PassMeansWhole
    BY <1>1, <1>2, NothingCommitted, Blanks
       DEF Init, AnchorSound, AppendSound, Pending, ReaderSound, PassMeansWhole
  <2>5. QED
    BY <2>2, <2>3, <2>4 DEF IInv
<1>5. ASSUME NEW r \in Legacy, chain = << <<r>> >>
      PROVE  IInv
  <2>1. /\ <<r>> \in Hashes /\ Len(<<r>>) = 1 /\ <<r>> # None /\ <<r>> # Unreadable
        /\ Elements(<<r>>) = {r} /\ <<r>>[1] = r
    BY DEF Hashes, None, Unreadable, Elements
  <2>2. /\ chain \in Seq(Hashes) /\ Len(chain) = 1 /\ chain[1] = <<r>>
    BY <1>5, <2>1
  <2>3. Prev(<<r>>) = None
    <3>1. << >> \in Seq(Hashes) /\ Len(<< >>) = 0
      BY EmptySeq
    <3>2. <<r>> = Append(<< >>, r)
      OBVIOUS
    <3>3. QED
      BY <3>2, OneMore, EmptySeq DEF None
  <2>4. TypeOK
    BY <1>2, <1>3, <2>2, Blanks, Types DEF Init
  <2>5. PhasesSound /\ WholeSound
    BY <1>1, <1>2, <2>1, <2>2, <2>3 DEF Init, PhasesSound, WholeSound, Walks
  <2>6. ChainSound
    BY <1>5, <2>1, <2>2 DEF ChainSound, Covered
  <2>7. AnchorSound /\ AppendSound /\ ReaderSound /\ PassMeansWhole
    BY <1>1, <1>2, NothingCommitted, Blanks
       DEF Init, AnchorSound, AppendSound, Pending, ReaderSound, PassMeansWhole
  <2>8. QED
    BY <2>4, <2>5, <2>6, <2>7 DEF IInv
<1>6. QED
  BY <1>4, <1>5 DEF Init

\* Which kind of step Next may be, down to the action.
LEMMA InvStep ==
  ASSUME IInv, [Next]_vars
  PROVE  IInv'
<1>1. CASE Start
  <2>1. CASE marked \/ anchor.state # "missing"
    BY <1>1, <2>1, StartNoopKeeps DEF Start
  <2>2. CASE ~marked /\ anchor.state = "missing"
    BY <1>1, <2>2, MigratesKeeps DEF Start
  <2>3. QED
    <3>1. TypeOK
      BY DEF IInv
    <3>2. QED
      BY <2>1, <2>2, <3>1
<1>2. CASE MarkRoot
  BY <1>2, MarkRootKeeps
<1>3. CASE Appending
  BY <1>3, SetAsideTornTailKeeps, SetAsideFailsKeeps, ReadHeadKeeps, HeadUnreadableKeeps, WriteReceiptKeeps,
     WriteFailsKeeps, WriteAnchorKeeps, AnchorFailsKeeps DEF Appending
<1>4. CASE Verifying
  BY <1>4, ReadChainKeeps, CompareToAnchorKeeps, EndVerifyKeeps DEF Verifying
<1>5. CASE Crash
  BY <1>5, CrashKeeps
<1>6. CASE Outside
  BY <1>6, LoseRecordsKeeps, SpoilRecordKeeps, LoseAnchorKeeps DEF Outside
<1>7. CASE UNCHANGED vars
  <2>1. /\ UNCHANGED <<chain, tail, anchor, marked, proc, append>>
        /\ UNCHANGED <<crashes, damage, used, acked, reader>>
    BY <1>7 DEF vars
  <2>2. TypeOK' /\ PhasesSound' /\ WholeSound' /\ ChainSound'
    <3>1. TypeOK'
      BY <2>1 DEF IInv, TypeOK
    <3>2. PhasesSound' /\ WholeSound' /\ ChainSound'
      BY <2>1 DEF IInv, PhasesSound, WholeSound, ChainSound, ExtendsAnchor
    <3>3. QED
      BY <3>1, <3>2
  <2>3. AnchorSound' /\ AppendSound' /\ ReaderSound' /\ PassMeansWhole'
    BY <2>1 DEF IInv, AnchorSound, AppendSound, Pending, Mine, Forked, ExtendsAnchor, ReaderSound,
                PassMeansWhole
  <2>4. QED
    BY <2>2, <2>3 DEF IInv
<1>8. QED
  BY <1>1, <1>2, <1>3, <1>4, <1>5, <1>6, <1>7 DEF Next

\* The invariant of one scope's chain: whatever starts, appends, crashes and damage came before, the
\* records, the anchor, the append at work and a verify under way stand in the relations IInv lists.
THEOREM Invariance == Spec => []IInv
<1>1. Init => IInv
  BY InvInit
<1>2. IInv /\ [Next]_vars => IInv'
  BY InvStep
<1>3. QED
  BY <1>1, <1>2, PTL DEF Spec

\* The files, the append and the verify keep the forms the code gives them (witness.py, witness_anchor.py).
THEOREM TypesHold == Spec => []TypeOK
<1>1. IInv => TypeOK
  BY DEF IInv
<1>2. QED
  BY <1>1, Invariance, PTL

\* A verify that passes (_verify_sync, compare_to_anchor) read a record for every receipt whose append
\* had returned when it read the chain: neither a cut, a spoilt record or a lost anchor, nor the
\* appends, crashes and starts that follow one, can make a chain that lacks such a receipt pass.
THEOREM PassesAreWhole == Spec => []PassMeansWhole
<1>1. IInv => PassMeansWhole
  BY DEF IInv
<1>2. QED
  BY <1>1, Invariance, PTL

\* What only returning appends and migrations may add to acked.
LEMMA OnlyWriteAnchorAcks ==
  ASSUME IInv, Next, append.at = "written", acked' # acked
  PROVE  WriteAnchor
<1>1. proc = "up"
  BY DEF IInv, PhasesSound
<1>2. ~Start
  BY <1>1 DEF Start
<1>3. acked' = acked \/ Start \/ WriteAnchor
  BY DEF Next, MarkRoot, Appending, SetAsideTornTail, SetAsideFails, ReadHead, HeadUnreadable, WriteReceipt, WriteFails,
         AnchorFails, Verifying, ReadChain, CompareToAnchor, EndVerify, Crash, Outside, LoseRecords,
         SpoilRecord, LoseAnchor
<1>4. QED
  BY <1>2, <1>3

\* Over an undamaged chain that has its anchor, an append that returns (_next_anchor_count and
\* write_anchor) leaves the two in agreement, whatever crashes and failing writes came before it.
THEOREM AcksVerify == Spec => AckedVerifies
<1>1. ASSUME IInv, [Next]_vars, append.at = "written", acked' # acked, damage = "none",
             anchor'.state = "ok"
      PROVE  Verdict(chain', tail' = "torn", anchor') = "ok"
  <2>1. WriteAnchor
    BY <1>1, OnlyWriteAnchorAcks DEF vars
  <2>2. /\ chain' = chain /\ tail' = tail /\ tail = "clean" /\ anchor' = Anchored
        /\ Walks(chain) /\ append.item = LastOf(chain) /\ append.count \in {0, Len(chain)}
    BY <1>1, <2>1 DEF IInv, PhasesSound, WholeSound, WriteAnchor
  <2>3. append.count # 0
    BY <1>1, <2>2 DEF IInv, AppendSound, Pending, Forked, Anchored
  <2>4. anchor'.head = LastOf(chain) /\ anchor'.count = Len(chain)
    BY <2>2, <2>3 DEF Anchored
  <2>5. Len(chain) \in Nat
    BY <1>1, LenProperties DEF IInv, TypeOK
  <2>6. QED
    BY <1>1, <2>2, <2>4, <2>5 DEF Verdict
<1>2. IInv /\ [Next]_vars =>
        [append.at = "written" /\ acked' # acked /\ damage = "none" /\ anchor'.state = "ok" =>
           Verdict(chain', tail' = "torn", anchor') = "ok"]_vars
  BY <1>1
<1>3. QED
  BY <1>2, Invariance, PTL DEF Spec, AckedVerifies

\* Short of damage from outside, no start, append, failing write or crash takes a record out of the file
\* or moves it: _set_aside_torn_tail cuts off a fragment, never a record whose newline alone is missing.
THEOREM ChainsOnlyGrow == Spec => OnlyGrows
<1>1. ASSUME IInv, [Next]_vars, damage' = damage
      PROVE  Len(chain) <= Len(chain') /\ SubSeq(chain', 1, Len(chain)) = chain
  <2>1. chain \in Seq(Hashes) /\ Len(chain) \in Nat /\ append.item \in Hashes
    BY <1>1, LenProperties DEF IInv, TypeOK
  <2>2. chain' = chain \/ chain' = Append(chain, append.item)
    BY <1>1 DEF Next, vars, Start, MarkRoot, Appending, SetAsideTornTail, SetAsideFails, ReadHead, HeadUnreadable,
                WriteReceipt, WriteFails, Cut, WriteAnchor, AnchorFails, Verifying, ReadChain,
                CompareToAnchor, EndVerify, Crash, Outside, LoseRecords, SpoilRecord, LoseAnchor
  <2>3. CASE chain' = chain
    <3>1. SubSeq(chain, 1, Len(chain)) = chain
      BY <2>1, SubSeqFull
    <3>2. QED
      BY <2>1, <2>3, <3>1
  <2>4. CASE chain' = Append(chain, append.item)
    <3>1. Len(chain') = Len(chain) + 1 /\ SubSeq(chain', 1, Len(chain)) = chain
      <4>1. Len(chain') = Len(chain) + 1 /\ Prev(chain') = chain
        BY <2>1, <2>4, LastAppended, OneMore
      <4>2. QED
        BY <2>1, <4>1 DEF Prev
    <3>2. QED
      BY <2>1, <3>1
  <2>5. QED
    BY <2>2, <2>3, <2>4
<1>2. IInv /\ [Next]_vars =>
        [damage' = damage => /\ Len(chain) <= Len(chain')
                             /\ SubSeq(chain', 1, Len(chain)) = chain]_vars
  BY <1>1
<1>3. QED
  BY <1>2, Invariance, PTL DEF Spec, OnlyGrows
=============================================================================
