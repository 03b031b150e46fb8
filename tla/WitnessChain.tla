---------------------------- MODULE WitnessChain ----------------------------
(***************************************************************************)
(* One scope's receipt chain and its anchor: WitnessRecorder               *)
(* (src/controller/app/witness.py) and witness_anchor.py.                  *)
(*                                                                         *)
(* A receipt's chain_hash commits to every receipt before it, so a record  *)
(* of the chain file is the sequence of receipts its hash commits to: its  *)
(* last element is the receipt itself, the rest is its chain_prev_hash.    *)
(* Appends are one at a time (the asyncio lock, the thread lock and the    *)
(* lock on the file), each in four steps a crash or an error can fall      *)
(* between; verify takes no lock and reads the chain, then the anchor.     *)
(* Files are lost from outside: a range of records, a record made          *)
(* unreadable, or the anchor; never the chain and its anchor both, after    *)
(* which the next receipt starts a new chain (docs/deployment.md says so). *)
(***************************************************************************)
EXTENDS Naturals, Sequences

CONSTANTS
  Receipts,     \* receipts that may be appended, each once
  Legacy,       \* receipts of the chains a first start may find, written before anchors existed
  CrashesMax    \* bound: crashes of the process

ASSUME WitnessAssumption == Legacy \cap Receipts = {} /\ CrashesMax \in Nat

None == <<>>                  \* the chain_prev_hash of a first receipt
Unreadable == <<>>            \* a record no reader can parse
Hashes == Seq(Receipts \union Legacy)
Reader == {"idle", "chain", "done"}
Damage == {"none", "chain", "anchor"}

VARIABLES
  chain,        \* the complete records of the chain file
  tail,         \* how it ends: "clean", "torn" (a fragment follows), "bare" (the last newline is missing)
  anchor,       \* the anchor file: [state, head, count]
  marked,       \* the root is marked .anchors-migrated
  proc,         \* "down", "starting", "up"
  append,       \* the append at work: [at, item, prev, count]
  crashes,
  damage,       \* history: which file was damaged from outside
  used,         \* history: receipts whose append began
  acked,        \* history: receipts whose append returned, and those a migration anchored
  reader        \* a verify: [at, records, torn, owed, verdict]; owed is acked when it read the chain

vars == <<chain, tail, anchor, marked, proc, append, crashes, damage, used, acked, reader>>

Missing == [state |-> "missing", head |-> None, count |-> 0]
Idle == [at |-> "idle", item |-> None, prev |-> None, count |-> 0]
NoRead == [at |-> "idle", records |-> <<>>, torn |-> FALSE, owed |-> {}, verdict |-> "none"]

Elements(h) == {h[i] : i \in 1..Len(h)}
Prev(h) == SubSeq(h, 1, Len(h) - 1)
LastOf(records) == IF records = <<>> THEN None ELSE records[Len(records)]

Init ==
  /\ chain \in {<<>>} \union {<< <<r>> >> : r \in Legacy}
  /\ tail \in {"clean", "torn"}
  /\ chain = <<>> => tail = "clean"
  /\ anchor = Missing
  /\ marked = FALSE
  /\ proc = "down"
  /\ append = Idle
  /\ crashes = 0
  /\ damage = "none"
  /\ used = {} /\ acked = {}
  /\ reader = NoRead

-----------------------------------------------------------------------------
(* Startup: the migration of chains that have no anchor, once.             *)

\* _anchor_chain: a torn tail is set aside, then the chain is anchored as it stands; a record that
\* does not parse, or a failing write, is logged and leaves the chain without an anchor.
MigrateChain ==
  \/ /\ chain # <<>> /\ LastOf(chain) # Unreadable
     /\ anchor' = [state |-> "ok", head |-> LastOf(chain), count |-> Len(chain)]
     /\ tail' = "clean"
     /\ acked' = acked \union Elements(LastOf(chain))
  \/ /\ tail' \in {tail, "clean"}
     /\ UNCHANGED <<anchor, acked>>

\* startup, _anchor_legacy_chains.
Start ==
  /\ proc = "down"
  /\ proc' = "starting"
  /\ IF marked \/ anchor.state # "missing" THEN UNCHANGED <<anchor, tail, acked>> ELSE MigrateChain
  /\ UNCHANGED <<chain, marked, append, crashes, damage, used, reader>>

MarkRoot ==
  /\ proc = "starting"
  /\ proc' = "up"
  /\ marked' = TRUE
  /\ UNCHANGED <<chain, tail, anchor, append, crashes, damage, used, acked, reader>>

-----------------------------------------------------------------------------
(* An append.                                                              *)

\* A fault: the tail is cut back to the last newline though what follows it is a receipt.
SetAsideAll(r) ==
  /\ proc = "up"
  /\ append.at = "idle"
  /\ r \notin used
  /\ used' = used \union {r}
  /\ append' = [Idle EXCEPT !.at = "tidied", !.item = <<r>>]
  /\ tail' = "clean"
  /\ chain' = IF tail = "bare" THEN SubSeq(chain, 1, Len(chain) - 1) ELSE chain
  /\ UNCHANGED <<anchor, marked, proc, crashes, damage, acked, reader>>

\* _set_aside_torn_tail: a fragment is moved out of the chain, a missing newline is written.
SetAsideTornTail(r) ==
  /\ proc = "up"
  /\ append.at = "idle"
  /\ r \notin used
  /\ used' = used \union {r}
  /\ append' = [Idle EXCEPT !.at = "tidied", !.item = <<r>>]
  /\ tail' = "clean"
  /\ UNCHANGED <<chain, anchor, marked, proc, crashes, damage, acked, reader>>

\* It raises: the fragment or the newline could not be written, or could and the flush failed.
SetAsideFails(r) ==
  /\ proc = "up"
  /\ append.at = "idle"
  /\ tail # "clean"
  /\ r \notin used
  /\ used' = used \union {r}
  /\ tail' \in {tail, "clean"}
  /\ UNCHANGED <<chain, anchor, marked, proc, append, crashes, damage, acked, reader>>

\* Faults: the anchor follows every append; only an exact match is followed.
CountAlways(prev) == Len(chain) + 1
CountExact(prev) ==
  CASE prev = None -> IF anchor.state = "missing" THEN 1 ELSE 0
    [] prev # None /\ anchor.state = "ok" /\ anchor.head = prev -> anchor.count + 1
    [] OTHER -> 0

\* The chain holds the anchored receipt where the anchor says it is.
ExtendsAnchor == Len(chain) >= anchor.count /\ chain[anchor.count] = anchor.head

\* _next_anchor_count; 0 is the code's None, the anchor is left as it is.
NextAnchorCount(prev) ==
  CASE prev = None -> IF anchor.state = "missing" THEN 1 ELSE 0
    [] prev # None /\ anchor.state # "ok" -> 0
    [] prev # None /\ anchor.state = "ok" /\ anchor.head = prev -> anchor.count + 1
    [] prev # None /\ anchor.state = "ok" /\ anchor.head # prev ->
         IF ExtendsAnchor THEN Len(chain) + 1 ELSE 0

\* The head is read and the receipt chained to it and signed, under the locks.
ReadHead ==
  /\ append.at = "tidied"
  /\ chain # <<>> => LastOf(chain) # Unreadable
  /\ LET prev == LastOf(chain)
     IN append' = [at |-> "hashed", item |-> prev \o append.item, prev |-> prev,
                   count |-> NextAnchorCount(prev)]
  /\ UNCHANGED <<chain, tail, anchor, marked, proc, crashes, damage, used, acked, reader>>

\* A complete last line that does not parse fails closed.
HeadUnreadable ==
  /\ append.at = "tidied"
  /\ chain # <<>> /\ LastOf(chain) = Unreadable
  /\ append' = Idle
  /\ UNCHANGED <<chain, tail, anchor, marked, proc, crashes, damage, used, acked, reader>>

WriteReceipt ==
  /\ append.at = "hashed"
  /\ chain' = Append(chain, append.item)
  /\ append' = [append EXCEPT !.at = "written"]
  /\ UNCHANGED <<tail, anchor, marked, proc, crashes, damage, used, acked, reader>>

\* What a write that did not finish leaves behind: nothing, a fragment, or all but the newline.
Cut ==
  \/ UNCHANGED <<chain, tail>>
  \/ tail' = "torn" /\ chain' = chain
  \/ tail' = "bare" /\ chain' = Append(chain, append.item)

\* The disk is full.
WriteFails ==
  /\ append.at = "hashed"
  /\ Cut
  /\ append' = Idle
  /\ UNCHANGED <<anchor, marked, proc, crashes, damage, used, acked, reader>>

Anchored == IF append.count = 0 THEN anchor
            ELSE [state |-> "ok", head |-> append.item, count |-> append.count]

\* write_anchor, and the append returns.
WriteAnchor ==
  /\ append.at = "written"
  /\ anchor' = Anchored
  /\ acked' = acked \union {append.item[Len(append.item)]}
  /\ append' = Idle
  /\ UNCHANGED <<chain, tail, marked, proc, crashes, damage, used, reader>>

\* The receipt is on disk and its append raises.
AnchorFails ==
  /\ append.at = "written"
  /\ append.count # 0
  /\ append' = Idle
  /\ UNCHANGED <<chain, tail, anchor, marked, proc, crashes, damage, used, acked, reader>>

\* The process dies; a write at work leaves what it had written.
Crash ==
  /\ proc # "down"
  /\ crashes < CrashesMax
  /\ proc' = "down"
  /\ append' = Idle
  /\ crashes' = crashes + 1
  /\ IF append.at = "hashed" THEN Cut ELSE UNCHANGED <<chain, tail>>
  /\ reader' = NoRead
  /\ UNCHANGED <<anchor, marked, damage, used, acked>>

-----------------------------------------------------------------------------
(* Verify.                                                                 *)

\* Every record parses and its chain_prev_hash is the record before it.
Walks(records) ==
  \A i \in 1..Len(records) :
    /\ records[i] # Unreadable
    /\ Prev(records[i]) = (IF i = 1 THEN None ELSE records[i - 1])

\* _verify_sync and compare_to_anchor, in the order of their returns.
Verdict(records, torn, a) ==
  IF torn \/ ~Walks(records) THEN "broken"
  ELSE IF a.state # "ok" THEN IF records = <<>> THEN "empty" ELSE a.state
  ELSE IF Len(records) < a.count THEN "truncated"
  ELSE IF Len(records) # a.count \/ LastOf(records) # a.head THEN "diverged"
  ELSE "ok"

ReadChain ==
  /\ proc = "up"
  /\ reader.at = "idle"
  /\ reader' = [at |-> "chain", records |-> chain, torn |-> tail = "torn", owed |-> acked,
                verdict |-> "none"]
  /\ UNCHANGED <<chain, tail, anchor, marked, proc, append, crashes, damage, used, acked>>

CompareToAnchor ==
  /\ reader.at = "chain"
  /\ reader' = [reader EXCEPT !.at = "done", !.verdict = Verdict(reader.records, reader.torn, anchor)]
  /\ UNCHANGED <<chain, tail, anchor, marked, proc, append, crashes, damage, used, acked>>

EndVerify ==
  /\ reader.at = "done"
  /\ reader' = NoRead
  /\ UNCHANGED <<chain, tail, anchor, marked, proc, append, crashes, damage, used, acked>>

-----------------------------------------------------------------------------
(* Damage from outside.                                                    *)

LoseRecords(i, j) ==
  /\ damage = "none"
  /\ anchor.state = "missing" => j - i + 1 < Len(chain)
  /\ damage' = "chain"
  /\ chain' = SubSeq(chain, 1, i - 1) \o SubSeq(chain, j + 1, Len(chain))
  /\ tail' = IF j = Len(chain) THEN "clean" ELSE tail
  /\ UNCHANGED <<anchor, marked, proc, append, crashes, used, acked, reader>>

SpoilRecord(i) ==
  /\ damage = "none"
  /\ tail # "bare"
  /\ damage' = "chain"
  /\ chain' = [chain EXCEPT ![i] = Unreadable]
  /\ UNCHANGED <<tail, anchor, marked, proc, append, crashes, used, acked, reader>>

LoseAnchor(state) ==
  /\ damage = "none"
  /\ anchor.state = "ok"
  /\ damage' = "anchor"
  /\ anchor' = [Missing EXCEPT !.state = state]
  /\ UNCHANGED <<chain, tail, marked, proc, append, crashes, used, acked, reader>>

Outside ==
  \/ \E i, j \in 1..Len(chain) : i <= j /\ LoseRecords(i, j)
  \/ \E i \in 1..Len(chain) : SpoilRecord(i)
  \/ \E state \in {"missing", "unreadable"} : LoseAnchor(state)

-----------------------------------------------------------------------------
Appending ==
  \/ \E r \in Receipts : SetAsideTornTail(r) \/ SetAsideFails(r)
  \/ ReadHead \/ HeadUnreadable \/ WriteReceipt \/ WriteFails \/ WriteAnchor \/ AnchorFails

Verifying == ReadChain \/ CompareToAnchor \/ EndVerify

Next == Start \/ MarkRoot \/ Appending \/ Verifying \/ Crash \/ Outside

Spec == Init /\ [][Next]_vars

-----------------------------------------------------------------------------
TypeOK ==
  /\ chain \in Seq(Hashes)
  /\ tail \in {"clean", "torn", "bare"}
  /\ anchor \in [state : {"ok", "missing", "unreadable"}, head : Hashes, count : Nat]
  /\ anchor.state = "ok" => anchor.count >= 1 /\ anchor.head # None
  /\ marked \in BOOLEAN
  /\ proc \in {"down", "starting", "up"}
  /\ append \in [at : {"idle", "tidied", "hashed", "written"}, item : Hashes, prev : Hashes, count : Nat]
  /\ crashes \in 0..CrashesMax
  /\ damage \in Damage
  /\ used \subseteq Receipts
  /\ acked \subseteq Receipts \union Legacy
  /\ reader \in [at : Reader, records : Seq(Hashes), torn : BOOLEAN, owed : SUBSET (Receipts \union Legacy),
                  verdict : {"none", "ok", "broken", "truncated", "diverged", "empty", "missing", "unreadable"}]

\* "Missing evidence is never valid" (docs/deployment.md): a verify that passes read every receipt
\* whose append had returned, whatever was cut from the chain or happened to its anchor, and however
\* many appends, crashes and starts followed.
PassMeansWhole ==
  reader.verdict = "ok" =>
    \A r \in reader.owed : \E i \in 1..Len(reader.records) :
       reader.records[i] # Unreadable /\ reader.records[i][Len(reader.records[i])] = r

\* An append over an undamaged chain that has its anchor leaves the two in agreement when it returns:
\* whatever crashes and failing writes came before are caught up with (_next_anchor_count).
AckedVerifies ==
  [][append.at = "written" /\ acked' # acked /\ damage = "none" /\ anchor'.state = "ok" =>
       Verdict(chain', tail' = "torn", anchor') = "ok"]_vars

\* "Evidence is never dropped": short of damage from outside, the file's records stay where they are,
\* those of appends that raised or died included, when a start or an append tidies its end.
OnlyGrows ==
  [][damage' = damage => /\ Len(chain) <= Len(chain')
                         /\ SubSeq(chain', 1, Len(chain)) = chain]_vars

\* compare_to_anchor's reason for "truncated": receipts have been removed from the end.
TruncatedMeansCut == reader.verdict = "truncated" => damage = "chain"

-----------------------------------------------------------------------------
(* The inductive invariant of the theorems (WitnessChain_proofs).          *)

Mine == append.item[Len(append.item)]
Pending == append.at \in {"hashed", "written"}

\* What runs when; and how little can be lost before the root is marked.
PhasesSound ==
  /\ append.at # "idle" \/ reader.at # "idle" => proc = "up"
  /\ append.at # "idle" => tail = "clean"
  /\ proc = "up" => marked
  /\ ~marked => Len(chain) <= 1
  /\ damage = "chain" /\ anchor.state = "missing" =>
       chain # <<>> /\ (~marked => LastOf(chain) = Unreadable)

\* A chain nobody damaged holds all it should, and its anchor points into it.
WholeSound ==
  damage # "chain" =>
    /\ Walks(chain)
    /\ \A i \in 1..Len(chain) : Len(chain[i]) = i
    /\ acked \subseteq Elements(LastOf(chain))
    /\ anchor.state = "ok" => ExtendsAnchor
    /\ append.at = "hashed" => append.prev = LastOf(chain) /\ append.count \in {0, Len(chain) + 1}
    /\ append.at = "written" => append.item = LastOf(chain) /\ append.count \in {0, Len(chain)}

\* Damaged or not, a readable record commits to whatever the records before it commit to, and a chain
\* that walks has a record for each receipt it commits to.
Covered(records) ==
  \A i \in 1..Len(records) : \A r \in Elements(records[i]) :
    \E k \in 1..i : records[k] # Unreadable /\ records[k][Len(records[k])] = r

ChainSound ==
  /\ \A i, j \in 1..Len(chain) :
       i <= j /\ chain[j] # Unreadable => Elements(chain[i]) \subseteq Elements(chain[j])
  /\ Walks(chain) => Covered(chain)
  /\ \A i \in 1..Len(chain) : Elements(chain[i]) \subseteq used \union Legacy

\* No record where the anchor looks for one, nor at the end, is the anchored receipt, and none will be.
Forked == damage = "chain" /\ ~ExtendsAnchor /\ LastOf(chain) # anchor.head

\* An anchor commits to every acknowledged receipt, or the chain has parted from it for good.
AnchorSound ==
  /\ Elements(anchor.head) \subseteq used \union Legacy
  /\ anchor.state = "ok" => acked \subseteq Elements(anchor.head) \/ Forked

\* The receipt at work is new to the anchor and commits to the records before it.
AppendSound ==
  /\ append.at # "idle" => /\ append.item # None /\ Mine \notin Elements(anchor.head)
                           /\ Elements(append.item) \subseteq used \union Legacy
  /\ append.at = "tidied" => Len(append.item) = 1
  /\ Pending => append.item = Append(append.prev, Mine)
  /\ append.at = "hashed" => \A i \in 1..Len(chain) : Elements(chain[i]) \subseteq Elements(append.item)
  /\ Pending /\ append.count # 0 => acked \subseteq Elements(append.item)
  /\ Pending /\ append.count = 0 /\ anchor.state = "ok" => Forked

\* A verify that would pass has read a chain, and an anchor, that owe it nothing.
ReaderSound ==
  /\ reader.owed \subseteq acked
  /\ reader.at # "done" => reader.verdict = "none"
  /\ Walks(reader.records) => Covered(reader.records)
  /\ reader.at = "chain" /\ anchor.state = "ok" /\ LastOf(reader.records) = anchor.head =>
       reader.owed \subseteq Elements(anchor.head)

IInv ==
  /\ TypeOK /\ PhasesSound /\ WholeSound /\ ChainSound /\ AnchorSound /\ AppendSound /\ ReaderSound
  /\ PassMeansWhole
=============================================================================
