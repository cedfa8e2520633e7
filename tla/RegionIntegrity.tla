--------------------------- MODULE RegionIntegrity --------------------------
(***************************************************************************)
(* The region's integrity word: after every committed push a writer adds    *)
(* one to global_seq and then refreshes integrity_word to the checksum of   *)
(* the headers and global_seq (push and refresh_region_integrity).  The      *)
(* supervisor refreshes too, at the end of transfer_ownership.  A writer may *)
(* die between any two accesses.                                             *)
(*                                                                         *)
(* The headers never change after initialize, so the checksum is a function  *)
(* of the sequence alone; H stands for it.                                   *)
(***************************************************************************)
EXTENDS Naturals, FiniteSets

CONSTANTS
  Writers,     \* processes that push into any ring of the region
  Refresher,   \* the supervisor: refreshes without adding
  MaxSeq,      \* bound: pushes in one behaviour
  Orders       \* which load orders are considered: TRUE, the two relaxed loads
               \* of an iteration happen in program order; FALSE, in either
               \* order, as relaxed atomics allow

ASSUME IntegrityAssumption ==
  /\ Refresher \notin Writers
  /\ MaxSeq \in Nat
  /\ Orders \subseteq BOOLEAN

VARIABLES
  in_order,    \* the load order of this behaviour
  global_seq,
  integrity_word,
  at,          \* where each process is
  expected,    \* its copy of integrity_word
  seq          \* its copy of global_seq

ivars == <<in_order, global_seq, integrity_word, at, expected, seq>>
Processes == Writers \cup {Refresher}

(* region_integrity_at: distinct sequences have distinct checksums.         *)
H(s) == <<"crc32c", s>>

IInit ==
  /\ in_order \in Orders
  /\ global_seq = 0
  /\ integrity_word = H(0)
  /\ at = [p \in Processes |-> "idle"]
  /\ expected = [p \in Processes |-> H(0)]
  /\ seq = [p \in Processes |-> 0]

Step(p, from, to) == at[p] = from /\ at' = [at EXCEPT ![p] = to]

(* The refresh returns, or the process dies: its locals are gone.           *)
Leave(p, to) ==
  /\ at' = [at EXCEPT ![p] = to]
  /\ expected' = [expected EXCEPT ![p] = H(0)]
  /\ seq' = [seq EXCEPT ![p] = 0]

(* push: the ring accepted the record; global_seq.fetch_add(1, relaxed).    *)
Add(p) ==
  /\ p \in Writers /\ global_seq < MaxSeq
  /\ Step(p, "idle", "loop")
  /\ global_seq' = global_seq + 1
  /\ UNCHANGED <<in_order, integrity_word, expected, seq>>

(* transfer_ownership ends with a refresh of its own.                       *)
Transfer ==
  /\ Step(Refresher, "idle", "loop")
  /\ UNCHANGED <<in_order, global_seq, integrity_word, expected, seq>>

(* The two loads of one iteration.                                          *)
LoadWord(p) ==
  /\ Step(p, "loop", "haveWord") \/ Step(p, "haveSeq", "compare")
  /\ expected' = [expected EXCEPT ![p] = integrity_word]
  /\ UNCHANGED <<in_order, global_seq, integrity_word, seq>>

(* Variant: the sequence the next push will reach.                          *)
LoadSeqAhead(p) ==
  /\ Step(p, "haveWord", "compare") \/ (~in_order /\ Step(p, "loop", "haveSeq"))
  /\ seq' = [seq EXCEPT ![p] = global_seq + 1]
  /\ UNCHANGED <<in_order, global_seq, integrity_word, expected>>

LoadSeq(p) ==
  /\ Step(p, "haveWord", "compare") \/ (~in_order /\ Step(p, "loop", "haveSeq"))
  /\ seq' = [seq EXCEPT ![p] = global_seq]
  /\ UNCHANGED <<in_order, global_seq, integrity_word, expected>>

(* expected == want: already consistent.                                    *)
Covered(p) ==
  /\ expected[p] = H(seq[p])
  /\ at[p] = "compare" /\ Leave(p, "idle")
  /\ UNCHANGED <<in_order, global_seq, integrity_word>>

(* Variant: a plain store.                                                  *)
StoreBlind(p) ==
  /\ expected[p] # H(seq[p])
  /\ at[p] = "compare" /\ Leave(p, "idle")
  /\ integrity_word' = H(seq[p])
  /\ UNCHANGED <<in_order, global_seq>>

(* compare_exchange_weak(integrity_word, expected, want).                   *)
Store(p) ==
  /\ expected[p] # H(seq[p])
  /\ integrity_word = expected[p]
  /\ at[p] = "compare" /\ Leave(p, "idle")
  /\ integrity_word' = H(seq[p])
  /\ UNCHANGED <<in_order, global_seq>>

(* Variant: a refresh that lost the race does not try again.                *)
StoreGivesUp(p) ==
  /\ expected[p] # H(seq[p])
  /\ at[p] = "compare" /\ Leave(p, "idle")
  /\ UNCHANGED <<in_order, global_seq, integrity_word>>

StoreFails(p) ==
  /\ expected[p] # H(seq[p])
  /\ Step(p, "compare", "loop")
  /\ UNCHANGED <<in_order, global_seq, integrity_word, expected, seq>>

Die(p) ==
  /\ p \in Writers /\ at[p] # "dead"
  /\ Leave(p, "dead")
  /\ UNCHANGED <<in_order, global_seq, integrity_word>>

INext ==
  \/ Transfer
  \/ \E p \in Processes :
       Add(p) \/ LoadWord(p) \/ LoadSeq(p) \/ Covered(p) \/ Store(p) \/ StoreFails(p) \/ Die(p)

ISpec == IInit /\ [][INext]_ivars

(* A live process keeps running; a weak compare-exchange does not fail         *)
(* spuriously for ever.  Nothing forces a push, a transfer or a death.          *)
IFairness ==
  \A p \in Processes : /\ WF_ivars(LoadWord(p)) /\ WF_ivars(LoadSeq(p))
                       /\ WF_ivars(Covered(p)) /\ SF_ivars(Store(p)) /\ WF_ivars(StoreFails(p))

IFairSpec == ISpec /\ IFairness

-----------------------------------------------------------------------------
ITypeOK ==
  /\ in_order \in Orders
  /\ global_seq \in 0 .. MaxSeq
  /\ integrity_word \in {H(s) : s \in 0 .. MaxSeq}
  /\ at \in [Processes -> {"idle", "loop", "haveWord", "haveSeq", "compare", "dead"}]
  /\ expected \in [Processes -> {H(s) : s \in 0 .. MaxSeq}]
  /\ seq \in [Processes -> 0 .. MaxSeq]

(* "The seq argument of the stored word advances monotonically": a store never *)
(* replaces the word of a later sequence by that of an earlier one, if the two  *)
(* loads of an iteration keep their order.                                     *)
WordAdvances ==
  [][\A s, r \in 0 .. MaxSeq :
       (in_order /\ integrity_word = H(s) /\ integrity_word' = H(r)) => s <= r]_ivars

(* "The last store always leaves a consistent word": when nobody is between    *)
(* its fetch_add and the end of its refresh, and nobody died there, the word    *)
(* matches compute_region_integrity, if the loads keep their order.            *)
Quiescent == \A p \in Processes : at[p] = "idle"
ConsistentAtQuiescence == (in_order /\ Quiescent) => integrity_word = H(global_seq)

(* The inconsistency a live observer may see is one-way: the word always is the *)
(* checksum of a sequence that was really reached, never of one still to come.  *)
WordNeverAhead == \E s \in 0 .. global_seq : integrity_word = H(s)

(* In either order of the loads, with writers dying anywhere, the stored word   *)
(* is well formed and never that of a sequence still to come; in program order, *)
(* overlapping refreshes leave it consistent.                                   *)
WordConsistent == ITypeOK /\ WordNeverAhead /\ ConsistentAtQuiescence

(* A refresh repairs what a dead writer left behind: one that starts after the  *)
(* last fetch_add brings the word up to date, unless its process dies too.      *)
Repaired ==
  \A p \in Processes :
    (at[p] = "loop" /\ global_seq = MaxSeq)
      ~> (at[p] = "dead" \/ integrity_word = H(MaxSeq))
-----------------------------------------------------------------------------
(* The inductive invariant, for loads in program order.                        *)

(* A copy of the word is no younger than the word, and older than the copy of   *)
(* the sequence that was loaded after it.                                      *)
CopiesOrdered ==
  in_order => \A p \in Processes :
    /\ at[p] # "haveSeq"
    /\ at[p] \in {"haveWord", "compare"} =>
         \A e, s \in 0 .. MaxSeq :
           expected[p] = H(e) /\ integrity_word = H(s) => e <= s
    /\ at[p] = "compare" =>
         \A e \in 0 .. MaxSeq : expected[p] = H(e) => e <= seq[p]

(* Nobody has seen a sequence that was not reached.                            *)
NoneAhead ==
  /\ \A p \in Processes : seq[p] <= global_seq
  /\ \A s \in 0 .. MaxSeq : integrity_word = H(s) => s <= global_seq

(* An outdated word has somebody who will notice: a process that has yet to load *)
(* the sequence, or has loaded the last one, or died with the duty.             *)
SomebodyResponsible ==
  in_order =>
    \/ integrity_word = H(global_seq)
    \/ \E p \in Processes : \/ at[p] \in {"loop", "haveWord", "dead"}
                            \/ at[p] = "compare" /\ seq[p] = global_seq

IntegrityInv == ITypeOK /\ NoneAhead /\ CopiesOrdered /\ SomebodyResponsible

=============================================================================
