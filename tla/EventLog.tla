------------------------------ MODULE EventLog ------------------------------
(* The consolidated event log: an append-only file of records that several  *)
(* processes write (EventLogWriter) and tail (EventLogReader).  A write that *)
(* is cut short leaves the head of a record with no newline, and whatever is *)
(* written next is glued to it, so the file is a sequence of fragments and a *)
(* line runs up to the first fragment that is complete.                      *)
EXTENDS Naturals, Sequences, FiniteSets, FiniteSetsExt

CONSTANTS Invocations    \* runs of the perturbation harness
ASSUME LogAssumption == "supervisor" \notin Invocations

VARIABLES file,    \* the fragments, oldest first
          writer,  \* writer -> open, next_seq_
          hurt     \* faults that have happened (history)

logvars == <<file, writer, hurt>>

Writers == {"supervisor"} \cup Invocations
KeyOf(w) == IF w = "supervisor" THEN "supervisor" ELSE "perturb"
LogKeys == {"supervisor", "perturb"}

(* Where a record was cut, by what the parser makes of the glued line: before  *)
(* the level, or between level and component, nothing of it is used; inside the *)
(* level the line is refused; inside the component name it belongs to no one;   *)
(* after the name only the key survives ("key"); a key "seq": without a digit   *)
(* is refused ("number"); after a digit the event is the next record's ("seq"); *)
(* inside the event name key and number survive; before the extra fields those  *)
(* of the glued record are found; later the line reads as the cut record.       *)
Swallows == {"name", "key", "seq", "event", "fields", "tail"}
Cuts == Swallows \cup {"head", "level", "number"}
Fragment == [key : LogKeys, seq : Nat \ {0}, what : {"loss", "other", "applied"},
             cut : Cuts \cup {"none"}]

LogTypeOK ==
  /\ file \in Seq(Fragment)
  /\ writer \in [Writers -> [open : BOOLEAN, next : Nat]]
  /\ hurt \subseteq Cuts \cup {"write", "fsync", "read", "flush", "overlap"}

Closed == [open |-> FALSE, next |-> 0]
LogInit == file = <<>> /\ writer = [w \in Writers |-> Closed] /\ hurt = {}

(* ---- Lines and records ---- *)
HasLine(p) == \E i \in p + 1 .. Len(file) : file[i].cut = "none"
LineEnd(p) == Min({i \in p + 1 .. Len(file) : file[i].cut = "none"})
LineStarts == {p \in {0} \cup {i \in DOMAIN file : file[i].cut = "none"} : HasLine(p)}

(* parse_event_record searches the line for each field on its own, and the first *)
(* fragment that was not cut before the field has it: component, number, event.  *)
Found(p, before) == file[Min({i \in p + 1 .. LineEnd(p) : file[i].cut \notin before})]
Decisive(p) == Found(p, {"head"})
Counting(p) == Found(p, {"head", "level", "name", "key"})
Naming(p) == Found(p, {"head", "level", "name", "key", "number", "seq"})
BadLine(p) == Decisive(p).cut = "level" \/ Counting(p).cut = "number"
parse_event_record(p) ==
  [key |-> IF Decisive(p).cut = "name" THEN "alien" ELSE Decisive(p).key,
   seq |-> Counting(p).seq,
   what |-> IF Naming(p).cut = "event" THEN "garbled" ELSE Naming(p).what]
(* The fields of `what` are found somewhere in the raw line.                    *)
HasFields(p, what) ==
  \E i \in p + 1 .. LineEnd(p) : file[i].cut \in {"none", "tail"} /\ file[i].what = what

(* ---- Writer ---- *)
Highest(key) ==
  Max({0} \cup {parse_event_record(p).seq :
                   p \in {q \in LineStarts : parse_event_record(q).key = key}})

(* Variant: the recovery scan hands out the highest number again.               *)
OpenReuses(w) ==
  /\ ~writer[w].open
  /\ \A p \in LineStarts : ~BadLine(p)
  /\ writer' = [writer EXCEPT ![w] = [open |-> TRUE, next |-> Max({1, Highest(KeyOf(w))})]]
(* The recovery scan: an unfinished last line is tolerated, a bad line is not.   *)
Open(w) ==
  /\ ~writer[w].open
  /\ \A p \in LineStarts : ~BadLine(p)
  /\ writer' = [writer EXCEPT ![w] = [open |-> TRUE, next |-> Highest(KeyOf(w)) + 1]]
OpenFails(w) ==
  /\ ~writer[w].open
  /\ \E p \in LineStarts : BadLine(p)
  /\ UNCHANGED writer

NewRecord(w, what, cut, seq) == [key |-> KeyOf(w), seq |-> seq, what |-> what, cut |-> cut]
(* What is left of a number that may have lost its last digits.                  *)
Shortened(n) == {m \in 1 .. n : \E k \in 0 .. n : m = n \div (10 ^ k)}
(* A loss is an error and fsynced, a perturbation is information and is not;     *)
(* the supervisor has events of both levels.                                    *)
Synced(what) == what # "applied"

Written(w, what) ==
  file' = Append(file, NewRecord(w, what, "none", writer[w].next)) /\ UNCHANGED hurt

(* Nothing written, a part written, or all written and not synced.              *)
AppendFails(w, what) ==
  \/ file' = file /\ hurt' = hurt \cup {"write"}
  \/ \E cut \in Cuts :
       /\ \E n \in {writer[w].next} \cup (IF cut = "seq" THEN Shortened(writer[w].next) ELSE {}) :
            file' = Append(file, NewRecord(w, what, cut, n))
       /\ hurt' = hurt \cup {cut}
  \/ /\ Synced(what)
     /\ file' = Append(file, NewRecord(w, what, "none", writer[w].next))
     /\ hurt' = hurt \cup {"fsync"}

(* Only a complete and synced append consumes the sequence number.              *)
append(w, what, ok) ==
  \/ /\ ok /\ Written(w, what)
     /\ writer' = [writer EXCEPT ![w].next = @ + 1]
  \/ ~ok /\ AppendFails(w, what) /\ UNCHANGED writer

Close(w) == writer' = [writer EXCEPT ![w] = Closed]

(* ---- Reader: descriptor, position, and the continuity state of each key ---- *)
Reader == [open : BOOLEAN, pos : Nat, expected : [LogKeys -> Nat], gaps : [LogKeys -> Nat]]
NewReader == [open |-> FALSE, pos |-> 0, expected |-> [k \in LogKeys |-> 1],
              gaps |-> [k \in LogKeys |-> 0]]

(* Continuity accounting: a jump ahead or a step back is a gap.                  *)
StateAfter(r, rec) ==
  IF rec.key \notin LogKeys THEN [r EXCEPT !.pos = LineEnd(r.pos)]
  ELSE [r EXCEPT !.pos = LineEnd(r.pos),
                 !.gaps[rec.key] = IF rec.seq = r.expected[rec.key] THEN @ ELSE @ + 1,
                 !.expected[rec.key] = IF rec.seq < @ THEN @ ELSE rec.seq + 1]

(* read_next on a position: no full line yet, a line that does not parse, a record. *)
AtEnd(r) == ~HasLine(r.pos)
ReadsBad(r) == HasLine(r.pos) /\ BadLine(r.pos)
ReadsRecord(r) == HasLine(r.pos) /\ ~BadLine(r.pos)
(* End of file, or an unfinished line: the reader stays where it is and looks      *)
(* again in the next cycle.                                                        *)
AfterEnd(r) == r
(* Variant: a reader starts where the log ends.                                    *)
OpenedAtEnd(r) == [r EXCEPT !.open = TRUE, !.pos = Len(file)]
Opened(r) == [r EXCEPT !.open = TRUE, !.pos = 0]
ClosedReader(r) == [r EXCEPT !.open = FALSE, !.pos = 0]

(* ---- What every log keeps: the log's part of the inductive invariant ---- *)
(* The complete records of a key among the first n fragments.                      *)
Numbered(k, n) == {i \in 1 .. n : file[i].cut = "none" /\ file[i].key = k}

(* A cut was a fault, and the supervisor writes all but the perturbations.         *)
FragmentsKnown ==
  \A i \in DOMAIN file :
    /\ file[i].cut = "none" \/ file[i].cut \in hurt
    /\ file[i].what = "applied" <=> file[i].key = "perturb"

(* Numbers never run ahead of the file, so a recovery scan finds a highest one.     *)
NumbersBounded ==
  /\ \A i \in DOMAIN file : file[i].seq <= i
  /\ \A w \in Writers : writer[w].open => writer[w].next \in 1 .. Len(file) + 1

(* While nothing breaks the numbering of a key, its complete records have their      *)
(* rank as number, and its only open writer continues there.                         *)
Unbroken(k) == hurt \cap ({"fsync"} \cup Swallows \cup (IF k = "perturb" THEN {"overlap"} ELSE {})) = {}
Ranked(k) ==
  /\ \A i \in DOMAIN file : i \in Numbered(k, i) => file[i].seq = Cardinality(Numbered(k, i))
  /\ \A w \in Writers : KeyOf(w) = k /\ writer[w].open =>
       /\ writer[w].next = Cardinality(Numbered(k, Len(file))) + 1
       /\ \A v \in Writers : KeyOf(v) = k /\ writer[v].open => v = w
LogInd == FragmentsKnown /\ NumbersBounded /\ (\A k \in LogKeys : Unbroken(k) => Ranked(k))
=============================================================================
