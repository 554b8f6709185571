---------------------------- MODULE AtomicVolume ----------------------------
(***************************************************************************)
(* What an EMBKFS volume promises: whatever the power does, the tree of     *)
(* files is the one left by some whole number of operations, and an         *)
(* operation that was reported done stays done.  The list of snapshots is   *)
(* weaker: a change of it is safe once something has flushed the device.    *)
(***************************************************************************)
EXTENDS Naturals, Sequences, SequencesExt

CONSTANTS
  Files,      \* objects
  Values,     \* what a file may hold
  Names,      \* of snapshots
  Absent,     \* no such file, no such snapshot
  Empty,      \* a file without data
  Lost        \* what can no longer be read

VARIABLES
  tree,       \* the files: links (0 for one that is unlinked but open) and data
  doubt,      \* the tree of an operation a power loss may finish or undo
  regs,       \* the snapshot lists since the last flush, the current one last
  open        \* the files held open

vars == <<tree, doubt, regs, open>>

Present == {f \in Files : tree[f] # Absent}

NoSnapshots == [n \in Names |-> Absent]

\* One operation: a file is made, written, unlinked, destroyed at its last
\* close, or the whole tree is replaced by one a snapshot holds.
Effects ==
  {[tree EXCEPT ![f] = [links |-> 1, data |-> Empty]] : f \in Files \ Present}
    \cup {[tree EXCEPT ![f].data = v] : f \in Present, v \in Values \cup {Empty}}
    \cup {[tree EXCEPT ![f] = Absent] : f \in Present \ open}
    \cup {[tree EXCEPT ![f].links = 0] : f \in Present \cap open}
    \cup ({Last(regs)[n] : n \in Names} \ {Absent, Lost})

Init ==
  /\ tree = [f \in Files |-> Absent]
  /\ doubt = {}
  /\ regs = <<NoSnapshots>>
  /\ open = {}

Issue ==
  /\ doubt = {}
  /\ \E t \in Effects : doubt' = {t}
  /\ UNCHANGED <<tree, regs, open>>

Settle ==
  /\ tree' \in doubt
  /\ doubt' = {}
  /\ UNCHANGED <<regs, open>>

\* What becomes of a file that had been given up: its data may be overwritten, and
\* is itself again if the same is written in its place.
Spoilt(file) ==
  IF file = Absent THEN {file}
  ELSE {file, [file EXCEPT !.data = Lost]}
         \cup (IF file.data = Lost THEN {[file EXCEPT !.data = v] : v \in Values} ELSE {})

\* What a power loss leaves of snapshot n of list i, whole or in part if the
\* snapshot was deleted after that list was written.
Remains(i, n) ==
  LET t == regs[i][n]
  IN  IF t \in {Absent, Lost} \/ \A j \in i..Len(regs) : regs[j][n] = t THEN {t}
      ELSE {Lost} \cup {g \in [Files -> UNION {Spoilt(t[f]) : f \in Files}] :
                          \A f \in Files : g[f] \in Spoilt(t[f])}

\* Any list since the last flush is found, or none where one was being written.
PowerLoss ==
  /\ tree' \in {tree} \cup doubt
  /\ doubt' = {}
  /\ \/ \E i \in DOMAIN regs :
          \E found \in [Names -> UNION {Remains(i, n) : n \in Names}] :
            /\ \A n \in Names : found[n] \in Remains(i, n)
            /\ regs' = <<found>>
     \/ Len(regs) > 1 /\ regs' = <<NoSnapshots>>
  /\ open' = {}

Flush ==
  /\ regs' = <<Last(regs)>>
  /\ UNCHANGED <<tree, doubt, open>>

Snapshot ==
  /\ \E n \in Names, t \in {tree, Absent} :
       regs' = Append(regs, [Last(regs) EXCEPT ![n] = t])
  /\ UNCHANGED <<tree, doubt, open>>

OpenOrClose ==
  /\ \E f \in Files : open' \in {open \cup {f}, open \ {f}}
  /\ UNCHANGED <<tree, doubt, regs>>

Next == Issue \/ Settle \/ PowerLoss \/ Flush \/ Snapshot \/ OpenOrClose

Spec == Init /\ [][Next]_vars
=============================================================================
