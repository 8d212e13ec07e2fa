---------------------------- MODULE SessionFile ----------------------------
(***************************************************************************)
(* SessionManager (core/session-manager.ts): a session is a tree of        *)
(* entries in memory, with a leaf, and a JSONL file that is first written  *)
(* when the first answer arrives.  A write may fail half way; the process  *)
(* may die between any two steps, after which some file is opened again.   *)
(***************************************************************************)
EXTENDS Naturals, Sequences, FiniteSets

CONSTANTS
  Kinds,      \* kinds of entries appended: see AllKinds
  MaxIds,     \* bound: ids ever given, and entries of a session
  MaxOthers,  \* bound: entries of a session that are not answers or summaries
  MaxFiles,   \* bound: session files
  MaxFaults,  \* bound: failing writes
  MaxMoves    \* bound: moves of the leaf

AllKinds == {"user", "asst", "compaction", "label", "unlabel", "omit", "replace"}

ASSUME FileAssumption ==
  /\ Kinds \subseteq AllKinds
  /\ {MaxIds, MaxOthers, MaxFaults, MaxMoves} \subseteq Nat /\ MaxFiles \in Nat \ {0, 1}

VARIABLES
  cur,      \* sessionFile
  entries,  \* fileEntries, without the header
  leaf,     \* leafId; 0 is null, or the id of an entry that has none
  flushed,  \* flushed
  labels,   \* the keys of labelsById
  disk,     \* the files
  used,     \* files named so far
  ids,      \* entries created so far
  hurt,     \* files a write to which has failed
  raw,      \* files forked from one in the old format, or from such a fork (history)
  faults,   \* failed writes so far (bound)
  moves     \* moves of the leaf so far (bound)

memVars == <<cur, entries, leaf, flushed, labels>>
vars == <<memVars, disk, used, ids, hurt, raw, faults, moves>>

Files == 1 .. MaxFiles
Ids   == 1 .. MaxIds

\* ref: firstKeptEntryId of a compaction, targetId of a label or an edit.
\* id, parent and ref are 0 where the entry has none: null or not there.
Entry(i, parent, kind, ref) == [id |-> i, parent |-> parent, kind |-> kind, ref |-> ref]
Header == Entry(0, 0, "session", 0)

\* lines: the lines JSON.parse takes.  junk: there are others.  tail: the last
\* line ends in a newline ("clean"), is a fragment ("part"), or is whole but for
\* the newline ("whole").  old: format version 1, whose entries have no ids.
Missing ==
  [made |-> FALSE, lines |-> <<>>, junk |-> FALSE, tail |-> "clean", old |-> FALSE]
File(lines) ==
  [made |-> TRUE, lines |-> lines, junk |-> FALSE, tail |-> "clean", old |-> FALSE]

IdsOf(es)     == {es[i].id : i \in DOMAIN es}
ById(es, x)   == es[CHOOSE i \in DOMAIN es : es[i].id = x]
LastId(es)    == IF es = <<>> THEN 0 ELSE es[Len(es)].id
AnsweredIn(es) == \E i \in DOMAIN es : es[i].kind = "asst"

\* The members of a set of numbers, and of a sequence those at a set of places.
InOrder(S) == CHOOSE s \in [1 .. Cardinality(S) -> S] : \A i, j \in DOMAIN s : i < j => s[i] < s[j]
Picked(es, at) == LET o == InOrder(at) IN [k \in 1 .. Cardinality(at) |-> es[o[k]]]

-----------------------------------------------------------------------------
(* Reading: what a file holds, and what the model sees of a tree.           *)

\* loadEntriesFromFile: malformed lines are skipped, a header must come first.
Valid(d)   == d.lines # <<>> /\ Head(d.lines).kind = "session"
Loaded(d)  == IF Valid(d) THEN Tail(d.lines) ELSE <<>>
IsEmpty(d) == d.lines = <<>> /\ ~d.junk

\* getBranch, buildSessionPath: from an entry up to a root, or to an entry
\* whose parent is not there; parents come before children.
OnPath(es, x) ==
  LET named == IdsOf(es) \ {0}
      up[i \in 0 .. MaxIds] ==
        IF i \notin named THEN {} ELSE {i} \cup up[ById(es, i).parent]
      above == named \cap up[x]
  IN {i \in DOMAIN es : es[i].id \in above}
Path(es, x) == Picked(es, OnPath(es, x))

\* buildContextEntries: the newest compaction, what it keeps, what follows it.
ContextEntries(path) ==
  LET comps == {i \in DOMAIN path : path[i].kind = "compaction"}
      c     == CHOOSE i \in comps : \A j \in comps : j <= i
      Keeps(e) == \E i, j \in 1 .. c - 1 : i <= j /\ path[i].id = path[c].ref /\ path[j] = e
  IN IF comps = {} THEN path
     ELSE <<path[c]>> \o SelectSeq(SubSeq(path, 1, c - 1), Keeps)
                      \o SubSeq(path, c + 1, Len(path))

\* buildSessionProjection: the messages, each with the last edit made to it.
Projection(path) ==
  LET ctx    == ContextEntries(path)
      Edits(e) == {i \in DOMAIN ctx : ctx[i].kind \in {"omit", "replace"} /\ ctx[i].ref = e.id}
      Edit(e)  == IF Edits(e) = {} THEN Header
                  ELSE ctx[CHOOSE i \in Edits(e) : \A j \in Edits(e) : j <= i]
      Speaks(e) == \/ e.kind \in {"user", "asst", "summary"}
                   \/ e.kind = "compaction" /\ e = ctx[1]
      Seen   == SelectSeq(ctx, LAMBDA e : Speaks(e) /\ Edit(e).kind # "omit")
  IN [i \in DOMAIN Seen |-> <<Seen[i].id, Edit(Seen[i]).id>>]

\* _buildIndex: the labels in force.
LabelsIn(es) ==
  {x \in IdsOf(es) :
     \E i \in DOMAIN es : /\ es[i].kind = "label" /\ es[i].ref = x
                          /\ \A j \in DOMAIN es : j > i /\ es[j].ref = x => es[j].kind # "unlabel"}

-----------------------------------------------------------------------------
(* Writing.  A write succeeds, is refused (the file cannot be opened), or    *)
(* stops before the line, in it, or before its newline.                     *)

Outcomes == {"ok", "refused", "none", "part", "whole"}

\* A line written after an unterminated one runs into it: both are lost.
Put(d, line, w) ==
  LET Lands(tail) == [d EXCEPT !.made = TRUE, !.lines = Append(@, line), !.tail = tail]
      Spoils(tail) ==
        [d EXCEPT !.made = TRUE, !.junk = TRUE, !.tail = tail,
                  !.lines = IF d.tail = "whole" THEN SubSeq(@, 1, Len(@) - 1) ELSE @]
  IN CASE w = "refused" -> d
       [] w = "none"    -> [d EXCEPT !.made = TRUE]
       [] w = "ok"      -> IF d.tail = "clean" THEN Lands("clean") ELSE Spoils("clean")
       [] w = "part"    -> Spoils("part")
       [] w = "whole"   -> IF d.tail = "clean" THEN Lands("whole") ELSE Spoils("part")

\* Line after line into a new file, stopping at line k + 1.
Begun(lines, k, w) == Put(File(SubSeq(lines, 1, k)), lines[k + 1], w)

Faulty(f) == faults < MaxFaults /\ faults' = faults + 1 /\ hurt' = hurt \cup {f}
NoFault   == UNCHANGED <<faults, hurt>>

\* Mutant: only the entry at hand.
PersistFirstLast(es) == <<Header, es[Len(es)]>>

\* _persist, the entry already among es.
PersistFirst(es) == <<Header>> \o es

Persist(e, es) ==
  IF flushed
    THEN \E w \in Outcomes :
           /\ disk' = [disk EXCEPT ![cur] = Put(@, e, w)]
           /\ IF w = "ok" THEN NoFault ELSE Faulty(cur)
           /\ UNCHANGED flushed
  ELSE IF ~AnsweredIn(es) \/ disk[cur].made        \* not yet; or EEXIST, thrown
    THEN UNCHANGED <<disk, flushed>> /\ NoFault
  ELSE \/ /\ disk' = [disk EXCEPT ![cur] = File(PersistFirst(es))]
          /\ flushed' = TRUE /\ NoFault
       \/ \E k \in 0 .. Len(es), w \in Outcomes \ {"ok"} :
            /\ disk' = [disk EXCEPT ![cur] = IF w = "refused" THEN @ ELSE Begun(PersistFirst(es), k, w)]
            /\ Faulty(cur) /\ UNCHANGED flushed

\* The write did not happen or failed: whoever appends sees an exception.
Thrown(es) == faults' # faults \/ (~flushed /\ disk[cur].made /\ AnsweredIn(es))

\* _appendEntry: memory first, then the file, whose failure is thrown.
AppendEntry(parent, kind, ref) ==
  LET e  == Entry(ids + 1, parent, kind, ref)
      es == Append(entries, e)
  IN /\ ids < MaxIds /\ Len(entries) < MaxIds /\ ids' = ids + 1
     /\ entries' = es /\ leaf' = e.id
     /\ Persist(e, es)
     /\ labels' = IF kind \notin {"label", "unlabel"} \/ Thrown(es) THEN labels
                  ELSE IF kind = "label" THEN labels \cup {ref} ELSE labels \ {ref}
     /\ UNCHANGED <<cur, used, raw>>

\* Mutant: the target is truncated and written in place.
RewrittenInPlace(d, es, w) == IF w = "ok" THEN File(<<Header>> \o es) ELSE File(<<>>)

\* _rewriteFile: a temporary file, renamed over the target.
Rewritten(d, es, w) == IF w = "ok" THEN File(<<Header>> \o es) ELSE d

-----------------------------------------------------------------------------
(* The operations.                                                          *)

\* What an entry may refer to.
Refs(kind) ==
  CASE kind \in {"user", "asst"}        -> {0}
    [] kind = "compaction"              ->
         IF leaf = 0 THEN {} ELSE {entries[i].id : i \in OnPath(entries, leaf)} \cup {ids + 1}
    [] kind \in {"label", "unlabel"}    -> IdsOf(entries)
    [] kind \in {"omit", "replace"}     ->
         {entries[i].id : i \in {j \in OnPath(entries, leaf) : entries[j].kind \in {"user", "asst"}}}

Others(es) == {i \in DOMAIN es : es[i].kind \notin {"asst", "summary"}}

Say(kind) ==
  /\ kind # "asst" => Cardinality(Others(entries)) < MaxOthers
  /\ \E ref \in Refs(kind) : AppendEntry(leaf, kind, ref)
  /\ UNCHANGED moves

\* branch, resetLeaf: the leaf moves, in memory only.
BranchTo(x) ==
  /\ x # leaf /\ moves < MaxMoves /\ moves' = moves + 1
  /\ leaf' = x
  /\ UNCHANGED <<cur, entries, flushed, labels, disk, used, ids, hurt, raw, faults>>

\* branchWithSummary: the leaf moves and the abandoned path is summarised there.
BranchWithSummary(x) ==
  /\ x # leaf /\ moves < MaxMoves /\ moves' = moves + 1
  /\ AppendEntry(x, "summary", 0)

\* Mutant: the leaf stays where it was.
NewSessionKeepingLeaf ==
  /\ used < MaxFiles /\ used' = used + 1
  /\ cur' = used' /\ entries' = <<>> /\ flushed' = FALSE /\ labels' = {}
  /\ UNCHANGED <<leaf, disk, ids, hurt, raw, faults, moves>>

\* newSession: nothing is written.
NewSession ==
  /\ used < MaxFiles /\ used' = used + 1
  /\ cur' = used' /\ entries' = <<>> /\ leaf' = 0 /\ flushed' = FALSE /\ labels' = {}
  /\ UNCHANGED <<disk, ids, hurt, raw, faults, moves>>

Load(f, es) ==
  /\ cur' = f /\ entries' = es /\ leaf' = LastId(es)
  /\ labels' = LabelsIn(es) /\ flushed' = TRUE

\* migrateV1ToV2: ids, and a chain of parents.
Migrated(es) ==
  [i \in DOMAIN es |-> [es[i] EXCEPT !.id = ids + i, !.parent = IF i = 1 THEN 0 ELSE ids + i - 1]]

\* open: a new process or /resume.  A file in the old format is migrated; it
\* and an empty file are rewritten; a file without a header is refused.
Open(f) ==
  LET d  == disk[f]
      es == Migrated(Loaded(d))
  IN /\ f <= used /\ d.made /\ (Valid(d) \/ IsEmpty(d))
     /\ IF d.old \/ ~Valid(d)
        THEN \E w \in {"ok", "refused"} :
               /\ disk' = [disk EXCEPT ![f] = Rewritten(d, es, w)]
               /\ IF w = "ok"
                  THEN Load(f, es) /\ NoFault /\ ids + Len(es) <= MaxIds /\ ids' = ids + Len(es)
                  ELSE Faulty(f) /\ UNCHANGED <<memVars, ids>>
        ELSE Load(f, Loaded(d)) /\ NoFault /\ UNCHANGED <<disk, ids>>
     /\ UNCHANGED <<used, raw, moves>>

\* open of a path with no file: a new session with that path.
OpenMissing(f) ==
  /\ f <= used /\ ~disk[f].made
  /\ cur' = f /\ entries' = <<>> /\ leaf' = 0 /\ flushed' = FALSE /\ labels' = {}
  /\ UNCHANGED <<disk, used, ids, hurt, raw, faults, moves>>

\* forkFrom: a header of the current version and the entries as they are, line
\* by line, into a new file, then open it: what comes from an old file has no
\* ids, and never gets any.  Cut off, it leaves that file behind.
Fork(f) ==
  LET es == Loaded(disk[f])
      n  == used + 1
  IN /\ used < MaxFiles /\ f <= used /\ Valid(disk[f])
     /\ used' = n
     /\ raw' = IF disk[f].old \/ f \in raw THEN raw \cup {n} ELSE raw
     /\ \/ disk' = [disk EXCEPT ![n] = File(<<Header>> \o es)] /\ Load(n, es) /\ NoFault
        \/ \E k \in 0 .. Len(es), w \in Outcomes \ {"ok"} :
             /\ disk' = [disk EXCEPT ![n] = IF k = 0 /\ w = "refused" THEN @
                                            ELSE Begun(<<Header>> \o es, k, w)]
             /\ UNCHANGED memVars /\ Faulty(n)
     /\ UNCHANGED <<ids, moves>>

\* createBranchedSession: the path without its labels, each entry the child of
\* the one before; a compaction that kept from a label keeps from the entry
\* after it; then the labels of what is left, as new entries.
Kept(path) == Picked(path, {i \in DOMAIN path : path[i].kind \notin {"label", "unlabel"}})

AfterLabelsUnmapped(path, x) == x   \* mutant: a compaction may keep from a label

\* The first entry of the path, from x on, that is no label.
AfterLabels(path, x) ==
  LET at   == {i \in DOMAIN path : path[i].id = x}
      rest == {j \in DOMAIN path : path[j].kind \notin {"label", "unlabel"} /\ \A i \in at : j >= i}
  IN IF at = {} \/ rest = {} THEN x ELSE path[CHOOSE j \in rest : \A k \in rest : j <= k].id

Rechained(path) ==
  LET p == Kept(path)
  IN [i \in DOMAIN p |->
        [p[i] EXCEPT !.parent = IF i = 1 THEN 0 ELSE p[i - 1].id,
                     !.ref = IF p[i].kind = "compaction" THEN AfterLabels(path, @) ELSE @]]

\* The labels of targets, in some order, chained after es.
Relabelled(es, targets) ==
  LET order == InOrder(targets)
  IN [i \in 1 .. Cardinality(targets) |->
        Entry(ids + i, IF i = 1 THEN LastId(es) ELSE ids + i - 1, "label", order[i])]

Extract(x) ==
  LET es      == Rechained(Path(entries, x))
      targets == labels \cap IdsOf(es)
      all     == es \o Relabelled(es, targets)
      n       == used + 1
  IN /\ used < MaxFiles /\ used' = n /\ x \in IdsOf(entries)
     /\ ids + Cardinality(targets) <= MaxIds /\ ids' = ids + Cardinality(targets)
     /\ cur' = n /\ entries' = all /\ leaf' = LastId(all) /\ labels' = LabelsIn(all)
     /\ IF ~AnsweredIn(all) THEN flushed' = FALSE /\ UNCHANGED disk /\ NoFault
        ELSE \E w \in {"ok", "refused"} :
               /\ disk' = [disk EXCEPT ![n] = Rewritten(@, all, w)]
               /\ flushed' = IF w = "ok" THEN TRUE ELSE flushed
               /\ IF w = "ok" THEN NoFault ELSE Faulty(n)
     /\ UNCHANGED <<raw, moves>>

-----------------------------------------------------------------------------
\* A new session; there is another one in the old format.
Aged == [File(<<Header, Entry(0, 0, "user", 0), Entry(0, 0, "asst", 0)>>) EXCEPT !.old = TRUE]

Init ==
  /\ used = 2 /\ ids = 0 /\ disk = [f \in Files |-> IF f = 2 THEN Aged ELSE Missing]
  /\ cur = 1 /\ entries = <<>> /\ leaf = 0 /\ flushed = FALSE /\ labels = {}
  /\ hurt = {} /\ raw = {} /\ faults = 0 /\ moves = 0

Next ==
  \/ \E kind \in Kinds : Say(kind)
  \/ \E x \in IdsOf(entries) \cup {0} : BranchTo(x) \/ BranchWithSummary(x)
  \/ \E x \in Ids : Extract(x)
  \/ \E f \in Files : Open(f) \/ OpenMissing(f) \/ Fork(f)
  \/ NewSession

Spec == Init /\ [][Next]_vars

-----------------------------------------------------------------------------
(* Properties.                                                              *)

Entries ==
  [id : 0 .. MaxIds, parent : 0 .. MaxIds, kind : AllKinds \cup {"summary"}, ref : 0 .. MaxIds]

\* In memory the entries are a tree in creation order whose every parent is
\* there, and the leaf is one of its entries, however many files were opened,
\* migrated, forked, extracted or cut off.  Entries lost by a failed write are
\* the only reason for a parent to be missing; a fork of a file in the old
\* format is the only session whose entries may lack an id.
TypeOK ==
  /\ cur \in Files /\ flushed \in BOOLEAN /\ hurt \subseteq Files /\ raw \subseteq Files
  /\ entries \in Seq(Entries) /\ leaf \in {0} \cup IdsOf(entries) /\ labels \subseteq 0 .. MaxIds
  /\ \A i, j \in DOMAIN entries :
       i < j => \/ entries[i].id < entries[j].id
                \/ entries[i].id = 0 /\ entries[j].id = 0 /\ cur \in raw
  /\ cur \notin raw => 0 \notin IdsOf(entries)
  /\ hurt = {} => \A i \in DOMAIN entries :
                    entries[i].parent \in {0} \cup IdsOf(SubSeq(entries, 1, i - 1))
  /\ ids \in 0 .. MaxIds /\ used \in Files /\ faults \in 0 .. MaxFaults /\ moves \in 0 .. MaxMoves

\* The file implements the append-only log: see SessionLog.
Log == INSTANCE SessionLog WITH session <- cur, tree <- entries,
                                saved <- Loaded(disk[cur]), sound <- cur \notin hurt
Promise == Log!Spec

Prefix(s, t) == Len(s) <= Len(t) /\ SubSeq(t, 1, Len(s)) = s
Said(es) == [i \in DOMAIN es |-> es[i].kind]

\* No step, failed or not, takes back an entry a file would bring back, in any
\* file, except by writing after a line that was cut off before its newline; a
\* migration renames the entries and no more.
SavedIsNeverLost ==
  [][\A f \in Files : disk[f].tail # "whole" =>
       IF disk[f].old THEN Prefix(Said(Loaded(disk[f])), Said(Loaded(disk'[f])))
                      ELSE Prefix(Loaded(disk[f]), Loaded(disk'[f]))]_vars

\* A branch extracted into a session of its own shows the model what the branch
\* showed it: labels, compactions and edits survive the new chain of parents.
ExtractionKeepsContext ==
  [][\A x \in Ids : Extract(x) => Projection(Path(entries', leaf')) = Projection(Path(entries, x))]_vars
=============================================================================
