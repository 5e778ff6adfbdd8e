-------------------------- MODULE MutationCommitProofs --------------------------
(***************************************************************************)
(* IntentKept, LocalStateVerifies and NothingLost for any number of        *)
(* commands, principals and homes, any number of revisions, and any        *)
(* failures.                                                               *)
(*                                                                         *)
(* The argument is about the files a lock holder has prepared (next).      *)
(* They are ahead of the principal's files and of what a power loss would  *)
(* leave of them, and they stay so, because nobody else touches the files: *)
(* so each file that is published moves the principal forward.             *)
(* Then the catalog and the artifact in one home, CoveredBeforeUse, and    *)
(* what was reported as committed, CommittedRetainedIfSynced.              *)
(***************************************************************************)
EXTENDS MCMutationCommit, TLAPS

Artifacts == Seq(Nat)
Events == [kind : {"initialize", "mutate", "operate"}, art : Artifacts]
Audits == Seq(Events)
Checkpoints == [accepted : Artifacts, seen : Audits]
LocalFiles == [audit : Audits, checkpoint : Checkpoints, receipts : BOOLEAN]

\* Where a command has files to publish, and where it holds the lock.
Publishing == {"audit", "catalog", "validate", "rename", "restore", "checkpoint", "receipts"}
Holding == Publishing \cup {"previewed"}
Places == Holding \cup {"idle", "read", "probed", "ready", "planned"}
Flows == {"none", "initialize", "advance", "event", "commit", "reconcile"}

Commands ==
  [pc : Places, flow : Flows, home : Homes, base : Artifacts, cat : SUBSET Nat, absent : BOOLEAN,
   git : Nat, target : Artifacts, catTarget : SUBSET Nat, update : BOOLEAN, inode : Nat,
   next : LocalFiles]

TypeOK ==
  /\ home \in [Homes -> [art : Artifacts, inode : Nat, git : Nat]]
  /\ catalog \in SUBSET Nat
  /\ files \in [Principals -> LocalFiles]
  /\ disk \in [art : [Homes -> Artifacts], catalog : SUBSET Nat, files : [Principals -> LocalFiles]]
  /\ lock \in Procs \cup {"free", "stale"}
  /\ cmd \in [Procs -> Commands]
  /\ revisions \in Seq(Nat)
  /\ published \in SUBSET (Principals \X Artifacts)

\* Which flow goes where; a plan leads to a descendant of what it is made from.
FlowOK(c) ==
  /\ c.pc \in {"planned", "previewed", "validate", "rename", "restore"} => c.flow = "commit"
  /\ c.pc = "catalog" => c.flow \in {"commit", "reconcile"}
  /\ c.pc = "receipts" => c.flow = "initialize"
  /\ c.pc \in {"audit", "checkpoint"} => c.flow # "none"
  /\ c.pc \in Holding \cup {"planned"} /\ c.flow \in {"commit", "reconcile"} => Extends(c.base, c.target)

Sane(f) == Extends(f.checkpoint.seen, f.audit)

\* What the files f know is known to g too.
Below(f, g) ==
  /\ Extends(f.audit, g.audit)
  /\ Extends(f.checkpoint.accepted, g.checkpoint.accepted)
  /\ f.receipts => g.receipts

\* The files f of a principal, and what a power loss would leave of them.
FilesOK(q, f, d) ==
  /\ Sane(f) /\ Sane(d) /\ Below(d, f)
  /\ UniqueIntents(f.audit) /\ UniqueIntents(d.audit)
  /\ q \in Established => Complete(f) /\ Complete(d)

\* The files a command has prepared, where f are the principal's.
NextOK(c, f) ==
  c.pc \in Publishing =>
    /\ Below(f, c.next)
    /\ c.next.checkpoint.seen = c.next.audit
    /\ UniqueIntents(c.next.audit)
    /\ c.flow \in {"commit", "reconcile"} => c.next.checkpoint.accepted = c.target
    /\ c.flow \in {"initialize", "advance"} => c.next.checkpoint.accepted = c.base
    /\ c.pc \in {"checkpoint", "receipts"} \/ (c.flow = "commit" /\ c.pc # "audit") =>
         f.audit = c.next.audit
    /\ c.pc = "receipts" => f.checkpoint.accepted = c.next.checkpoint.accepted

\* The intent of a commit is durable before anything shared is published.
IntentOK(c, d) ==
  c.flow = "commit" =>
    /\ c.pc = "audit" => ContainsOperation(c.next, c.target)
    /\ c.pc \in {"catalog", "validate", "rename", "restore"} => ContainsOperation(d, c.target)

\* Where the checkpoint must cover what the command works on.
Covered(c) ==
  /\ c.pc \notin {"idle", "read", "probed"}
  /\ c.flow \in {"advance", "initialize"} => c.pc = "ready"

\* What a command works on.
WorkOK(c, f) ==
  /\ c.pc = "probed" /\ c.absent => f = NoFiles
  /\ c.flow = "initialize" /\ c.pc = "audit" => f = NoFiles
  /\ Covered(c) => Extends(c.base, f.checkpoint.accepted)

\* The artifact file is the one that was examined as long as its identity is.
InodeOK(c, h) ==
  c.flow = "commit" =>
    /\ c.pc \in {"previewed", "audit", "catalog", "validate", "rename"} => c.inode <= h.inode
    /\ c.pc \in {"audit", "catalog", "validate", "rename"} /\ h.inode = c.inode => h.art = c.base

CommitInvariant ==
  /\ TypeOK
  /\ IntentDurable
  /\ \A q \in Settled : FilesOK(q, files[q], disk.files[q])
  /\ \A p \in Procs :
       /\ FlowOK(cmd[p])
       /\ InodeOK(cmd[p], home[cmd[p].home])
       /\ cmd[p].pc \in Holding => lock = p
  /\ \A p \in Procs : Me(p) \in Settled =>
       /\ NextOK(cmd[p], files[Me(p)])
       /\ IntentOK(cmd[p], disk.files[Me(p)])
       /\ WorkOK(cmd[p], files[Me(p)])

Disks == [art : [Homes -> Artifacts], catalog : SUBSET Nat, files : [Principals -> LocalFiles]]

-----------------------------------------------------------------------------
(* Sequences that extend one another *)

LEMMA ExtendsPointwise ==
    ASSUME NEW S, NEW a \in Seq(S), NEW b \in Seq(S)
    PROVE  Extends(a, b) <=> Len(a) <= Len(b) /\ \A i \in 1..Len(a) : a[i] = b[i]
<1>1. ASSUME Len(a) <= Len(b) PROVE SubSeq(b, 1, Len(a)) = a <=> \A i \in 1..Len(a) : a[i] = b[i]
  <2>1. /\ SubSeq(b, 1, Len(a)) \in Seq(S) /\ Len(SubSeq(b, 1, Len(a))) = Len(a)
        /\ \A i \in 1..Len(a) : SubSeq(b, 1, Len(a))[i] = b[i]
    BY <1>1
  <2> QED BY <2>1
<1> QED BY <1>1 DEF Extends

\* Extends is an order on histories: every history extends itself,
LEMMA ExtendsItself == ASSUME NEW S, NEW a \in Seq(S) PROVE Extends(a, a)
BY ExtendsPointwise

\* what extends an extension extends the history,
LEMMA ExtendsTransitively ==
    ASSUME NEW S, NEW a \in Seq(S), NEW b \in Seq(S), NEW c \in Seq(S), Extends(a, b), Extends(b, c)
    PROVE  Extends(a, c)
<1>1. Len(a) <= Len(b) /\ \A i \in 1..Len(a) : a[i] = b[i]
  BY ExtendsPointwise
<1>2. Len(b) <= Len(c) /\ \A i \in 1..Len(b) : b[i] = c[i]
  BY ExtendsPointwise
<1>3. Len(a) <= Len(c) /\ \A i \in 1..Len(a) : a[i] = c[i]
  BY <1>1, <1>2
<1> QED BY <1>3, ExtendsPointwise

\* one more element extends it,
LEMMA AppendExtends ==
    ASSUME NEW S, NEW a \in Seq(S), NEW e \in S
    PROVE  Append(a, e) \in Seq(S) /\ Extends(a, Append(a, e))
<1>1. Append(a, e) \in Seq(S) /\ Len(a) <= Len(Append(a, e)) /\ \A i \in 1..Len(a) : a[i] = Append(a, e)[i]
  OBVIOUS
<1> QED BY <1>1, ExtendsPointwise, Zenon

\* and the empty history comes first.
LEMMA NothingExtends == ASSUME NEW S, NEW a \in Seq(S) PROVE Extends(<<>>, a)
<1>0. <<>> \in Seq(S)
  OBVIOUS
<1>1. PICK e \in Seq(S) : e = <<>>
  BY <1>0, Zenon
<1>2. Len(e) = 0 /\ Len(a) \in Nat
  BY <1>1
<1>3. Len(e) <= Len(a) /\ \A i \in 1..Len(e) : e[i] = a[i]
  BY <1>2
<1> QED BY <1>1, <1>3, ExtendsPointwise, Zenon

\* What was recorded is recorded in every longer audit.
LEMMA IntentsRemain ==
    ASSUME NEW f \in LocalFiles, NEW g \in LocalFiles, Extends(f.audit, g.audit), NEW a,
           ContainsOperation(f, a)
    PROVE  ContainsOperation(g, a)
<1>1. f.audit \in Seq(Events) /\ g.audit \in Seq(Events)
  BY DEF LocalFiles, Audits
<1>2. Len(f.audit) <= Len(g.audit) /\ \A i \in 1..Len(f.audit) : f.audit[i] = g.audit[i]
  BY <1>1, ExtendsPointwise
<1> QED BY <1>1, <1>2 DEF ContainsOperation

-----------------------------------------------------------------------------
(* The local files *)

LEMMA EventsTyped ==
    ASSUME NEW a \in Artifacts
    PROVE  Initialized(a) \in Events /\ Mutated(a) \in Events /\ Operational \in Events
BY DEF Events, Artifacts, Initialized, Mutated, Operational

\* What the operations on local files make of them.
LEMMA FilesMade ==
    ASSUME NEW f \in LocalFiles, NEW a \in Artifacts, NEW e \in Events
    PROVE  /\ AcceptCandidate(f, a) =
                [audit |-> f.audit, checkpoint |-> [accepted |-> a, seen |-> f.checkpoint.seen],
                 receipts |-> f.receipts]
           /\ AcceptTail(f) =
                [audit |-> f.audit, checkpoint |-> [accepted |-> f.checkpoint.accepted, seen |-> f.audit],
                 receipts |-> f.receipts]
           /\ AppendEvent(f, e) =
                [audit |-> Append(f.audit, e),
                 checkpoint |-> [accepted |-> f.checkpoint.accepted, seen |-> Append(f.audit, e)],
                 receipts |-> f.receipts]
           /\ AcceptCandidate(f, a) \in LocalFiles
           /\ AcceptTail(f) \in LocalFiles
           /\ AppendEvent(f, e) \in LocalFiles
<1>1. f.audit \in Audits /\ f.checkpoint \in Checkpoints /\ f.receipts \in BOOLEAN
  BY DEF LocalFiles
<1>2. f.checkpoint.accepted \in Artifacts /\ f.checkpoint.seen \in Audits
  BY <1>1 DEF Checkpoints
<1>3. Append(f.audit, e) \in Audits
  BY <1>1 DEF Audits
<1>4. AcceptCandidate(f, a) =
        [audit |-> f.audit, checkpoint |-> [accepted |-> a, seen |-> f.checkpoint.seen],
         receipts |-> f.receipts]
  BY DEF AcceptCandidate, LocalFiles, Checkpoints
<1>5. AcceptTail(f) =
        [audit |-> f.audit, checkpoint |-> [accepted |-> f.checkpoint.accepted, seen |-> f.audit],
         receipts |-> f.receipts]
  BY DEF AcceptTail, LocalFiles, Checkpoints
<1>6. AppendEvent(f, e) =
        [audit |-> Append(f.audit, e),
         checkpoint |-> [accepted |-> f.checkpoint.accepted, seen |-> Append(f.audit, e)],
         receipts |-> f.receipts]
  <2>1. PICK log : log = Append(f.audit, e)
    BY Zenon
  <2>2. [f EXCEPT !.audit = log, !.checkpoint.seen = log] =
          [[f EXCEPT !.audit = log] EXCEPT !.checkpoint = [f.checkpoint EXCEPT !.seen = log]]
    BY DEF LocalFiles
  <2>3. PICK mark : mark = [f.checkpoint EXCEPT !.seen = log]
    BY Zenon
  <2>4. mark = [accepted |-> f.checkpoint.accepted, seen |-> log]
    BY <1>1, <2>3 DEF Checkpoints
  <2>5. PICK g : g = [f EXCEPT !.audit = log]
    BY Zenon
  <2>6. g = [audit |-> log, checkpoint |-> f.checkpoint, receipts |-> f.receipts]
    BY <2>5 DEF LocalFiles
  <2>7. [g EXCEPT !.checkpoint = mark] = [audit |-> log, checkpoint |-> mark, receipts |-> f.receipts]
    BY <2>6
  <2> QED BY <2>1, <2>2, <2>3, <2>4, <2>5, <2>7, Zenon DEF AppendEvent
<1>7. AcceptCandidate(f, a) \in LocalFiles /\ AcceptTail(f) \in LocalFiles /\ AppendEvent(f, e) \in LocalFiles
  BY <1>1, <1>2, <1>3, <1>4, <1>5, <1>6 DEF LocalFiles, Checkpoints
<1> QED BY <1>4, <1>5, <1>6, <1>7

\* The files of a first use are complete and sound, and ahead of none.
LEMMA FirstFiles ==
    ASSUME NEW a \in Artifacts
    PROVE  /\ FreshFiles(a) \in LocalFiles /\ NoFiles \in LocalFiles
           /\ Complete(FreshFiles(a)) /\ Sane(FreshFiles(a)) /\ Sane(NoFiles) /\ ~Complete(NoFiles)
           /\ UniqueIntents(FreshFiles(a).audit) /\ UniqueIntents(NoFiles.audit)
           /\ Below(NoFiles, FreshFiles(a))
<1>1. <<Initialized(a)>> \in Audits /\ <<>> \in Audits /\ <<>> \in Artifacts
  BY EventsTyped DEF Audits, Artifacts
<1>2. FreshFiles(a) \in LocalFiles /\ NoFiles \in LocalFiles
  BY <1>1 DEF FreshFiles, NoFiles, NoAudit, NoCheckpoint, LocalFiles, Checkpoints
<1>3. Complete(FreshFiles(a)) /\ ~Complete(NoFiles)
  BY DEF FreshFiles, Complete, NoAudit, NoCheckpoint, NoFiles
<1>4. Sane(FreshFiles(a)) /\ Sane(NoFiles)
  BY <1>1, ExtendsItself, Zenon DEF Sane, FreshFiles, NoFiles, NoAudit, NoCheckpoint, Audits
<1>5. UniqueIntents(FreshFiles(a).audit) /\ UniqueIntents(NoFiles.audit)
  BY DEF UniqueIntents, FreshFiles, NoFiles, NoAudit, Initialized
<1>6. Below(NoFiles, FreshFiles(a))
  BY <1>1, NothingExtends, Zenon DEF Below, FreshFiles, NoFiles, NoAudit, NoCheckpoint, Audits, Artifacts
<1> QED BY <1>2, <1>3, <1>4, <1>5, <1>6

\* Below is an order on the files of a principal.
LEMMA BelowItself == ASSUME NEW f \in LocalFiles PROVE Below(f, f)
BY ExtendsItself DEF Below, LocalFiles, Checkpoints, Audits, Artifacts

\* Files that are ahead of files that are ahead are ahead.
LEMMA BelowTransitively ==
    ASSUME NEW f \in LocalFiles, NEW g \in LocalFiles, NEW h \in LocalFiles, Below(f, g), Below(g, h)
    PROVE  Below(f, h)
<1>1. /\ f.audit \in Seq(Events) /\ g.audit \in Seq(Events) /\ h.audit \in Seq(Events)
      /\ f.checkpoint.accepted \in Seq(Nat) /\ g.checkpoint.accepted \in Seq(Nat)
      /\ h.checkpoint.accepted \in Seq(Nat)
  BY DEF LocalFiles, Checkpoints, Audits, Artifacts
<1>2. Extends(f.audit, h.audit)
  BY <1>1, ExtendsTransitively DEF Below
<1>3. Extends(f.checkpoint.accepted, h.checkpoint.accepted)
  BY <1>1, ExtendsTransitively DEF Below
<1> QED BY <1>2, <1>3 DEF Below

\* Publishing one of the prepared files moves a principal forward.
LEMMA OneFileForward ==
    ASSUME NEW f \in LocalFiles, NEW n \in LocalFiles, NEW k \in {"audit", "checkpoint", "receipts"},
           Below(f, n), n.checkpoint.seen = n.audit, UniqueIntents(n.audit), Sane(f), UniqueIntents(f.audit),
           k = "checkpoint" => f.audit = n.audit,
           NEW g, g = [f EXCEPT ![k] = n[k]]
    PROVE  /\ g \in LocalFiles /\ Sane(g) /\ Below(f, g) /\ Below(g, n) /\ UniqueIntents(g.audit)
           /\ Complete(f) => Complete(g)
<1>1. /\ f.audit \in Seq(Events) /\ n.audit \in Seq(Events)
      /\ f.checkpoint.seen \in Seq(Events) /\ n.checkpoint.seen \in Seq(Events)
      /\ f.checkpoint.accepted \in Seq(Nat) /\ n.checkpoint.accepted \in Seq(Nat)
  BY DEF LocalFiles, Checkpoints, Audits, Artifacts
<1>2. /\ Extends(f.audit, f.audit) /\ Extends(n.audit, n.audit)
      /\ Extends(f.checkpoint.accepted, f.checkpoint.accepted)
      /\ Extends(n.checkpoint.accepted, n.checkpoint.accepted)
  BY <1>1, ExtendsItself
<1>3. CASE k = "audit"
  <2>1. g = [audit |-> n.audit, checkpoint |-> f.checkpoint, receipts |-> f.receipts] /\ g \in LocalFiles
    BY <1>3, Zenon DEF LocalFiles
  <2>2. Extends(f.checkpoint.seen, n.audit)
    BY <1>1, ExtendsTransitively DEF Sane, Below
  <2>3. f.audit # <<>> => n.audit # <<>>
    BY <1>1, ExtendsPointwise DEF Below
  <2> QED BY <1>2, <2>1, <2>2, <2>3 DEF Sane, Below, Complete, NoAudit
<1>4. CASE k = "checkpoint"
  <2>1. g = [audit |-> f.audit, checkpoint |-> n.checkpoint, receipts |-> f.receipts] /\ g \in LocalFiles
    BY <1>4, Zenon DEF LocalFiles
  <2>2. f.audit # <<>> => n.checkpoint # NoCheckpoint
    BY <1>4 DEF NoCheckpoint, NoAudit
  <2> QED BY <1>2, <1>4, <2>1, <2>2 DEF Sane, Below, Complete, NoAudit
<1>5. CASE k = "receipts"
  <2>1. g = [audit |-> f.audit, checkpoint |-> f.checkpoint, receipts |-> n.receipts] /\ g \in LocalFiles
    BY <1>5, Zenon DEF LocalFiles
  <2> QED BY <1>2, <2>1 DEF Sane, Below, Complete
<1> QED BY <1>3, <1>4, <1>5

-----------------------------------------------------------------------------
(* Steps of commands *)

\* What a command works on.
LEMMA Typed ==
    ASSUME TypeOK, NEW p \in Procs
    PROVE  /\ Me(p) \in Principals /\ cmd[p] \in Commands
           /\ files[Me(p)] \in LocalFiles /\ disk.files[Me(p)] \in LocalFiles
           /\ home[cmd[p].home] \in [art : Artifacts, inode : Nat, git : Nat]
<1>1. Me(p) \in Principals
  BY ActsAssumption DEF Me
<1>2. cmd[p] \in Commands /\ cmd[p].home \in Homes
  BY DEF TypeOK, Commands
<1>3. files[Me(p)] \in LocalFiles /\ disk.files[Me(p)] \in LocalFiles
  BY <1>1 DEF TypeOK
<1>4. home[cmd[p].home] \in [art : Artifacts, inode : Nat, git : Nat]
  BY <1>2 DEF TypeOK
<1> QED BY <1>1, <1>2, <1>3, <1>4

\* A step of one command: if it moves its own principal's files, it holds the
\* lock and moves them forward.  Then nothing is lost for the others.
LEMMA CommandMoves ==
    ASSUME CommitInvariant, NEW p \in Procs, NEW c \in Commands, NEW g \in LocalFiles,
           cmd' = [cmd EXCEPT ![p] = c],
           files' = [files EXCEPT ![Me(p)] = g],
           g = files[Me(p)] \/ lock = p,
           disk' \in Disks,
           disk'.files \in {disk.files, [disk.files EXCEPT ![Me(p)] = g]},
           UNCHANGED <<home, published>>, catalog' \in SUBSET Nat, revisions' \in Seq(Nat),
           lock' = lock \/ (lock = "free" /\ lock' = p) \/ (lock = p /\ lock' \in {"free", "stale"}),
           c.pc \in Holding => lock' = p,
           FlowOK(c), InodeOK(c, home[c.home]),
           Me(p) \in Settled =>
             /\ Sane(g) /\ Below(files[Me(p)], g) /\ UniqueIntents(g.audit)
             /\ Complete(files[Me(p)]) => Complete(g)
             /\ NextOK(c, g) /\ IntentOK(c, disk'.files[Me(p)]) /\ WorkOK(c, g)
    PROVE  CommitInvariant'
<1> DEFINE q == Me(p)
<1>0. TypeOK /\ q \in Principals /\ files[q] \in LocalFiles /\ disk.files[q] \in LocalFiles
  BY Typed DEF CommitInvariant
<1>1. TypeOK'
  <2>1. lock' \in Procs \cup {"free", "stale"}
    BY <1>0 DEF TypeOK
  <2>2. cmd' \in [Procs -> Commands] /\ files' \in [Principals -> LocalFiles]
    BY <1>0 DEF TypeOK
  <2> QED BY <1>0, <2>1, <2>2 DEF TypeOK, Disks
<1>2. /\ files'[q] = g /\ \A r \in Principals : r # q => files'[r] = files[r]
      /\ \A r \in Principals : r # q => disk'.files[r] = disk.files[r]
      /\ disk'.files[q] \in {disk.files[q], g}
  <2>1. files \in [Principals -> LocalFiles] /\ disk.files \in [Principals -> LocalFiles]
    BY <1>0 DEF TypeOK
  <2> QED BY <1>0, <2>1
<1>3. cmd'[p] = c /\ \A r \in Procs : r # p => cmd'[r] = cmd[r]
  BY <1>0 DEF TypeOK
<1>4. \A r \in Procs : Me(r)' = Me(r)
  BY DEF Me
<1>5. ASSUME q \in Settled
      PROVE  /\ Below(disk.files[q], files[q]) /\ Below(disk.files[q], g)
             /\ Below(disk.files[q], disk'.files[q])
             /\ FilesOK(q, files'[q], disk'.files[q])
  <2>1. FilesOK(q, files[q], disk.files[q])
    BY <1>5 DEF CommitInvariant
  <2>2. Below(disk.files[q], files[q]) /\ Below(disk.files[q], g)
    BY <1>0, <1>5, <2>1, BelowTransitively DEF FilesOK
  <2>3. Below(g, g) /\ Below(disk.files[q], disk.files[q])
    BY <1>0, BelowItself
  <2> QED BY <1>2, <1>5, <2>1, <2>2, <2>3 DEF FilesOK
<1>6. \A r \in Settled : FilesOK(r, files'[r], disk'.files[r])
  <2>1. ASSUME NEW r \in Settled, r # q PROVE FilesOK(r, files'[r], disk'.files[r])
    <3>1. r \in Principals
      BY DEF Settled
    <3> QED BY <1>2, <2>1, <3>1 DEF CommitInvariant
  <2> QED BY <1>5, <2>1
<1>7. IntentDurable'
  <2>1. SUFFICES ASSUME NEW w \in published, w[1] \in Settled
                 PROVE  ContainsOperation(disk'.files[w[1]], w[2])
    BY DEF IntentDurable, Settled, Me
  <2>2. w[1] \in Principals /\ ContainsOperation(disk.files[w[1]], w[2])
    BY <2>1 DEF CommitInvariant, IntentDurable, Settled
  <2>3. CASE w[1] = q
    <3>1. ContainsOperation(g, w[2])
      BY <1>0, <1>5, <2>1, <2>2, <2>3, IntentsRemain, SMTT(30) DEF Below
    <3> QED BY ZenonT(60), <1>2, <2>2, <2>3, <3>1
  <2> QED BY <1>2, <2>2, <2>3
<1>8. ASSUME NEW r \in Procs
      PROVE  /\ FlowOK(cmd'[r])
             /\ InodeOK(cmd'[r], home'[cmd'[r].home])
             /\ cmd'[r].pc \in Holding => lock' = r
  <2>1. CASE r = p
    BY <1>3, <2>1
  <2>2. CASE r # p
    <3>1. FlowOK(cmd[r]) /\ InodeOK(cmd[r], home[cmd[r].home]) /\ (cmd[r].pc \in Holding => lock = r)
      BY DEF CommitInvariant
    <3>2. lock = r => lock' = r
      BY <2>2, ProcsAssumption
    <3> QED BY <1>3, <2>2, <3>1, <3>2
  <2> QED BY <2>1, <2>2
<1>9. ASSUME NEW r \in Procs, Me(r) \in Settled
      PROVE  /\ NextOK(cmd'[r], files'[Me(r)])
             /\ IntentOK(cmd'[r], disk'.files[Me(r)])
             /\ WorkOK(cmd'[r], files'[Me(r)])
  <2>0. /\ NextOK(cmd[r], files[Me(r)]) /\ IntentOK(cmd[r], disk.files[Me(r)]) /\ WorkOK(cmd[r], files[Me(r)])
        /\ cmd[r].pc \in Holding => lock = r
        /\ Me(r) \in Principals /\ cmd[r] \in Commands
    BY <1>0, <1>9, Typed DEF CommitInvariant
  <2>1. CASE r = p
    BY <1>2, <1>3, <1>9, <2>1
  <2>2. CASE Me(r) # q
    BY <1>2, <1>3, <2>0, <2>2
  <2>3. CASE r # p /\ Me(r) = q
    <3>1. IntentOK(cmd[r], disk'.files[q])
      <4>1. ASSUME NEW a, ContainsOperation(disk.files[q], a) PROVE ContainsOperation(disk'.files[q], a)
        <5>1. disk'.files[q] \in LocalFiles
          BY <1>0, <1>2
        <5> QED BY <1>0, <1>5, <1>9, <2>3, <4>1, <5>1, IntentsRemain DEF Below
      <4> QED BY ZenonT(60), <2>0, <2>3, <4>1 DEF IntentOK
    <3>2. CASE g = files[q]
      BY <1>2, <1>3, <2>0, <2>3, <3>1, <3>2
    <3>3. CASE lock = p
      <4>1. cmd[r].pc \notin Holding
        BY <2>0, <2>3, <3>3
      <4>2. NextOK(cmd[r], g)
        BY <4>1 DEF NextOK, Holding
      <4>3. ~(cmd[r].pc = "probed" /\ cmd[r].absent)
        <5>1. q \in Established
          BY <1>9, <2>3 DEF Settled
        <5>2. files[q] # NoFiles
          <6>1. FilesOK(q, files[q], disk.files[q])
            BY Zenon, <1>9, <2>3 DEF CommitInvariant
          <6> QED BY <5>1, <6>1 DEF FilesOK, Complete, NoFiles, NoAudit
        <5> QED BY <2>0, <2>3, <5>2 DEF WorkOK
      <4>4. Covered(cmd[r]) => Extends(cmd[r].base, g.checkpoint.accepted)
        <5>1. SUFFICES ASSUME Covered(cmd[r]) PROVE Extends(cmd[r].base, g.checkpoint.accepted)
          OBVIOUS
        <5>2. /\ cmd[r].base \in Seq(Nat) /\ files[q].checkpoint.accepted \in Seq(Nat)
              /\ g.checkpoint.accepted \in Seq(Nat)
          BY Zenon, <1>0, <2>0 DEF Commands, LocalFiles, Checkpoints, Artifacts
        <5>3. Extends(cmd[r].base, files[q].checkpoint.accepted)
          BY ZenonT(60), <2>0, <2>3, <5>1 DEF WorkOK
        <5>4. Extends(files[q].checkpoint.accepted, g.checkpoint.accepted)
          BY ZenonT(60), <1>9, <2>3 DEF Below
        <5> QED BY ZenonT(60), <5>2, <5>3, <5>4, ExtendsTransitively
      <4>5. WorkOK(cmd[r], g)
        BY <2>0, <4>1, <4>3, <4>4 DEF WorkOK, Holding, Publishing
      <4> QED BY <1>2, <1>3, <2>3, <3>1, <4>2, <4>5
    <3> QED BY <3>2, <3>3
  <2> QED BY <2>1, <2>2, <2>3
<1> QED BY <1>1, <1>4, <1>6, <1>7, <1>8, <1>9 DEF CommitInvariant, Settled, Me

\* A step of one command that moves no local files and no artifact.
LEMMA CatalogMoves ==
    ASSUME CommitInvariant, NEW p \in Procs, NEW c \in Commands,
           cmd' = [cmd EXCEPT ![p] = c],
           UNCHANGED <<files, home, published>>, disk' \in Disks, disk'.files = disk.files,
           catalog' \in SUBSET Nat, revisions' \in Seq(Nat),
           lock' = lock \/ (lock = "free" /\ lock' = p) \/ (lock = p /\ lock' \in {"free", "stale"}),
           c.pc \in Holding => lock' = p,
           FlowOK(c), InodeOK(c, home[c.home]),
           Me(p) \in Settled =>
             NextOK(c, files[Me(p)]) /\ IntentOK(c, disk.files[Me(p)]) /\ WorkOK(c, files[Me(p)])
    PROVE  CommitInvariant'
<1> DEFINE q == Me(p)
<1>1. TypeOK /\ q \in Principals /\ files[q] \in LocalFiles
  BY Typed DEF CommitInvariant
<1>2. files' = [files EXCEPT ![q] = files[q]]
  BY <1>1 DEF TypeOK
<1>3. q \in Settled => Sane(files[q]) /\ Below(files[q], files[q]) /\ UniqueIntents(files[q].audit)
  BY <1>1, BelowItself DEF CommitInvariant, FilesOK
<1>4. q \in Settled => IntentOK(c, disk'.files[q])
  OBVIOUS
<1> HIDE DEF q
<1> QED BY <1>1, <1>2, <1>3, <1>4, CommandMoves, Zenon DEF q

\* A step of one command that moves no files at all.
LEMMA QuietMoves ==
    ASSUME CommitInvariant, NEW p \in Procs, NEW c \in Commands,
           cmd' = [cmd EXCEPT ![p] = c],
           UNCHANGED <<files, disk, home, published>>, catalog' \in SUBSET Nat, revisions' \in Seq(Nat),
           lock' = lock \/ (lock = "free" /\ lock' = p) \/ (lock = p /\ lock' \in {"free", "stale"}),
           c.pc \in Holding => lock' = p,
           FlowOK(c), InodeOK(c, home[c.home]),
           Me(p) \in Settled =>
             NextOK(c, files[Me(p)]) /\ IntentOK(c, disk.files[Me(p)]) /\ WorkOK(c, files[Me(p)])
    PROVE  CommitInvariant'
<1>1. disk' \in Disks /\ disk'.files = disk.files
  BY DEF CommitInvariant, TypeOK, Disks
<1> QED BY <1>1, CatalogMoves, Zenon

\* A command that has not begun.
LEMMA IdleTyped ==
    /\ Idle \in Commands /\ Idle.pc = "idle" /\ Idle.flow = "none"
    /\ Idle.base = <<>> /\ Idle.absent = FALSE
<1>1. <<>> \in Artifacts
  BY DEF Artifacts
<1>2. NoFiles \in LocalFiles
  BY <1>1, FirstFiles
<1>3. (CHOOSE h \in Homes : TRUE) \in Homes
  BY HomesAssumption
<1> QED BY <1>1, <1>2, <1>3 DEF Idle, Commands, Places, Flows

\* A command at rest asks nothing of the state.
LEMMA AtRest ==
    ASSUME NEW c \in Commands, c.pc \in {"idle", "read"}
    PROVE  /\ c.pc \notin Holding /\ FlowOK(c)
           /\ \A f : NextOK(c, f) /\ IntentOK(c, f) /\ WorkOK(c, f)
           /\ \A h : InodeOK(c, h)
BY DEF Holding, Publishing, FlowOK, NextOK, IntentOK, WorkOK, InodeOK, Covered

\* Reading the vault and the local files, and the refusals before the lock.
LEMMA OpeningSteps ==
    ASSUME CommitInvariant, NEW p \in Procs,
           \/ \E h \in Homes : ReadVault(p, h)
           \/ Probe(p) \/ Open(p) \/ Refuse(p)
    PROVE  CommitInvariant'
<1> DEFINE q == Me(p)
           f == files[Me(p)]
<1>0. /\ TypeOK /\ cmd[p] \in Commands /\ catalog \in SUBSET Nat /\ revisions \in Seq(Nat)
      /\ q \in Settled => WorkOK(cmd[p], f)
  BY Typed DEF CommitInvariant, TypeOK
<1>1. ASSUME NEW h \in Homes, ReadVault(p, h) PROVE CommitInvariant'
  <2>1. PICK c : c = [Idle EXCEPT !.pc = "read", !.home = h, !.base = home[h].art]
    OBVIOUS
  <2>2. home[h].art \in Artifacts
    BY <1>0 DEF TypeOK
  <2>3. c \in Commands /\ c.pc = "read"
    BY <2>1, <2>2, IdleTyped, Zenon DEF Commands, Places
  <2>4. cmd' = [cmd EXCEPT ![p] = c] /\ UNCHANGED <<home, catalog, files, disk, lock, revisions, published>>
    BY <1>1, <2>1, Zenon DEF ReadVault, Go
  <2> QED BY <1>0, <2>3, <2>4, AtRest, QuietMoves, Zenon
<1>2. CASE Probe(p)
  <2>1. PICK c : c = [cmd[p] EXCEPT !.pc = "probed", !.cat = catalog, !.absent = Absent(f)]
    OBVIOUS
  <2>2. c \in Commands /\ c.pc = "probed" /\ c.absent = Absent(f)
    BY <1>0, <2>1, Zenon DEF Commands, Places, Absent
  <2>3. cmd' = [cmd EXCEPT ![p] = c] /\ UNCHANGED <<home, catalog, files, disk, lock, revisions, published>>
    BY <1>2, <2>1 DEF Probe, Go
  <2>4. /\ c.pc \notin Holding /\ FlowOK(c) /\ NextOK(c, f) /\ IntentOK(c, disk.files[Me(p)]) /\ WorkOK(c, f)
        /\ InodeOK(c, home[c.home])
    BY <2>2, Zenon DEF Holding, Publishing, FlowOK, NextOK, IntentOK, WorkOK, InodeOK, Covered, Absent
  <2> QED BY <1>0, <2>2, <2>3, <2>4, QuietMoves, Zenon
<1>3. CASE Open(p)
  <2>1. PICK c : c = [cmd[p] EXCEPT !.pc = "ready"]
    BY Zenon
  <2>2. c \in Commands /\ c.pc = "ready" /\ c.base = cmd[p].base
    BY <1>0, <2>1 DEF Commands, Places
  <2>3. cmd' = [cmd EXCEPT ![p] = c] /\ UNCHANGED <<home, catalog, files, disk, lock, revisions, published>>
    BY <1>3, <2>1 DEF Open, Step, Go
  <2>4. c.base = f.checkpoint.accepted
    BY <1>3, <2>2 DEF Open, Relation
  <2>5. Extends(c.base, f.checkpoint.accepted)
    BY <2>2, <2>4, ExtendsItself DEF Commands, Artifacts
  <2>6. /\ c.pc \notin Holding /\ FlowOK(c) /\ NextOK(c, f) /\ IntentOK(c, disk.files[Me(p)]) /\ WorkOK(c, f)
        /\ InodeOK(c, home[c.home])
    BY <2>2, <2>5 DEF Holding, Publishing, FlowOK, NextOK, IntentOK, WorkOK, InodeOK, Covered
  <2> QED BY <1>0, <2>2, <2>3, <2>6, QuietMoves, Zenon
<1>4. CASE Refuse(p)
  <2>1. cmd' = [cmd EXCEPT ![p] = Idle] /\ UNCHANGED <<home, catalog, files, disk, lock, revisions, published>>
    BY <1>4 DEF Refuse, Go
  <2> QED BY <1>0, <2>1, IdleTyped, AtRest, QuietMoves, Zenon
<1> QED BY <1>1, <1>2, <1>3, <1>4

\* An artifact that is not divergent extends the accepted one.
LEMMA RelationExtends ==
    ASSUME NEW f \in LocalFiles, NEW a \in Artifacts, Relation(f, a) # "divergent"
    PROVE  Extends(f.checkpoint.accepted, a)
<1>1. a = f.checkpoint.accepted \/ Extends(f.checkpoint.accepted, a)
  BY DEF Relation
<1> QED BY <1>1, ExtendsItself DEF Artifacts

\* An event that is not an intent recorded before keeps intents unique.
LEMMA UniqueAppend ==
    ASSUME NEW log \in Audits, NEW e \in Events, UniqueIntents(log),
           e.kind # "mutate" \/ ~\E k \in DOMAIN log : log[k] = e
    PROVE  UniqueIntents(Append(log, e))
<1>1. PICK more : more = Append(log, e)
  BY Zenon
<1>2. /\ DOMAIN more = 1..(Len(log) + 1) /\ DOMAIN log = 1..Len(log) /\ Len(log) \in Nat
      /\ more[Len(log) + 1] = e
      /\ \A i \in 1..Len(log) : more[i] = log[i]
  BY <1>1 DEF Audits
<1>3. ASSUME NEW i \in DOMAIN more, NEW j \in DOMAIN more, more[i].kind = "mutate", more[i] = more[j]
      PROVE  i = j
  <2>1. CASE i \in DOMAIN log /\ j \in DOMAIN log
    BY <1>2, <1>3, <2>1 DEF UniqueIntents
  <2>2. CASE i = Len(log) + 1 /\ j \in DOMAIN log
    BY <1>2, <1>3, <2>2
  <2>3. CASE j = Len(log) + 1 /\ i \in DOMAIN log
    BY <1>2, <1>3, <2>3
  <2>4. CASE i = Len(log) + 1 /\ j = Len(log) + 1
    BY <2>4
  <2> QED BY <1>2, <2>1, <2>2, <2>3, <2>4
<1> QED BY <1>1, <1>3 DEF UniqueIntents

\* The files n record the target t once in the audit of f, and accept a.
Recorded(n, f, t, a) ==
  LET log == IF ContainsOperation(f, t) THEN f.audit ELSE Append(f.audit, Mutated(t))
  IN n = [audit |-> log, checkpoint |-> [accepted |-> a, seen |-> log], receipts |-> f.receipts]

\* The prepared files record the intent once, accepted and seen.
LEMMA IntentAdded ==
    ASSUME NEW f \in LocalFiles, NEW t \in Artifacts, NEW a \in Artifacts, NEW n,
           n = IF ContainsOperation(f, t) THEN AcceptTail(AcceptCandidate(f, a))
               ELSE AppendEvent(AcceptCandidate(f, a), Mutated(t))
    PROVE  n \in LocalFiles /\ Recorded(n, f, t, a)
<1>0. Mutated(t) \in Events
  BY EventsTyped
<1>1. PICK g \in LocalFiles :
        /\ g = AcceptCandidate(f, a)
        /\ g = [audit |-> f.audit, checkpoint |-> [accepted |-> a, seen |-> f.checkpoint.seen],
                receipts |-> f.receipts]
  BY <1>0, FilesMade
<1>2. g.audit = f.audit /\ g.checkpoint.accepted = a /\ g.receipts = f.receipts
  BY <1>1
<1>3. CASE ContainsOperation(f, t)
  <2>1. n = AcceptTail(g)
    BY <1>1, <1>3
  <2>2. /\ n \in LocalFiles
        /\ n = [audit |-> g.audit, checkpoint |-> [accepted |-> g.checkpoint.accepted, seen |-> g.audit],
                receipts |-> g.receipts]
    BY <1>0, <2>1, FilesMade, Zenon
  <2> QED BY <1>2, <1>3, <2>2 DEF Recorded
<1>4. CASE ~ContainsOperation(f, t)
  <2>1. n = AppendEvent(g, Mutated(t))
    BY <1>1, <1>4
  <2>2. /\ n \in LocalFiles
        /\ n = [audit |-> Append(g.audit, Mutated(t)),
                checkpoint |-> [accepted |-> g.checkpoint.accepted, seen |-> Append(g.audit, Mutated(t))],
                receipts |-> g.receipts]
    BY <1>0, <2>1, FilesMade, Zenon
  <2> QED BY <1>2, <1>4, <2>2 DEF Recorded
<1> QED BY <1>3, <1>4

\* The files of a commit: the intent is in the audit, once, and the target
\* is accepted.
LEMMA CommitFiles ==
    ASSUME NEW f \in LocalFiles, NEW t \in Artifacts, NEW n, Sane(f), UniqueIntents(f.audit),
           Extends(f.checkpoint.accepted, t), Recorded(n, f, t, t)
    PROVE  /\ n \in LocalFiles /\ Below(f, n) /\ n.checkpoint.seen = n.audit /\ UniqueIntents(n.audit)
           /\ n.checkpoint.accepted = t /\ ContainsOperation(n, t)
<1>1. f.audit \in Seq(Events) /\ f.receipts \in BOOLEAN /\ f.audit \in Audits
  BY DEF LocalFiles, Audits
<1>2. CASE ContainsOperation(f, t)
  <2>0. n = [audit |-> f.audit, checkpoint |-> [accepted |-> t, seen |-> f.audit], receipts |-> f.receipts]
    BY <1>2 DEF Recorded
  <2>1. n \in LocalFiles
    BY <1>1, <2>0 DEF LocalFiles, Checkpoints
  <2>2. Extends(f.audit, n.audit)
    BY <1>1, <2>0, ExtendsItself
  <2> QED BY <1>1, <1>2, <2>0, <2>1, <2>2 DEF Below, ContainsOperation
<1>3. CASE ~ContainsOperation(f, t)
  <2>1. Mutated(t) \in Events
    BY EventsTyped
  <2>2. PICK log \in Seq(Events) : log = Append(f.audit, Mutated(t)) /\ Extends(f.audit, log)
    BY <1>1, <2>1, AppendExtends, Zenon
  <2>3. Len(f.audit) + 1 \in DOMAIN log /\ log[Len(f.audit) + 1] = Mutated(t)
    BY <1>1, <2>1, <2>2
  <2>4. n = [audit |-> log, checkpoint |-> [accepted |-> t, seen |-> log], receipts |-> f.receipts]
    BY <1>3, <2>2 DEF Recorded
  <2>5. n \in LocalFiles
    BY <1>1, <2>4 DEF LocalFiles, Checkpoints, Audits
  <2>6. UniqueIntents(log)
    BY <1>1, <1>3, <2>1, <2>2, UniqueAppend DEF ContainsOperation
  <2> QED BY <2>2, <2>3, <2>4, <2>5, <2>6, Zenon DEF Below, ContainsOperation
<1> QED BY <1>2, <1>3

\* The first steps under the lock that prepare files of a principal by itself.
LEMMA PreparingSteps ==
    ASSUME CommitInvariant, NEW p \in Procs, StartInitialize(p) \/ StartAdvance(p) \/ StartEvent(p)
    PROVE  CommitInvariant'
<1> DEFINE q == Me(p)
           f == files[Me(p)]
<1>0. /\ TypeOK /\ cmd[p] \in Commands /\ f \in LocalFiles
      /\ catalog \in SUBSET Nat /\ revisions \in Seq(Nat)
      /\ cmd[p].base \in Artifacts
      /\ q \in Settled => WorkOK(cmd[p], f) /\ Sane(f) /\ UniqueIntents(f.audit)
  BY Zenon, Typed DEF CommitInvariant, TypeOK, Commands, FilesOK
<1>1. CASE StartInitialize(p)
  <2>1. PICK c : c = [cmd[p] EXCEPT !.pc = "audit", !.flow = "initialize", !.next = FreshFiles(cmd[p].base)]
    OBVIOUS
  <2>2. FreshFiles(cmd[p].base) \in LocalFiles
    BY <1>0, FirstFiles
  <2>3. /\ c \in Commands /\ c.pc = "audit" /\ c.flow = "initialize" /\ c.base = cmd[p].base
        /\ c.next = FreshFiles(cmd[p].base)
    BY <1>0, <2>1, <2>2, Zenon DEF Commands, Places, Holding, Publishing, Flows
  <2>4. /\ cmd' = [cmd EXCEPT ![p] = c] /\ UNCHANGED <<home, catalog, files, disk, revisions, published>>
        /\ lock = "free" /\ lock' = p
    BY <1>1, <2>1 DEF StartInitialize, TakeLock, Go
  <2>5. FlowOK(c) /\ InodeOK(c, home[c.home])
    BY ZenonT(60), <2>3 DEF FlowOK, InodeOK
  <2>6. ASSUME q \in Settled
        PROVE  NextOK(c, f) /\ IntentOK(c, disk.files[q]) /\ WorkOK(c, f)
    <3>1. f = NoFiles
      BY ZenonT(60), <1>0, <1>1, <2>6 DEF StartInitialize, At, WorkOK
    <3>2. Below(f, c.next) /\ UniqueIntents(c.next.audit)
      BY <1>0, <2>3, <3>1, FirstFiles
    <3>3. c.next.checkpoint.seen = c.next.audit /\ c.next.checkpoint.accepted = c.base
      BY <2>3 DEF FreshFiles
    <3> QED BY <2>3, <3>1, <3>2, <3>3 DEF NextOK, IntentOK, WorkOK, Covered
  <2> QED BY <1>0, <2>3, <2>4, <2>5, <2>6, QuietMoves, Zenon
<1>2. CASE StartAdvance(p)
  <2>1. PICK n : n = AcceptCandidate(AcceptTail(f), cmd[p].base)
    OBVIOUS
  <2>2. /\ n = [audit |-> f.audit, checkpoint |-> [accepted |-> cmd[p].base, seen |-> f.audit],
                receipts |-> f.receipts]
        /\ n \in LocalFiles
    <3>1. Operational \in Events
      BY <1>0, EventsTyped
    <3>2. PICK g \in LocalFiles :
             /\ g = AcceptTail(f)
             /\ g = [audit |-> f.audit,
                     checkpoint |-> [accepted |-> f.checkpoint.accepted, seen |-> f.audit],
                     receipts |-> f.receipts]
      BY <1>0, <3>1, FilesMade, Zenon
    <3>3. /\ AcceptCandidate(g, cmd[p].base) =
               [audit |-> g.audit, checkpoint |-> [accepted |-> cmd[p].base, seen |-> g.checkpoint.seen],
                receipts |-> g.receipts]
          /\ AcceptCandidate(g, cmd[p].base) \in LocalFiles
      BY Zenon, <1>0, <3>1, FilesMade
    <3> QED BY <2>1, <3>2, <3>3
  <2>3. PICK c : c = [cmd[p] EXCEPT !.pc = "checkpoint", !.flow = "advance", !.next = n]
    OBVIOUS
  <2>4. /\ c \in Commands /\ c.pc = "checkpoint" /\ c.flow = "advance" /\ c.base = cmd[p].base
        /\ c.next = n
    BY <1>0, <2>2, <2>3, Zenon DEF Commands, Places, Holding, Publishing, Flows
  <2>5. /\ cmd' = [cmd EXCEPT ![p] = c] /\ UNCHANGED <<home, catalog, files, disk, revisions, published>>
        /\ lock = "free" /\ lock' = p
    BY <1>2, <2>1, <2>3 DEF StartAdvance, TakeLock, Go
  <2>6. FlowOK(c) /\ InodeOK(c, home[c.home])
    BY <2>4 DEF FlowOK, InodeOK
  <2>7. ASSUME q \in Settled
        PROVE  NextOK(c, f) /\ IntentOK(c, disk.files[q]) /\ WorkOK(c, f)
    <3>1. Extends(f.checkpoint.accepted, cmd[p].base)
      BY <1>0, <1>2, RelationExtends DEF StartAdvance
    <3>2. Extends(f.audit, f.audit)
      BY <1>0, ExtendsItself DEF LocalFiles, Audits
    <3>3. Below(f, n)
      BY ZenonT(60), <2>2, <3>1, <3>2 DEF Below
    <3>4. NextOK(c, f)
      BY <1>0, <2>2, <2>4, <2>7, <3>3 DEF NextOK
    <3>5. IntentOK(c, disk.files[q])
      BY <2>4 DEF IntentOK
    <3>6. WorkOK(c, f)
      BY <2>4 DEF WorkOK, Covered
    <3> QED BY <3>4, <3>5, <3>6
  <2> QED BY <1>0, <2>4, <2>5, <2>6, <2>7, QuietMoves, Zenon
<1>3. CASE StartEvent(p)
  <2>0. Operational \in Events /\ Operational.kind # "mutate"
    BY <1>0, EventsTyped DEF Operational
  <2>1. PICK n : n = AppendEvent(f, Operational)
    OBVIOUS
  <2>2. PICK log \in Seq(Events) : log = Append(f.audit, Operational) /\ Extends(f.audit, log)
    BY <1>0, <2>0, AppendExtends, Zenon DEF LocalFiles, Audits
  <2>3. /\ n = [audit |-> log, checkpoint |-> [accepted |-> f.checkpoint.accepted, seen |-> log],
                receipts |-> f.receipts]
        /\ n \in LocalFiles
    BY <1>0, <2>0, <2>1, <2>2, FilesMade, Zenon
  <2>4. PICK c : c = [cmd[p] EXCEPT !.pc = "audit", !.flow = "event", !.next = n]
    OBVIOUS
  <2>5. /\ c \in Commands /\ c.pc = "audit" /\ c.flow = "event" /\ c.base = cmd[p].base
        /\ c.next = n
    BY <1>0, <2>3, <2>4, Zenon DEF Commands, Places, Holding, Publishing, Flows
  <2>6. /\ cmd' = [cmd EXCEPT ![p] = c] /\ UNCHANGED <<home, catalog, files, disk, revisions, published>>
        /\ lock = "free" /\ lock' = p /\ cmd[p].pc = "ready"
    BY <1>3, <2>1, <2>4 DEF StartEvent, TakeLock, Go, At
  <2>7. FlowOK(c) /\ InodeOK(c, home[c.home])
    BY <2>5 DEF FlowOK, InodeOK
  <2>8. ASSUME q \in Settled
        PROVE  NextOK(c, f) /\ IntentOK(c, disk.files[q]) /\ WorkOK(c, f)
    <3>1. Extends(f.checkpoint.accepted, f.checkpoint.accepted)
      BY <1>0, ExtendsItself DEF LocalFiles, Checkpoints, Artifacts
    <3>2. Below(f, n)
      BY ZenonT(60), <2>2, <2>3, <3>1 DEF Below
    <3>3. UniqueIntents(log)
      BY ZenonT(60), <1>0, <2>0, <2>2, <2>8, UniqueAppend DEF LocalFiles
    <3>4. Extends(c.base, f.checkpoint.accepted)
      BY ZenonT(60), <1>0, <2>5, <2>6, <2>8 DEF WorkOK, Covered
    <3>5. NextOK(c, f)
      BY <2>3, <2>5, <3>2, <3>3 DEF NextOK
    <3>6. IntentOK(c, disk.files[q])
      BY <2>5 DEF IntentOK
    <3>7. WorkOK(c, f)
      BY <2>5, <3>4 DEF WorkOK, Covered
    <3> QED BY <3>5, <3>6, <3>7
  <2> QED BY <1>0, <2>5, <2>6, <2>7, <2>8, QuietMoves, Zenon
<1> QED BY <1>1, <1>2, <1>3

\* A command that returns the lock ends, or keeps its plan; either way it
\* asks nothing of the files but that they stay where they are or move on.
LEMMA Returned ==
    ASSUME CommitInvariant, NEW p \in Procs, Return(p), cmd[p].pc \in Holding
    PROVE  \E c \in Commands :
             /\ cmd' = [cmd EXCEPT ![p] = c] /\ lock = p /\ lock' = "free"
             /\ c.pc \notin Holding /\ FlowOK(c)
             /\ \A h : InodeOK(c, h)
             /\ \A d : IntentOK(c, d)
             /\ Me(p) \in Settled =>
                  \A g \in LocalFiles : Below(files[Me(p)], g) => NextOK(c, g) /\ WorkOK(c, g)
<1>0. /\ TypeOK /\ cmd[p] \in Commands /\ lock = p /\ files[Me(p)] \in LocalFiles
      /\ FlowOK(cmd[p])
      /\ Me(p) \in Settled => WorkOK(cmd[p], files[Me(p)])
  BY Typed DEF CommitInvariant
<1>1. CASE Go(p, Idle)
  BY <1>0, <1>1, IdleTyped, AtRest, Zenon DEF Go, Return
<1>2. CASE /\ cmd[p].flow \in {"commit", "reconcile"}
           /\ Go(p, [cmd[p] EXCEPT !.pc = "planned", !.flow = "commit", !.inode = 0,
                                   !.update = FALSE, !.next = NoFiles])
  <2>1. PICK c : c = [cmd[p] EXCEPT !.pc = "planned", !.flow = "commit", !.inode = 0,
                                    !.update = FALSE, !.next = NoFiles]
    OBVIOUS
  <2>2. NoFiles \in LocalFiles
    BY <1>0, FirstFiles DEF Commands
  <2>3. /\ c \in Commands /\ c.pc = "planned" /\ c.flow = "commit" /\ c.base = cmd[p].base
        /\ c.target = cmd[p].target
    BY <1>0, <2>1, <2>2, Zenon DEF Commands, Places, Flows
  <2>4. cmd' = [cmd EXCEPT ![p] = c] /\ lock' = "free"
    BY <1>2, <2>1 DEF Go, Return
  <2>5. c.pc \notin Holding /\ FlowOK(c) /\ (\A h : InodeOK(c, h)) /\ \A d : IntentOK(c, d)
    BY ZenonT(60), <1>0, <1>2, <2>3 DEF Holding, Publishing, FlowOK, InodeOK, IntentOK
  <2>6. ASSUME Me(p) \in Settled, NEW g \in LocalFiles, Below(files[Me(p)], g)
        PROVE  NextOK(c, g) /\ WorkOK(c, g)
    <3>1. Covered(cmd[p])
      BY <1>2 DEF Covered, Holding, Publishing
    <3>2. Extends(c.base, files[Me(p)].checkpoint.accepted)
      BY ZenonT(60), <1>0, <1>2, <2>3, <2>6, <3>1 DEF WorkOK
    <3>3. /\ c.base \in Seq(Nat) /\ files[Me(p)].checkpoint.accepted \in Seq(Nat)
          /\ g.checkpoint.accepted \in Seq(Nat)
      BY <1>0, <2>3 DEF Commands, LocalFiles, Checkpoints, Artifacts
    <3>4. Extends(c.base, g.checkpoint.accepted)
      BY <2>6, <3>2, <3>3, ExtendsTransitively DEF Below
    <3> QED BY <2>3, <3>2, <3>4 DEF NextOK, WorkOK, Publishing
  <2> QED BY <1>0, <2>3, <2>4, <2>5, <2>6, Zenon
<1> QED BY ZenonT(60), <1>1, <1>2 DEF Return

\* A command that returns the lock and moves neither local files nor an artifact.
LEMMA QuietReturn ==
    ASSUME CommitInvariant, NEW p \in Procs, Return(p), cmd[p].pc \in Holding,
           UNCHANGED <<files, home, published, revisions>>, catalog' \in SUBSET Nat,
           disk' = disk \/ \E k \in SUBSET Nat : disk' = [disk EXCEPT !.catalog = k]
    PROVE  CommitInvariant'
<1>1. /\ TypeOK /\ files[Me(p)] \in LocalFiles /\ revisions' \in Seq(Nat)
      /\ disk' \in Disks /\ disk'.files = disk.files
  BY Typed, Zenon DEF CommitInvariant, TypeOK, Disks
<1>2. Below(files[Me(p)], files[Me(p)])
  BY <1>1, BelowItself
<1>3. PICK c \in Commands :
        /\ cmd' = [cmd EXCEPT ![p] = c] /\ lock = p /\ lock' = "free"
        /\ c.pc \notin Holding /\ FlowOK(c) /\ InodeOK(c, home[c.home])
        /\ IntentOK(c, disk.files[Me(p)])
        /\ Me(p) \in Settled => NextOK(c, files[Me(p)]) /\ WorkOK(c, files[Me(p)])
  BY <1>1, <1>2, Returned
<1> QED BY <1>1, <1>3, CatalogMoves, Zenon

\* What Git or a transfer brings is an artifact.
LEMMA KnownTyped == ASSUME TypeOK, NEW a \in Known PROVE a \in Artifacts
<1>1. CASE a = <<>>
  BY <1>1 DEF Artifacts
<1>2. CASE a # <<>>
  <2>1. PICK w \in published : a = w[2]
    BY <1>2 DEF Known
  <2>2. w \in Principals \X Artifacts
    BY <2>1 DEF TypeOK
  <2> QED BY <2>1, <2>2
<1> QED BY <1>1, <1>2

\* Planning.
LEMMA PlanningSteps ==
    ASSUME CommitInvariant, NEW p \in Procs,
           (\E w \in 0 .. MaxRevisions : PlanMutation(p, w)) \/ \E a \in Known : PlanImport(p, a)
    PROVE  CommitInvariant'
<1> DEFINE q == Me(p)
           f == files[Me(p)]
<1>0. /\ TypeOK /\ cmd[p] \in Commands /\ f \in LocalFiles
      /\ catalog \in SUBSET Nat /\ revisions \in Seq(Nat)
      /\ cmd[p].base \in Artifacts /\ cmd[p].cat \in SUBSET Nat
      /\ home[cmd[p].home].git \in Nat
      /\ q \in Settled => WorkOK(cmd[p], f)
  BY Zenon, Typed DEF CommitInvariant, TypeOK, Commands
<1>1. \A a : Uses(a) \in SUBSET Nat
  BY <1>0 DEF Uses
<1>2. ASSUME NEW target \in Artifacts, NEW cats \in SUBSET Nat, Plan(p, target, cats), At(p, "ready"),
             Extends(cmd[p].base, target), revisions' \in Seq(Nat),
             UNCHANGED <<home, catalog, files, disk, lock, published>>
      PROVE  CommitInvariant'
  <2>1. PICK c : c = [cmd[p] EXCEPT !.pc = "planned", !.flow = "commit", !.git = home[cmd[p].home].git,
                                    !.target = target, !.catTarget = cats]
    OBVIOUS
  <2>2. c \in Commands /\ c.pc = "planned" /\ c.flow = "commit" /\ c.base = cmd[p].base /\ c.target = target
    BY <1>0, <2>1, Zenon DEF Commands, Places, Flows
  <2>3. cmd' = [cmd EXCEPT ![p] = c]
    BY ZenonT(60), <1>2, <2>1 DEF Plan, Go
  <2>4. /\ c.pc \notin Holding /\ FlowOK(c) /\ InodeOK(c, home[c.home])
        /\ NextOK(c, f) /\ IntentOK(c, disk.files[Me(p)])
    BY <1>2, <2>2 DEF Holding, Publishing, FlowOK, NextOK, IntentOK, InodeOK
  <2>5. q \in Settled => WorkOK(c, f)
    BY ZenonT(60), <1>0, <1>2, <2>2 DEF WorkOK, Covered, At
  <2> QED BY <1>0, <1>2, <2>2, <2>3, <2>4, <2>5, QuietMoves, Zenon
<1>3. ASSUME NEW w \in 0 .. MaxRevisions, PlanMutation(p, w) PROVE CommitInvariant'
  <2>1. PICK i \in Nat : i = Len(revisions) + 1
    BY <1>0
  <2>2. PICK target \in Artifacts : target = Append(cmd[p].base, i) /\ Extends(cmd[p].base, target)
    BY <1>0, AppendExtends, Zenon DEF Artifacts
  <2>3. PICK cats \in SUBSET Nat : cats = IF w = i THEN Uses(cmd[p].base) \cup {i} ELSE cmd[p].cat
    BY <1>0, <1>1, ZenonT(30)
  <2>4. revisions' \in Seq(Nat)
    <3>1. Append(revisions, w) \in Seq(Nat)
      BY <1>0, <1>3
    <3>2. revisions' = Append(revisions, w)
      BY Zenon, <1>3 DEF PlanMutation
    <3> QED BY Zenon, <3>1, <3>2
  <2> QED BY ZenonT(60), <1>2, <1>3, <2>1, <2>2, <2>3, <2>4 DEF PlanMutation
<1>4. ASSUME NEW a \in Known, PlanImport(p, a) PROVE CommitInvariant'
  <2>1. a \in Artifacts
    BY <1>0, KnownTyped
  <2>2. PICK cats \in SUBSET Nat : cats = cmd[p].cat \cup Uses(a)
    BY <1>0, <1>1, Zenon
  <2> QED BY ZenonT(30), <1>0, <1>2, <1>4, <2>1, <2>2 DEF PlanImport
<1> QED BY <1>3, <1>4

\* A number is at most itself: the inode a command has just read is at most
\* the one in its home.
LEMMA LeqItself == \A n \in Nat : n <= n
  OBVIOUS

\* Taking the lock, and the comparisons that publish nothing.
LEMMA ComparingSteps ==
    ASSUME CommitInvariant, NEW p \in Procs,
           Acquire(p) \/ Abandon(p) \/ GitMoved(p) \/ Validate(p) \/ SharedFailed(p)
    PROVE  CommitInvariant'
<1> DEFINE q == Me(p)
           f == files[Me(p)]
<1>0. /\ TypeOK /\ cmd[p] \in Commands /\ f \in LocalFiles
      /\ catalog \in SUBSET Nat /\ revisions \in Seq(Nat)
      /\ home[cmd[p].home].inode \in Nat
      /\ FlowOK(cmd[p]) /\ InodeOK(cmd[p], home[cmd[p].home]) /\ (cmd[p].pc \in Holding => lock = p)
      /\ q \in Settled => WorkOK(cmd[p], f) /\ NextOK(cmd[p], f) /\ IntentOK(cmd[p], disk.files[q])
  BY Typed DEF CommitInvariant, TypeOK
<1>1. CASE Acquire(p)
  <2>1. PICK c : c = [cmd[p] EXCEPT !.pc = "previewed", !.inode = home[cmd[p].home].inode,
                                    !.update = cmd[p].cat # cmd[p].catTarget /\ catalog # cmd[p].catTarget]
    OBVIOUS
  <2>2. /\ c \in Commands /\ c.pc = "previewed" /\ c.flow = cmd[p].flow /\ c.base = cmd[p].base
        /\ c.target = cmd[p].target /\ c.home = cmd[p].home /\ c.inode = home[cmd[p].home].inode
    BY <1>0, <2>1, ZenonT(30) DEF Commands, Places, Holding
  <2>3. /\ cmd' = [cmd EXCEPT ![p] = c] /\ lock = "free" /\ lock' = p /\ cmd[p].pc = "planned"
        /\ UNCHANGED <<home, catalog, files, disk, revisions, published>>
    BY <1>1, <2>1 DEF Acquire, TakeLock, Go, At
  <2>4. FlowOK(c) /\ InodeOK(c, home[c.home])
    <3>0. c.inode <= home[c.home].inode
      BY <1>0, <2>2, LeqItself, Zenon
    <3>1. InodeOK(c, home[c.home])
      BY <2>2, <3>0, Zenon DEF InodeOK
    <3>2. FlowOK(c)
      BY <1>0, <2>2, <2>3, Zenon DEF FlowOK, Holding
    <3> QED BY <3>1, <3>2, Zenon
  <2>5. q \in Settled => NextOK(c, f) /\ IntentOK(c, disk.files[q]) /\ WorkOK(c, f)
    BY Zenon, <1>0, <2>2, <2>3 DEF FlowOK, NextOK, IntentOK, WorkOK, Covered, Publishing, Holding
  <2> QED BY <1>0, <2>2, <2>3, <2>4, <2>5, QuietMoves, Zenon
<1>2. CASE Abandon(p)
  <2>1. cmd[p].pc \in Holding
    BY Zenon, <1>2 DEF Abandon, Holding, Publishing
  <2> QED BY Zenon, <1>0, <1>2, <2>1, QuietReturn DEF Abandon
<1>3. CASE GitMoved(p)
  <2>1. cmd[p].pc \in Holding
    BY ZenonT(60), <1>3 DEF GitMoved, Holding, Publishing, At
  <2> QED BY ZenonT(60), <1>0, <1>3, <2>1, QuietReturn DEF GitMoved
<1>4. ASSUME NEW pc \in {"rename", "restore"}, Step(p, pc), cmd[p].pc \in {"validate", "rename"},
             UNCHANGED <<home, catalog, files, disk, lock, revisions, published>>
      PROVE  CommitInvariant'
  <2>1. PICK c : c = [cmd[p] EXCEPT !.pc = pc]
    BY Zenon
  <2>2. /\ c \in Commands /\ c.pc = pc /\ c.flow = cmd[p].flow /\ c.base = cmd[p].base
        /\ c.target = cmd[p].target /\ c.home = cmd[p].home /\ c.inode = cmd[p].inode /\ c.next = cmd[p].next
    BY Zenon, <1>0, <2>1 DEF Commands, Places, Holding, Publishing
  <2>3. cmd' = [cmd EXCEPT ![p] = c] /\ lock = p
    BY <1>0, <1>4, <2>1 DEF Step, Go, Holding, Publishing
  <2>4. FlowOK(c) /\ InodeOK(c, home[c.home])
    BY Zenon, <1>0, <1>4, <2>2 DEF FlowOK, InodeOK, Holding, Publishing
  <2>5. q \in Settled => NextOK(c, f)
    BY ZenonT(30), <1>0, <1>4, <2>2 DEF FlowOK, NextOK, Publishing
  <2>6. q \in Settled => IntentOK(c, disk.files[q]) /\ WorkOK(c, f)
    BY ZenonT(30), <1>0, <1>4, <2>2 DEF FlowOK, IntentOK, WorkOK, Covered, Holding, Publishing
  <2> QED BY <1>0, <1>4, <2>2, <2>3, <2>4, <2>5, <2>6, QuietMoves, Zenon
<1>5. CASE Validate(p)
  BY Zenon, <1>4, <1>5 DEF Validate, At
<1>6. CASE SharedFailed(p)
  <2>1. /\ cmd[p].pc \in {"validate", "rename"} /\ cmd[p].pc \in Holding
        /\ UNCHANGED <<home, catalog, files, disk, revisions, published>>
        /\ (Step(p, "restore") /\ lock' = lock) \/ Return(p)
    BY <1>6 DEF SharedFailed, At, Holding, Publishing
  <2> QED BY <1>0, <1>4, <2>1, QuietReturn
<1> QED BY <1>1, <1>2, <1>3, <1>5, <1>6

\* The comparisons that prepare what a commit will publish.
LEMMA ExaminingSteps ==
    ASSUME CommitInvariant, NEW p \in Procs, Examine(p) \/ ExamineTarget(p)
    PROVE  CommitInvariant'
<1> DEFINE q == Me(p)
           f == files[Me(p)]
           t == cmd[p].target
<1>0. /\ TypeOK /\ cmd[p] \in Commands /\ f \in LocalFiles
      /\ catalog \in SUBSET Nat /\ revisions \in Seq(Nat)
      /\ t \in Artifacts /\ cmd[p].base \in Artifacts /\ Mutated(t) \in Events
      /\ cmd[p].pc = "previewed" /\ lock = p /\ cmd[p].flow = "commit" /\ Extends(cmd[p].base, t)
      /\ InodeOK(cmd[p], home[cmd[p].home])
      /\ home[cmd[p].home].inode \in Nat
      /\ q \in Settled => WorkOK(cmd[p], f) /\ FilesOK(q, f, disk.files[q])
  BY Zenon, Typed, EventsTyped DEF CommitInvariant, TypeOK, Commands, Examine, ExamineTarget, At, FlowOK, Holding
<1>2. CASE Examine(p)
  <2>1. PICK a \in Artifacts : a = home[cmd[p].home].art /\ a = cmd[p].base
    BY ZenonT(60), <1>0, <1>2 DEF Examine
  <2>2. ContainsOperation(AcceptCandidate(f, a), t) <=> ContainsOperation(f, t)
    <3>1. PICK g : g = AcceptCandidate(f, a)
      OBVIOUS
    <3>2. g = [audit |-> f.audit, checkpoint |-> [accepted |-> a, seen |-> f.checkpoint.seen],
               receipts |-> f.receipts]
      BY <1>0, <3>1, FilesMade, Zenon
    <3>3. g.audit = f.audit
      BY <3>2
    <3> QED BY <3>1, <3>3 DEF ContainsOperation
  <2>3. PICK m : m = IF ContainsOperation(f, t) THEN AcceptTail(AcceptCandidate(f, a))
                     ELSE AppendEvent(AcceptCandidate(f, a), Mutated(t))
    OBVIOUS
  <2>4. PICK n : n = AcceptCandidate(m, t)
    BY ZenonT(60)
  <2>5. m \in LocalFiles /\ Recorded(m, f, t, a)
    BY <1>0, <2>3, IntentAdded
  <2>6. n \in LocalFiles /\ Recorded(n, f, t, t)
    <3>1. /\ n \in LocalFiles
          /\ n = [audit |-> m.audit, checkpoint |-> [accepted |-> t, seen |-> m.checkpoint.seen],
                  receipts |-> m.receipts]
      BY <1>0, <2>4, <2>5, FilesMade, Zenon
    <3>2. PICK log : /\ log = IF ContainsOperation(f, t) THEN f.audit ELSE Append(f.audit, Mutated(t))
                     /\ m = [audit |-> log, checkpoint |-> [accepted |-> a, seen |-> log],
                             receipts |-> f.receipts]
      BY <2>5, Zenon DEF Recorded
    <3>3. m.audit = log /\ m.checkpoint.seen = log /\ m.receipts = f.receipts
      BY <3>2
    <3> QED BY <3>1, <3>2, <3>3, Zenon DEF Recorded
  <2>7. PICK c : c = [cmd[p] EXCEPT !.pc = "audit", !.next = n]
    OBVIOUS
  <2>8. /\ c \in Commands /\ c.pc = "audit" /\ c.flow = "commit" /\ c.base = cmd[p].base /\ c.target = t
        /\ c.next = n /\ c.home = cmd[p].home /\ c.inode = cmd[p].inode
    BY <1>0, <2>6, <2>7, Zenon DEF Commands, Places, Holding, Publishing
  <2>9. /\ cmd' = [cmd EXCEPT ![p] = c] /\ Relation(f, a) # "divergent"
        /\ UNCHANGED <<home, catalog, files, disk, lock, revisions, published>>
    BY <1>2, <2>1, <2>2, <2>3, <2>4, <2>7, Zenon DEF Examine, Go
  <2>10. FlowOK(c) /\ InodeOK(c, home[c.home])
    BY <1>0, <2>1, <2>8, Zenon DEF FlowOK, InodeOK
  <2>11. ASSUME q \in Settled PROVE NextOK(c, f) /\ IntentOK(c, disk.files[q]) /\ WorkOK(c, f)
    <3>1. Extends(f.checkpoint.accepted, a) /\ Extends(a, t)
      BY <1>0, <2>1, <2>9, RelationExtends
    <3>2. Extends(f.checkpoint.accepted, t)
      <4>1. f.checkpoint.accepted \in Seq(Nat) /\ a \in Seq(Nat) /\ t \in Seq(Nat)
        BY Zenon, <1>0 DEF LocalFiles, Checkpoints, Artifacts
      <4> QED BY Zenon, <3>1, <4>1, ExtendsTransitively
    <3>3. Sane(f) /\ UniqueIntents(f.audit)
      BY ZenonT(60), <1>0, <2>11 DEF FilesOK
    <3>4. /\ Below(f, n) /\ n.checkpoint.seen = n.audit /\ UniqueIntents(n.audit)
          /\ n.checkpoint.accepted = t /\ ContainsOperation(n, t)
      <4> HIDE DEF f, t, q
      <4> QED BY ZenonT(60), <1>0, <2>6, <3>2, <3>3, CommitFiles
    <3>5. NextOK(c, f) /\ IntentOK(c, disk.files[q])
      BY Zenon, <2>8, <3>4 DEF NextOK, IntentOK
    <3>6. WorkOK(c, f)
      BY <1>0, <2>8, <2>11 DEF WorkOK, Covered, Holding
    <3> QED BY ZenonT(60), <3>5, <3>6
  <2> QED BY <1>0, <2>8, <2>9, <2>10, <2>11, QuietMoves, Zenon
<1>3. CASE ExamineTarget(p)
  <2>1. PICK n : n = IF ContainsOperation(f, t) THEN AcceptTail(AcceptCandidate(f, t))
                     ELSE AppendEvent(AcceptCandidate(f, t), Mutated(t))
    BY ZenonT(60)
  <2>2. n \in LocalFiles /\ Recorded(n, f, t, t)
    BY ZenonT(60), <1>0, <2>1, IntentAdded
  <2>3. PICK c : c = [cmd[p] EXCEPT !.pc = "catalog", !.flow = "reconcile", !.next = n]
    OBVIOUS
  <2>4. /\ c \in Commands /\ c.pc = "catalog" /\ c.flow = "reconcile" /\ c.base = cmd[p].base /\ c.target = t
        /\ c.next = n
    BY <1>0, <2>2, <2>3, Zenon DEF Commands, Places, Holding, Publishing, Flows
  <2>5. /\ cmd' = [cmd EXCEPT ![p] = c] /\ Relation(f, t) # "divergent"
        /\ UNCHANGED <<home, catalog, files, disk, lock, revisions, published>>
    BY <1>3, <2>1, <2>3, ZenonT(30) DEF ExamineTarget, Go
  <2>6. FlowOK(c) /\ InodeOK(c, home[c.home])
    BY <1>0, <2>4 DEF FlowOK, InodeOK
  <2>7. ASSUME q \in Settled PROVE NextOK(c, f) /\ IntentOK(c, disk.files[q]) /\ WorkOK(c, f)
    <3>1. Extends(f.checkpoint.accepted, t)
      BY Zenon, <1>0, <2>5, RelationExtends
    <3>2. Sane(f) /\ UniqueIntents(f.audit)
      BY Zenon, <1>0, <2>7 DEF FilesOK
    <3>3. /\ Below(f, n) /\ n.checkpoint.seen = n.audit /\ UniqueIntents(n.audit)
          /\ n.checkpoint.accepted = t
      <4> HIDE DEF f, t, q
      <4> QED BY ZenonT(30), <1>0, <2>2, <3>1, <3>2, CommitFiles
    <3>4. NextOK(c, f) /\ IntentOK(c, disk.files[q])
      BY Zenon, <2>4, <3>3 DEF NextOK, IntentOK
    <3>5. WorkOK(c, f)
      BY Zenon, <1>0, <2>4, <2>7 DEF WorkOK, Covered, Holding
    <3> QED BY Zenon, <3>4, <3>5
  <2> QED BY <1>0, <2>4, <2>5, <2>6, <2>7, QuietMoves, Zenon
<1> QED BY <1>2, <1>3

\* The publication of one prepared file, synced, unsynced or failed.
LEMMA FilePublished ==
    ASSUME CommitInvariant, NEW p \in Procs, NEW k \in {"audit", "checkpoint", "receipts"}, cmd[p].pc = k,
           PublishedAndSynced(p, k) \/ PublishedUnsynced(p, k) \/ NotPublished
    PROVE  \E g \in LocalFiles :
             /\ files' = [files EXCEPT ![Me(p)] = g] /\ disk' \in Disks
             /\ disk'.files \in {disk.files, [disk.files EXCEPT ![Me(p)] = g]}
             /\ PublishedAndSynced(p, k) => g = Replaced(p, k) /\ disk'.files[Me(p)] = g
             /\ Me(p) \in Settled =>
                  /\ Sane(g) /\ Below(files[Me(p)], g) /\ Below(g, cmd[p].next) /\ UniqueIntents(g.audit)
                  /\ Complete(files[Me(p)]) => Complete(g)
<1> DEFINE q == Me(p)
           f == files[Me(p)]
           n == cmd[p].next
<1>0. /\ TypeOK /\ q \in Principals /\ f \in LocalFiles /\ n \in LocalFiles
      /\ files \in [Principals -> LocalFiles] /\ disk \in Disks
      /\ q \in Settled => NextOK(cmd[p], f) /\ FilesOK(q, f, disk.files[q])
  BY ZenonT(60), Typed DEF CommitInvariant, TypeOK, Commands, Disks
<1>1. ASSUME q \in Settled
      PROVE  /\ Below(f, n) /\ n.checkpoint.seen = n.audit /\ UniqueIntents(n.audit)
             /\ Sane(f) /\ UniqueIntents(f.audit) /\ (k = "checkpoint" => f.audit = n.audit)
  BY <1>0, <1>1 DEF NextOK, FilesOK, Publishing
<1>2. CASE NotPublished
  <2>1. files' = [files EXCEPT ![q] = f] /\ disk' = disk
    BY <1>0, <1>2 DEF NotPublished
  <2>2. Below(f, f)
    BY <1>0, BelowItself
  <2>3. PublishedAndSynced(p, k) => f = Replaced(p, k) /\ disk'.files[q] = f
    <3>1. SUFFICES ASSUME PublishedAndSynced(p, k) PROVE f = Replaced(p, k) /\ disk'.files[q] = f
      OBVIOUS
    <3>2. files' = files /\ files' = [files EXCEPT ![q] = Replaced(p, k)]
          /\ disk' = [disk EXCEPT !.files[q] = Replaced(p, k)]
      BY <1>2, <3>1, Zenon DEF PublishedAndSynced, NotPublished
    <3>3. f = Replaced(p, k)
      BY <1>0, <3>2
    <3>4. disk'.files[q] = Replaced(p, k)
      BY <1>0, <3>2 DEF Disks
    <3> QED BY <3>3, <3>4
  <2> QED BY <1>0, <1>1, <2>1, <2>2, <2>3, ZenonT(60)
<1>3. CASE PublishedAndSynced(p, k) \/ PublishedUnsynced(p, k)
  <2>1. PICK g : g = Replaced(p, k)
    OBVIOUS
  <2>2. g = [f EXCEPT ![k] = n[k]]
    BY ZenonT(60), <2>1 DEF Replaced
  <2>3. g \in LocalFiles
    BY <1>0, <2>2 DEF LocalFiles
  <2>4. /\ files' = [files EXCEPT ![q] = g]
        /\ disk' = disk \/ disk' = [disk EXCEPT !.files[q] = g]
        /\ PublishedAndSynced(p, k) => disk' = [disk EXCEPT !.files[q] = g]
    BY <1>3, <2>1 DEF PublishedAndSynced, PublishedUnsynced
  <2>5. disk' \in Disks /\ disk'.files \in {disk.files, [disk.files EXCEPT ![q] = g]}
    BY <1>0, <2>3, <2>4 DEF Disks
  <2>6. PublishedAndSynced(p, k) => disk'.files[q] = g
    BY <1>0, <2>4 DEF Disks
  <2>7. ASSUME q \in Settled
        PROVE  /\ Sane(g) /\ Below(f, g) /\ Below(g, n) /\ UniqueIntents(g.audit)
               /\ Complete(f) => Complete(g)
    <3>1. /\ Below(f, n) /\ n.checkpoint.seen = n.audit /\ UniqueIntents(n.audit)
          /\ Sane(f) /\ UniqueIntents(f.audit) /\ (k = "checkpoint" => f.audit = n.audit)
      BY <1>1, <2>7
    <3> HIDE DEF f, n, q
    <3> QED BY <1>0, <2>2, <3>1, OneFileForward, ZenonT(60)
  <2> QED BY <2>1, <2>3, <2>4, <2>5, <2>6, <2>7, Zenon
<1> QED BY <1>2, <1>3

\* A publication after which the command returns.
LEMMA PublishedReturns ==
    ASSUME CommitInvariant, NEW p \in Procs, NEW k \in {"audit", "checkpoint", "receipts"}, cmd[p].pc = k,
           PublishedAndSynced(p, k) \/ PublishedUnsynced(p, k) \/ NotPublished,
           Return(p), UNCHANGED <<home, catalog, revisions, published>>
    PROVE  CommitInvariant'
<1>0. catalog' \in SUBSET Nat /\ revisions' \in Seq(Nat) /\ cmd[p].pc \in Holding
  BY Zenon DEF CommitInvariant, TypeOK, Holding, Publishing
<1>1. PICK g \in LocalFiles :
         /\ files' = [files EXCEPT ![Me(p)] = g] /\ disk' \in Disks
         /\ disk'.files \in {disk.files, [disk.files EXCEPT ![Me(p)] = g]}
         /\ Me(p) \in Settled =>
              /\ Sane(g) /\ Below(files[Me(p)], g) /\ UniqueIntents(g.audit)
              /\ Complete(files[Me(p)]) => Complete(g)
  BY FilePublished, ZenonT(60)
<1>2. PICK c \in Commands :
        /\ cmd' = [cmd EXCEPT ![p] = c] /\ lock = p /\ lock' = "free"
        /\ c.pc \notin Holding /\ FlowOK(c) /\ InodeOK(c, home[c.home])
        /\ IntentOK(c, disk'.files[Me(p)])
        /\ Me(p) \in Settled => NextOK(c, g) /\ WorkOK(c, g)
  BY <1>0, <1>1, Returned, Zenon
<1> QED BY <1>0, <1>1, <1>2, CommandMoves, Zenon

\* The publications of local files.
LEMMA PublicationSteps ==
    ASSUME CommitInvariant, NEW p \in Procs, PublishAudit(p) \/ PublishCheckpoint(p) \/ PublishReceipts(p)
    PROVE  CommitInvariant'
<1> DEFINE q == Me(p)
           f == files[Me(p)]
           n == cmd[p].next
<1>0. /\ TypeOK /\ cmd[p] \in Commands /\ f \in LocalFiles /\ n \in LocalFiles
      /\ catalog \in SUBSET Nat /\ revisions \in Seq(Nat)
      /\ FlowOK(cmd[p]) /\ InodeOK(cmd[p], home[cmd[p].home]) /\ (cmd[p].pc \in Holding => lock = p)
      /\ q \in Settled => WorkOK(cmd[p], f) /\ NextOK(cmd[p], f) /\ IntentOK(cmd[p], disk.files[q])
  BY Typed, Zenon DEF CommitInvariant, TypeOK, Commands
<1>1. ASSUME NEW k \in {"audit", "checkpoint", "receipts"}, cmd[p].pc = k, PublishedAndSynced(p, k),
             NEW pc \in Places, Step(p, pc), lock' = IF pc \in Holding THEN lock ELSE "free",
             UNCHANGED <<home, catalog, revisions, published>>,
             \/ k = "audit" /\ pc = IF cmd[p].flow = "commit" THEN "catalog" ELSE "checkpoint"
             \/ k = "checkpoint" /\ cmd[p].flow = "advance" /\ pc = "ready"
             \/ k = "checkpoint" /\ cmd[p].flow = "initialize" /\ pc = "receipts"
             \/ k = "receipts" /\ pc = "ready"
      PROVE  CommitInvariant'
  <2>1. PICK g \in LocalFiles :
           /\ files' = [files EXCEPT ![q] = g] /\ disk' \in Disks
           /\ disk'.files \in {disk.files, [disk.files EXCEPT ![q] = g]}
           /\ g = Replaced(p, k) /\ disk'.files[q] = g
           /\ q \in Settled =>
                /\ Sane(g) /\ Below(f, g) /\ Below(g, n) /\ UniqueIntents(g.audit)
                /\ Complete(f) => Complete(g)
    BY Zenon, <1>1, FilePublished
  <2>2. /\ g[k] = n[k]
        /\ k # "audit" => g.audit = f.audit
        /\ k # "checkpoint" => g.checkpoint = f.checkpoint
    BY Zenon, <1>0, <2>1 DEF Replaced, LocalFiles
  <2>3. PICK c : c = [cmd[p] EXCEPT !.pc = pc]
    BY Zenon
  <2>4. /\ c \in Commands /\ c.pc = pc /\ c.flow = cmd[p].flow /\ c.base = cmd[p].base
        /\ c.target = cmd[p].target /\ c.home = cmd[p].home /\ c.inode = cmd[p].inode /\ c.next = n
    BY <1>0, <1>1, <2>3 DEF Commands
  <2>5. cmd' = [cmd EXCEPT ![p] = c] /\ lock = p
    BY Zenon, <1>0, <1>1, <2>3 DEF Step, Go, Holding, Publishing
  <2>6. FlowOK(c) /\ InodeOK(c, home[c.home])
    BY Zenon, <1>0, <1>1, <2>4 DEF FlowOK, InodeOK, Holding, Publishing
  <2>7. ASSUME q \in Settled PROVE NextOK(c, g) /\ IntentOK(c, g) /\ WorkOK(c, g)
    <3>0. /\ WorkOK(cmd[p], f) /\ IntentOK(cmd[p], disk.files[q])
          /\ n.checkpoint.seen = n.audit /\ UniqueIntents(n.audit)
          /\ c.flow \in {"commit", "reconcile"} => n.checkpoint.accepted = c.target
          /\ c.flow \in {"initialize", "advance"} => n.checkpoint.accepted = c.base
          /\ k # "audit" => f.audit = n.audit
          /\ k = "receipts" => f.checkpoint.accepted = n.checkpoint.accepted
      BY ZenonT(30), <1>0, <1>1, <2>4, <2>7 DEF NextOK, Publishing
    <3>1. g.audit = n.audit
      BY Zenon, <1>1, <2>2, <3>0
    <3>2. c.pc \in {"receipts", "ready"} => g.checkpoint.accepted = n.checkpoint.accepted
      BY Zenon, <1>1, <2>2, <2>4, <3>0
    <3>3. NextOK(c, g)
      BY ZenonT(30), <2>1, <2>4, <2>7, <3>0, <3>1, <3>2 DEF NextOK
    <3>4. IntentOK(c, g)
      BY Zenon, <1>1, <2>4, <3>0, <3>1 DEF IntentOK, ContainsOperation
    <3>5. c.base \in Seq(Nat) /\ f.checkpoint.accepted \in Seq(Nat) /\ g.checkpoint.accepted \in Seq(Nat)
      BY Zenon, <1>0, <2>4 DEF Commands, LocalFiles, Checkpoints, Artifacts
    <3>6. Covered(c) => Extends(c.base, g.checkpoint.accepted)
      <4>1. CASE c.pc = "ready"
        <5>1. c.flow \in {"initialize", "advance"}
          BY ZenonT(30), <1>0, <1>1, <2>4, <4>1 DEF FlowOK
        <5>2. g.checkpoint.accepted = c.base
          BY Zenon, <3>0, <3>2, <4>1, <5>1
        <5> QED BY Zenon, <3>5, <5>2, ExtendsItself
      <4>2. CASE c.pc # "ready" /\ Covered(c)
        <5>1. Covered(cmd[p])
          BY ZenonT(30), <1>1, <2>4, <4>2 DEF Covered
        <5>2. Extends(c.base, f.checkpoint.accepted)
          BY ZenonT(30), <2>4, <3>0, <5>1 DEF WorkOK
        <5> QED BY ZenonT(30), <2>1, <2>7, <3>5, <5>2, ExtendsTransitively DEF Below
      <4> QED BY <4>1, <4>2
    <3>7. WorkOK(c, g)
      BY Zenon, <1>1, <2>4, <3>0, <3>6 DEF WorkOK, Holding, Publishing
    <3> QED BY Zenon, <3>3, <3>4, <3>7
  <2>8. lock' = lock \/ (lock = p /\ lock' = "free")
    BY <1>1, <2>5
  <2>9. c.pc \in Holding => lock' = p
    BY <1>1, <2>4, <2>5
  <2> QED BY <1>0, <1>1, <2>1, <2>4, <2>5, <2>6, <2>7, <2>8, <2>9, CommandMoves, ZenonT(30)
<1>2. CASE PublishAudit(p)
  <2>1. /\ cmd[p].pc = "audit" /\ UNCHANGED <<home, catalog, revisions, published>>
    BY Zenon, <1>2 DEF PublishAudit, At
  <2>2. CASE /\ PublishedAndSynced(p, "audit")
             /\ Step(p, IF cmd[p].flow = "commit" THEN "catalog" ELSE "checkpoint")
             /\ UNCHANGED lock
    <3>1. PICK pc \in Places : /\ pc = IF cmd[p].flow = "commit" THEN "catalog" ELSE "checkpoint"
                               /\ pc \in Holding
      BY Zenon DEF Places, Holding, Publishing
    <3> QED BY <1>1, <2>1, <2>2, <3>1
  <2> QED BY Zenon, <1>2, <2>1, <2>2, PublishedReturns DEF PublishAudit
<1>3. CASE PublishReceipts(p)
  <2>1. /\ cmd[p].pc = "receipts" /\ UNCHANGED <<home, catalog, revisions, published>>
    BY ZenonT(60), <1>3 DEF PublishReceipts, At
  <2>2. CASE PublishedAndSynced(p, "receipts") /\ Step(p, "ready") /\ lock' = "free"
    <3>1. "ready" \in Places /\ "ready" \notin Holding
      BY DEF Places, Holding, Publishing
    <3> QED BY <1>1, <2>1, <2>2, <3>1
  <2> QED BY ZenonT(60), <1>3, <2>1, <2>2, PublishedReturns DEF PublishReceipts
<1>4. CASE PublishCheckpoint(p)
  <2>1. /\ cmd[p].pc = "checkpoint" /\ UNCHANGED <<home, catalog, revisions, published>>
    BY <1>4 DEF PublishCheckpoint, At
  <2>2. /\ "ready" \in Places /\ "ready" \notin Holding
        /\ "receipts" \in Places /\ "receipts" \in Holding
    BY DEF Places, Holding, Publishing
  <2>3. CASE PublishedAndSynced(p, "checkpoint") /\ cmd[p].flow = "advance" /\ Step(p, "ready") /\ lock' = "free"
    BY <1>1, <2>1, <2>2, <2>3
  <2>4. CASE PublishedAndSynced(p, "checkpoint") /\ cmd[p].flow = "initialize" /\ Step(p, "receipts") /\ lock' = lock
    BY Zenon, <1>1, <2>1, <2>2, <2>4
  <2> QED BY <1>4, <2>1, <2>3, <2>4, PublishedReturns DEF PublishCheckpoint
<1> QED BY <1>2, <1>3, <1>4

\* The publication of the catalog, and putting it back.
LEMMA CatalogSteps ==
    ASSUME CommitInvariant, NEW p \in Procs, PublishCatalog(p) \/ RestoreCatalog(p)
    PROVE  CommitInvariant'
<1> DEFINE q == Me(p)
           f == files[Me(p)]
           n == cmd[p].next
<1>0. /\ TypeOK /\ cmd[p] \in Commands /\ f \in LocalFiles /\ n \in LocalFiles
      /\ cmd[p].cat \in SUBSET Nat /\ cmd[p].catTarget \in SUBSET Nat
      /\ catalog \in SUBSET Nat /\ revisions \in Seq(Nat) /\ disk \in Disks
      /\ FlowOK(cmd[p]) /\ InodeOK(cmd[p], home[cmd[p].home]) /\ (cmd[p].pc \in Holding => lock = p)
      /\ q \in Settled => WorkOK(cmd[p], f) /\ NextOK(cmd[p], f) /\ IntentOK(cmd[p], disk.files[q])
  BY Zenon, Typed DEF CommitInvariant, TypeOK, Commands, Disks
<1>1. CASE RestoreCatalog(p)
  <2>1. /\ cmd[p].pc \in Holding /\ Return(p) /\ UNCHANGED <<home, files, revisions, published>>
        /\ catalog' \in {catalog, cmd[p].cat}
        /\ disk' = disk \/ disk' = [disk EXCEPT !.catalog = cmd[p].cat]
    BY <1>1 DEF RestoreCatalog, At, Holding, Publishing
  <2> QED BY <1>0, <2>1, QuietReturn, Zenon
<1>2. CASE PublishCatalog(p)
  <2>1. /\ cmd[p].pc = "catalog" /\ cmd[p].pc \in Holding /\ lock = p
        /\ UNCHANGED <<home, files, revisions, published>>
        /\ catalog' \in {catalog, cmd[p].catTarget}
        /\ disk' = disk \/ disk' = [disk EXCEPT !.catalog = cmd[p].catTarget]
        /\ Return(p) \/ AfterCatalog(p)
    BY <1>0, <1>2 DEF PublishCatalog, At, Holding, Publishing
  <2>2. CASE Return(p)
    BY <1>0, <2>1, <2>2, QuietReturn, Zenon
  <2>3. ASSUME NEW pc \in {"validate", "audit", "checkpoint"}, Step(p, pc), lock' = lock,
               pc = "validate" => cmd[p].flow = "commit",
               pc = "audit" => cmd[p].flow # "commit",
               pc = "checkpoint" => cmd[p].flow # "commit" /\ n.audit = f.audit
        PROVE  CommitInvariant'
    <3>1. PICK c : c = [cmd[p] EXCEPT !.pc = pc]
      BY Zenon
    <3>2. /\ c \in Commands /\ c.pc = pc /\ c.flow = cmd[p].flow /\ c.base = cmd[p].base
          /\ c.target = cmd[p].target /\ c.home = cmd[p].home /\ c.inode = cmd[p].inode /\ c.next = n
      BY Zenon, <1>0, <3>1 DEF Commands, Places, Holding, Publishing
    <3>3. cmd' = [cmd EXCEPT ![p] = c]
      BY <2>3, <3>1 DEF Step, Go
    <3>4. disk' \in Disks /\ disk'.files = disk.files
      BY <1>0, <2>1 DEF Disks
    <3>5. FlowOK(c) /\ InodeOK(c, home[c.home])
      BY <1>0, <2>1, <2>3, <3>2 DEF FlowOK, InodeOK, Holding, Publishing
    <3>6. ASSUME q \in Settled PROVE NextOK(c, f) /\ IntentOK(c, disk.files[q]) /\ WorkOK(c, f)
      <4>1. NextOK(c, f)
        BY <1>0, <2>1, <2>3, <3>2, <3>6 DEF NextOK, Publishing
      <4>2. IntentOK(c, disk.files[q])
        BY <1>0, <2>1, <2>3, <3>2, <3>6 DEF IntentOK
      <4>3. WorkOK(c, f)
        BY <1>0, <2>1, <2>3, <3>2, <3>6 DEF WorkOK, Covered, Holding, Publishing, FlowOK
      <4> QED BY <4>1, <4>2, <4>3
    <3> QED BY <1>0, <2>1, <2>3, <3>2, <3>3, <3>4, <3>5, <3>6, CatalogMoves, Zenon
  <2>4. CASE AfterCatalog(p)
    <3>1. CASE cmd[p].flow = "commit"
      BY <2>3, <2>4, <3>1 DEF AfterCatalog
    <3>2. CASE cmd[p].flow # "commit" /\ n = f
      BY <2>2, <2>4, <3>2 DEF AfterCatalog
    <3>3. CASE cmd[p].flow # "commit" /\ n # f
      <4>1. Step(p, IF n.audit # f.audit THEN "audit" ELSE "checkpoint") /\ lock' = lock
        BY <2>4, <3>3 DEF AfterCatalog
      <4> QED BY <2>3, <3>3, <4>1
    <3> QED BY Zenon, <3>1, <3>2, <3>3
  <2> QED BY <2>1, <2>2, <2>4
<1> QED BY <1>1, <1>2

\* A killed command.
LEMMA CrashStep == ASSUME CommitInvariant, NEW p \in Procs, Crash(p) PROVE CommitInvariant'
<1>1. /\ cmd' = [cmd EXCEPT ![p] = Idle] /\ UNCHANGED <<home, catalog, files, disk, revisions, published>>
      /\ lock' = lock \/ (lock = p /\ lock' = "stale")
  BY DEF Crash, Go
<1>2. catalog' \in SUBSET Nat /\ revisions' \in Seq(Nat)
  BY Zenon, <1>1 DEF CommitInvariant, TypeOK
<1> QED BY <1>1, <1>2, IdleTyped, AtRest, QuietMoves, Zenon

\* Replacing the artifact: the intent is durable by now.
LEMMA RenameStep == ASSUME CommitInvariant, NEW p \in Procs, Rename(p) PROVE CommitInvariant'
<1> DEFINE q == Me(p)
           f == files[Me(p)]
<1>0. /\ TypeOK /\ q \in Principals /\ cmd[p] \in Commands /\ cmd[p].home \in Homes /\ cmd[p].target \in Artifacts
      /\ cmd[p].pc = "rename" /\ cmd[p].flow = "commit" /\ lock = p /\ Extends(cmd[p].base, cmd[p].target)
      /\ home[cmd[p].home].inode \in Nat
      /\ q \in Settled => WorkOK(cmd[p], f) /\ NextOK(cmd[p], f) /\ IntentOK(cmd[p], disk.files[q])
  BY Typed DEF CommitInvariant, TypeOK, Commands, Rename, At, FlowOK, Holding, Publishing
<1>1. PICK c : c = [cmd[p] EXCEPT !.pc = "checkpoint"]
  BY Zenon
<1>2. /\ c \in Commands /\ c.pc = "checkpoint" /\ c.flow = "commit" /\ c.base = cmd[p].base
      /\ c.target = cmd[p].target /\ c.home = cmd[p].home /\ c.next = cmd[p].next
  BY <1>0, <1>1 DEF Commands, Places, Holding, Publishing
<1>3. /\ cmd' = [cmd EXCEPT ![p] = c] /\ UNCHANGED <<catalog, files, lock, revisions>>
      /\ home' = [home EXCEPT ![cmd[p].home].art = cmd[p].target, ![cmd[p].home].inode = @ + 1]
      /\ disk' = disk \/ disk' = [disk EXCEPT !.art[cmd[p].home] = cmd[p].target]
      /\ published' = published \cup {<<q, cmd[p].target>>}
  BY <1>1 DEF Rename, Step, Go
<1>4. cmd'[p] = c /\ \A r \in Procs : r # p => cmd'[r] = cmd[r]
  BY <1>0, <1>3 DEF TypeOK
<1>5. disk'.files = disk.files /\ disk' \in Disks
  BY <1>0, <1>3, ZenonT(30) DEF TypeOK, Disks
<1>6. home' \in [Homes -> [art : Artifacts, inode : Nat, git : Nat]]
  <2>1. home \in [Homes -> [art : Artifacts, inode : Nat, git : Nat]]
    BY Zenon, <1>0 DEF TypeOK
  <2>2. cmd[p].home \in Homes /\ cmd[p].target \in Artifacts
    BY Zenon, <1>0
  <2>3. home' = [home EXCEPT ![cmd[p].home].art = cmd[p].target, ![cmd[p].home].inode = @ + 1]
    BY Zenon, <1>3
  <2> QED BY <2>1, <2>2, <2>3
<1>7. TypeOK'
  <2>1. cmd' \in [Procs -> Commands] /\ published' \in SUBSET (Principals \X Artifacts)
    BY <1>0, <1>2, <1>3 DEF TypeOK
  <2> QED BY <1>0, <1>3, <1>5, <1>6, <2>1 DEF TypeOK, Disks
<1>8. IntentDurable'
  <2>1. SUFFICES ASSUME NEW w \in published', w[1] \in Settled
                 PROVE  ContainsOperation(disk.files[w[1]], w[2])
    BY Zenon, <1>5 DEF IntentDurable, Settled, Me
  <2>2. CASE w \in published
    BY ZenonT(60), <2>1, <2>2 DEF CommitInvariant, IntentDurable
  <2>3. CASE w = <<q, cmd[p].target>>
    BY <1>0, <2>1, <2>3 DEF IntentOK
  <2> QED BY <1>3, <2>2, <2>3
<1>9. ASSUME NEW r \in Procs
      PROVE  /\ FlowOK(cmd'[r])
             /\ InodeOK(cmd'[r], home'[cmd'[r].home])
             /\ cmd'[r].pc \in Holding => lock' = r
  <2>1. CASE r = p
    BY <1>0, <1>2, <1>3, <1>4, <2>1 DEF FlowOK, InodeOK
  <2>2. CASE r # p
    <3>1. FlowOK(cmd[r]) /\ cmd[r].pc \notin Holding
      BY ZenonT(30), <1>0, <2>2 DEF CommitInvariant
    <3> QED BY Zenon, <1>4, <2>2, <3>1 DEF InodeOK, Holding, Publishing
  <2> QED BY <2>1, <2>2
<1>10. ASSUME NEW r \in Procs, Me(r) \in Settled
       PROVE  /\ NextOK(cmd'[r], files'[Me(r)])
              /\ IntentOK(cmd'[r], disk'.files[Me(r)])
              /\ WorkOK(cmd'[r], files'[Me(r)])
  <2>1. CASE r = p
    <3>1. NextOK(c, f)
      BY ZenonT(30), <1>0, <1>2, <1>10, <2>1 DEF NextOK, Publishing
    <3>2. IntentOK(c, disk.files[q]) /\ WorkOK(c, f)
      BY <1>0, <1>2, <1>10, <2>1 DEF IntentOK, WorkOK, Covered, Holding, Publishing
    <3> QED BY Zenon, <1>3, <1>4, <1>5, <2>1, <3>1, <3>2
  <2>2. CASE r # p
    BY <1>3, <1>4, <1>5, <1>10, <2>2 DEF CommitInvariant
  <2> QED BY <2>1, <2>2
<1>11. \A r \in Settled : FilesOK(r, files'[r], disk'.files[r])
  BY Zenon, <1>3, <1>5 DEF CommitInvariant
<1> QED BY Zenon, <1>7, <1>8, <1>9, <1>10, <1>11 DEF CommitInvariant, Settled, Me

-----------------------------------------------------------------------------
(* Steps of the environment *)

\* A change of artifact files that no command makes: an artifact file is
\* another one afterwards, unless it is unchanged.
LEMMA HomesMove ==
    ASSUME CommitInvariant, UNCHANGED <<catalog, files, lock, cmd, revisions, published>>,
           home' \in [Homes -> [art : Artifacts, inode : Nat, git : Nat]],
           \A h \in Homes : \/ home'[h].art = home[h].art /\ home'[h].inode = home[h].inode
                            \/ home'[h].inode > home[h].inode,
           disk' \in Disks, disk'.files = disk.files
    PROVE  CommitInvariant'
<1>1. TypeOK'
  BY Zenon DEF CommitInvariant, TypeOK, Disks
<1>2. ASSUME NEW p \in Procs PROVE InodeOK(cmd[p], home'[cmd[p].home])
  <2>1. /\ cmd[p].home \in Homes /\ cmd[p].inode \in Nat /\ InodeOK(cmd[p], home[cmd[p].home])
        /\ home[cmd[p].home].inode \in Nat /\ home'[cmd[p].home].inode \in Nat
    BY Zenon DEF CommitInvariant, TypeOK, Commands
  <2>2. PICK old \in Nat, new \in Nat, i \in Nat :
          old = home[cmd[p].home].inode /\ new = home'[cmd[p].home].inode /\ i = cmd[p].inode
    BY ZenonT(60), <2>1
  <2>3. (old = new /\ home'[cmd[p].home].art = home[cmd[p].home].art) \/ new > old
    BY <2>1, <2>2
  <2>4. i <= old /\ new > old => i <= new /\ i # new
    OBVIOUS
  <2> QED BY ZenonT(30), <2>1, <2>2, <2>3, <2>4 DEF InodeOK
<1> QED BY Zenon, <1>1, <1>2 DEF CommitInvariant, IntentDurable, Settled, Me

\* Git, transfers, kills, power losses and stale locks keep the invariant.
LEMMA EnvironmentSteps == ASSUME CommitInvariant, Environment PROVE CommitInvariant'
<1>0. TypeOK /\ disk \in Disks
  BY DEF CommitInvariant, TypeOK, Disks
<1>1. ASSUME NEW h \in Homes, GitMove(h) PROVE CommitInvariant'
  <2>1. home' = [home EXCEPT ![h].git = @ + 1] /\ UNCHANGED <<catalog, files, disk, lock, cmd, revisions, published>>
    BY <1>1 DEF GitMove
  <2>2. home' \in [Homes -> [art : Artifacts, inode : Nat, git : Nat]]
    <3>1. home[h] \in [art : Artifacts, inode : Nat, git : Nat] /\ home[h].git + 1 \in Nat
      BY <1>0 DEF TypeOK
    <3>2. [home[h] EXCEPT !.git = @ + 1] \in [art : Artifacts, inode : Nat, git : Nat]
      BY <3>1
    <3> QED BY <1>0, <2>1, <3>2 DEF TypeOK
  <2>3. \A g \in Homes : home'[g].art = home[g].art /\ home'[g].inode = home[g].inode
    BY <1>0, <2>1 DEF TypeOK
  <2> QED BY <1>0, <2>1, <2>2, <2>3, HomesMove
<1>2. ASSUME NEW h \in Homes, NEW a \in Known, FileChange(h, a) PROVE CommitInvariant'
  <2>0. a \in Artifacts
    BY <1>0, KnownTyped
  <2>1. /\ home' = [home EXCEPT ![h].art = a, ![h].inode = @ + 1]
        /\ disk' = [disk EXCEPT !.art[h] = a] /\ UNCHANGED <<catalog, files, lock, cmd, revisions, published>>
    BY <1>2 DEF FileChange
  <2>2. home' \in [Homes -> [art : Artifacts, inode : Nat, git : Nat]]
    <3>1. home[h] \in [art : Artifacts, inode : Nat, git : Nat] /\ home[h].inode + 1 \in Nat
      BY <1>0 DEF TypeOK
    <3> QED BY <1>0, <2>0, <2>1, <3>1, Zenon DEF TypeOK
  <2>3. \A g \in Homes : \/ home'[g].art = home[g].art /\ home'[g].inode = home[g].inode
                         \/ home'[g].inode > home[g].inode
    BY <1>0, <2>1 DEF TypeOK
  <2>4. disk' \in Disks /\ disk'.files = disk.files
    BY Zenon, <1>0, <2>0, <2>1 DEF Disks
  <2> QED BY <2>1, <2>2, <2>3, <2>4, HomesMove
<1>3. CASE PowerLoss
  <2>1. /\ cmd' = [p \in Procs |-> Idle] /\ home' = [h \in Homes |-> [home[h] EXCEPT !.art = disk.art[h]]]
        /\ catalog' = disk.catalog /\ files' = disk.files /\ lock' \in {"free", "stale"}
        /\ UNCHANGED <<disk, revisions, published>>
    BY <1>3 DEF PowerLoss
  <2>2. TypeOK'
    BY <1>0, <2>1, IdleTyped, ZenonT(30) DEF TypeOK, Disks
  <2>3. \A q \in Settled : FilesOK(q, files'[q], disk'.files[q])
    <3>1. SUFFICES ASSUME NEW q \in Settled PROVE FilesOK(q, disk.files[q], disk.files[q])
      BY Zenon, <2>1
    <3>2. disk.files[q] \in LocalFiles /\ FilesOK(q, files[q], disk.files[q])
      BY Zenon, <1>0 DEF Disks, Settled, CommitInvariant
    <3>3. Below(disk.files[q], disk.files[q])
      BY <3>2, BelowItself
    <3> QED BY Zenon, <3>2, <3>3 DEF FilesOK
  <2>4. \A p \in Procs : cmd'[p] = Idle
    BY <2>1
  <2>5. IntentDurable'
    BY Zenon, <2>1 DEF CommitInvariant, IntentDurable, Settled, Me
  <2>6. \A p \in Procs :
          /\ FlowOK(cmd'[p]) /\ InodeOK(cmd'[p], home'[cmd'[p].home]) /\ cmd'[p].pc \notin Holding
          /\ NextOK(cmd'[p], files'[Me(p)]) /\ IntentOK(cmd'[p], disk'.files[Me(p)])
          /\ WorkOK(cmd'[p], files'[Me(p)])
    BY Zenon, <2>4, IdleTyped, AtRest
  <2> QED BY Zenon, <2>2, <2>3, <2>5, <2>6 DEF CommitInvariant, Settled, Me
<1>4. CASE ClearLock
  <2>1. lock = "stale" /\ lock' = "free" /\ UNCHANGED <<home, catalog, files, disk, cmd, revisions, published>>
    BY ZenonT(60), <1>4 DEF ClearLock
  <2>2. \A p \in Procs : cmd[p].pc \notin Holding
    BY <2>1, ProcsAssumption DEF CommitInvariant
  <2>3. TypeOK'
    BY <1>0, <2>1 DEF TypeOK
  <2> QED BY Zenon, <2>1, <2>2, <2>3 DEF CommitInvariant, IntentDurable, Settled, Me
<1>5. ASSUME NEW h \in Homes, disk' = [disk EXCEPT !.art[h] = home[h].art],
             UNCHANGED <<home, catalog, files, lock, cmd, revisions, published>>
      PROVE  CommitInvariant'
  <2>1. home[h].art \in Artifacts
    BY <1>0 DEF TypeOK
  <2>2. disk' \in Disks /\ disk'.files = disk.files
    BY <1>0, <1>5, <2>1 DEF Disks
  <2>3. home' \in [Homes -> [art : Artifacts, inode : Nat, git : Nat]]
    BY <1>0, <1>5 DEF TypeOK
  <2> QED BY <1>5, <2>2, <2>3, HomesMove
<1>6. ASSUME disk' = [disk EXCEPT !.catalog = catalog],
             UNCHANGED <<home, catalog, files, lock, cmd, revisions, published>>
      PROVE  CommitInvariant'
  <2>1. disk' \in Disks /\ disk'.files = disk.files
    BY <1>0, <1>6, Zenon DEF Disks, TypeOK
  <2>2. home' \in [Homes -> [art : Artifacts, inode : Nat, git : Nat]]
    BY <1>0, <1>6 DEF TypeOK
  <2> QED BY <1>6, <2>1, <2>2, HomesMove
<1>7. ASSUME NEW q \in Principals, disk' = [disk EXCEPT !.files[q] = files[q]],
             UNCHANGED <<home, catalog, files, lock, cmd, revisions, published>>
      PROVE  CommitInvariant'
  <2>1. files[q] \in LocalFiles /\ disk.files[q] \in LocalFiles
    BY <1>0 DEF TypeOK
  <2>2. /\ disk' \in Disks /\ disk'.files[q] = files[q]
        /\ \A r \in Principals : r # q => disk'.files[r] = disk.files[r]
    BY <1>0, <1>7, <2>1 DEF Disks
  <2>3. TypeOK'
    BY <1>0, <1>7, <2>2, Zenon DEF TypeOK, Disks
  <2>4. \A r \in Settled : FilesOK(r, files[r], disk'.files[r])
    <3>1. ASSUME NEW r \in Settled PROVE FilesOK(r, files[r], disk'.files[r])
      <4>1. r \in Principals /\ FilesOK(r, files[r], disk.files[r])
        BY Zenon DEF Settled, CommitInvariant
      <4>2. CASE r = q
        <5>1. Below(files[q], files[q])
          BY <2>1, BelowItself
        <5> QED BY Zenon, <2>2, <4>1, <4>2, <5>1 DEF FilesOK
      <4> QED BY Zenon, <2>2, <4>1, <4>2
    <3> QED BY <3>1
  <2>5. ASSUME NEW r \in Settled, NEW a, ContainsOperation(disk.files[r], a)
        PROVE  ContainsOperation(disk'.files[r], a)
    <3>1. r \in Principals /\ Below(disk.files[r], files[r])
      BY Zenon DEF Settled, CommitInvariant, FilesOK
    <3>2. CASE r = q
      <4>1. ContainsOperation(files[q], a)
        BY <2>1, <2>5, <3>1, <3>2, IntentsRemain DEF Below
      <4> QED BY Zenon, <2>2, <3>2, <4>1
    <3> QED BY Zenon, <2>2, <2>5, <3>1, <3>2
  <2>6. IntentDurable'
    BY ZenonT(60), <1>7, <2>5 DEF CommitInvariant, IntentDurable, Settled, Me
  <2>7. \A p \in Procs : Me(p) \in Settled => IntentOK(cmd[p], disk'.files[Me(p)])
    BY <2>5 DEF CommitInvariant, IntentOK
  <2> QED BY <1>7, <2>3, <2>4, <2>6, <2>7 DEF CommitInvariant, Settled, Me
<1>8. CASE WriteBack
  BY ZenonT(60), <1>5, <1>6, <1>7, <1>8 DEF WriteBack
<1> QED BY <1>1, <1>2, <1>3, <1>4, <1>8 DEF Environment

-----------------------------------------------------------------------------
(* The theorems *)

LEMMA CommitInitially == Init => CommitInvariant
<1> SUFFICES ASSUME Init PROVE CommitInvariant
  OBVIOUS
<1>0. <<>> \in Artifacts /\ <<>> \in Seq(Nat)
  BY DEF Artifacts
<1>1. \A q \in Principals : /\ files[q] = IF q \in Established THEN FreshFiles(<<>>) ELSE NoFiles
                            /\ disk.files[q] = files[q] /\ files[q] \in LocalFiles
  BY ZenonT(60), <1>0, FirstFiles DEF Init
<1>2. TypeOK
  <2>1. files \in [Principals -> LocalFiles]
    BY <1>1 DEF Init
  <2>2. home \in [Homes -> [art : Artifacts, inode : Nat, git : Nat]]
    BY Zenon, <1>0 DEF Init
  <2>3. disk \in [art : [Homes -> Artifacts], catalog : SUBSET Nat, files : [Principals -> LocalFiles]]
    BY Zenon, <1>0, <2>1 DEF Init
  <2> QED BY <1>0, <2>1, <2>2, <2>3, IdleTyped DEF Init, TypeOK
<1>3. ASSUME NEW q \in Settled PROVE FilesOK(q, files[q], disk.files[q])
  <2>1. q \in Principals
    BY ZenonT(60) DEF Settled
  <2>2. Below(files[q], files[q])
    BY <1>1, <2>1, BelowItself
  <2>3. Sane(files[q]) /\ UniqueIntents(files[q].audit) /\ (q \in Established => Complete(files[q]))
    BY <1>0, <1>1, <2>1, FirstFiles
  <2> QED BY Zenon, <1>1, <2>1, <2>2, <2>3 DEF FilesOK
<1>4. \A p \in Procs : cmd[p] = Idle
  BY Zenon DEF Init
<1>5. \A p \in Procs :
        /\ FlowOK(cmd[p]) /\ InodeOK(cmd[p], home[cmd[p].home]) /\ cmd[p].pc \notin Holding
        /\ NextOK(cmd[p], files[Me(p)]) /\ IntentOK(cmd[p], disk.files[Me(p)]) /\ WorkOK(cmd[p], files[Me(p)])
  BY <1>4, IdleTyped, AtRest
<1>6. IntentDurable
  BY DEF Init, IntentDurable
<1> QED BY <1>2, <1>3, <1>5, <1>6 DEF CommitInvariant

\* Every step keeps the invariant.
LEMMA CommitInductive == CommitInvariant /\ [Next]_vars => CommitInvariant'
<1>1. ASSUME CommitInvariant, Next PROVE CommitInvariant'
  <2>1. ASSUME NEW p \in Procs, (\E h \in Homes : ReadVault(p, h)) \/ Proceed(p) PROVE CommitInvariant'
    BY <1>1, <2>1, OpeningSteps, PreparingSteps, PlanningSteps, ComparingSteps, ExaminingSteps,
       PublicationSteps, CatalogSteps, RenameStep, CrashStep DEF Proceed
  <2> QED BY <1>1, <2>1, EnvironmentSteps DEF Next
<1>2. ASSUME CommitInvariant, UNCHANGED vars PROVE CommitInvariant'
  <2>1. UNCHANGED <<home, catalog, files, disk, lock, cmd, revisions, published>>
    BY <1>2 DEF vars
  <2>2. home' \in [Homes -> [art : Artifacts, inode : Nat, git : Nat]] /\ disk' \in Disks
    BY <1>2, <2>1 DEF CommitInvariant, TypeOK, Disks
  <2> QED BY <1>2, <2>1, <2>2, HomesMove
<1> QED BY <1>1, <1>2

\* The invariant behind the theorems holds in every state.
LEMMA CommitSafe == Spec => []CommitInvariant
BY CommitInitially, CommitInductive, PTL DEF Spec

\* Whatever fails, is killed or is repeated, a published mutation is in the
\* audit that survives a power loss, and no audit holds the intent of one
\* mutation twice: mutation_commit.rs publishes and syncs the intent before
\* the shared artifact, and accept_audit_tail takes the intent of a former
\* attempt over instead of appending it again.
THEOREM IntentsKept == Spec => []IntentKept
<1>1. CommitInvariant => IntentKept
  BY Zenon DEF CommitInvariant, IntentKept, NoDuplicateIntent, FilesOK
<1> QED BY <1>1, CommitSafe, PTL

\* Local state that exists passes verify_files at every moment and after
\* every power loss, and its checkpoint covers the artifact that an opened
\* command works on.
THEOREM LocalStateSound == Spec => []LocalStateVerifies
<1>1. ASSUME CommitInvariant PROVE LocalStateVerifies
  <2>1. \A q \in Settled : \A f \in {files[q], disk.files[q]} : Complete(f) \/ q \in Established => Verifies(f)
    <3>1. ASSUME NEW q \in Settled PROVE FilesOK(q, files[q], disk.files[q])
      BY ZenonT(60), <1>1, <3>1 DEF CommitInvariant
    <3> QED BY Zenon, <3>1 DEF FilesOK, Sane, Verifies
  <2>2. OpenedCovered
    BY <1>1 DEF CommitInvariant, OpenedCovered, WorkOK, Covered
  <2> QED BY Zenon, <2>1, <2>2 DEF LocalStateVerifies
<1> QED BY <1>1, CommitSafe, PTL

\* The steps that move what a power loss would leave of a principal's files.
LEMMA DiskMoves ==
    ASSUME CommitInvariant, Next
    PROVE  \/ disk'.files = disk.files
           \/ \E p \in Procs, k \in {"audit", "checkpoint", "receipts"} :
                cmd[p].pc = k /\ PublishedAndSynced(p, k)
           \/ \E q \in Principals : disk' = [disk EXCEPT !.files[q] = files[q]]
<1>0. disk \in Disks
  BY DEF CommitInvariant, TypeOK, Disks
<1>1. \A k : [disk EXCEPT !.catalog = k].files = disk.files
  BY Zenon, <1>0 DEF Disks
<1>3. ASSUME NEW p \in Procs, (\E h \in Homes : ReadVault(p, h)) \/ Proceed(p)
      PROVE  \/ disk'.files = disk.files
             \/ \E k \in {"audit", "checkpoint", "receipts"} : cmd[p].pc = k /\ PublishedAndSynced(p, k)
  <2>1. CASE PublishAudit(p)
    BY <2>1 DEF PublishAudit, At, PublishedUnsynced, NotPublished
  <2>2. CASE PublishCheckpoint(p)
    BY <2>2 DEF PublishCheckpoint, At, PublishedUnsynced, NotPublished
  <2>3. CASE PublishReceipts(p)
    BY <2>3 DEF PublishReceipts, At, PublishedUnsynced, NotPublished
  <2>4. CASE PublishCatalog(p)
    BY <1>1, <2>4, Zenon DEF PublishCatalog
  <2>5. CASE RestoreCatalog(p)
    BY <1>1, <2>5, Zenon DEF RestoreCatalog
  <2>6. CASE Rename(p)
    <3>1. disk' = disk \/ disk' = [disk EXCEPT !.art[cmd[p].home] = cmd[p].target]
      BY <2>6 DEF Rename
    <3> QED BY <1>0, <3>1 DEF Disks
  <2>7. CASE \/ \E h \in Homes : ReadVault(p, h)
             \/ Probe(p) \/ StartInitialize(p) \/ Open(p) \/ StartAdvance(p)
             \/ (\E w \in 0 .. MaxRevisions : PlanMutation(p, w)) \/ (\E a \in Known : PlanImport(p, a))
             \/ StartEvent(p) \/ Refuse(p)
    BY <2>7, Zenon DEF ReadVault, Probe, StartInitialize, Open, StartAdvance, PlanMutation, PlanImport,
       StartEvent, Refuse
  <2>8. CASE \/ Acquire(p) \/ Examine(p) \/ ExamineTarget(p) \/ Abandon(p) \/ GitMoved(p) \/ Validate(p)
             \/ SharedFailed(p) \/ Crash(p)
    BY <2>8 DEF Acquire, Examine, ExamineTarget, Abandon, GitMoved, Validate, SharedFailed, Crash
  <2> QED BY ZenonT(30), <1>3, <2>1, <2>2, <2>3, <2>4, <2>5, <2>6, <2>7, <2>8 DEF Proceed
<1>4. CASE Environment
  <2>1. ASSUME NEW h, NEW a, disk' = [disk EXCEPT !.art[h] = a] PROVE disk'.files = disk.files
    BY <1>0, <2>1 DEF Disks
  <2>2. CASE \E h \in Homes : GitMove(h) \/ \E a \in Known : FileChange(h, a)
    BY <2>1, <2>2, Zenon DEF GitMove, FileChange
  <2>3. CASE PowerLoss \/ ClearLock
    BY <2>3 DEF PowerLoss, ClearLock
  <2>4. CASE WriteBack
    BY <1>1, <2>1, <2>4, Zenon DEF WriteBack
  <2> QED BY <1>4, <2>2, <2>3, <2>4 DEF Environment
<1> QED BY <1>3, <1>4 DEF Next

\* What a power loss would leave of a principal's checkpoint only rises.
LEMMA CheckpointRises ==
    ASSUME CommitInvariant, Next, NEW q \in Settled
    PROVE  Extends(disk.files[q].checkpoint.accepted, disk'.files[q].checkpoint.accepted)
<1>0. /\ q \in Principals /\ disk \in Disks /\ files[q] \in LocalFiles /\ disk.files[q] \in LocalFiles
      /\ Below(disk.files[q], files[q])
  BY Zenon DEF CommitInvariant, TypeOK, Disks, Settled, FilesOK
<1>1. CASE disk'.files = disk.files
  BY <1>0, <1>1, BelowItself DEF Below
<1>2. ASSUME NEW p \in Procs, NEW k \in {"audit", "checkpoint", "receipts"}, cmd[p].pc = k,
             PublishedAndSynced(p, k)
      PROVE  Extends(disk.files[q].checkpoint.accepted, disk'.files[q].checkpoint.accepted)
  <2>1. PICK g \in LocalFiles :
          /\ disk'.files \in {disk.files, [disk.files EXCEPT ![Me(p)] = g]}
          /\ Me(p) \in Settled => Below(files[Me(p)], g)
    BY ZenonT(60), <1>2, FilePublished
  <2>2. CASE Me(p) = q /\ disk'.files = [disk.files EXCEPT ![Me(p)] = g]
    <3>1. disk'.files[q] = g
      BY <1>0, <2>2 DEF Disks
    <3>2. Below(disk.files[q], g)
      BY <1>0, <2>1, <2>2, BelowTransitively
    <3> QED BY <3>1, <3>2 DEF Below
  <2>3. CASE Me(p) # q \/ disk'.files = disk.files
    <3>1. disk'.files[q] = disk.files[q]
      BY <1>0, <2>1, <2>3 DEF Disks
    <3> QED BY <1>0, <3>1, BelowItself DEF Below
  <2> QED BY ZenonT(60), <2>1, <2>2, <2>3
<1>3. ASSUME NEW r \in Principals, disk' = [disk EXCEPT !.files[r] = files[r]]
      PROVE  Extends(disk.files[q].checkpoint.accepted, disk'.files[q].checkpoint.accepted)
  <2>1. disk'.files[q] \in {files[q], disk.files[q]}
    BY <1>0, <1>3 DEF Disks
  <2> QED BY <1>0, <2>1, BelowItself DEF Below
<1> QED BY <1>1, <1>2, <1>3, DiskMoves

\* A checkpoint that survives a power loss only moves to descendants
\* (accept_candidate never lowers it), and a commit replaces only an artifact
\* that its target extends, unless a tool that takes no lock replaced the
\* file after the last comparison.
THEOREM NothingIsLost == Spec => NothingLost
<1>1. CommitInvariant /\ [Next]_vars =>
        [\A q \in Settled :
           Extends(disk.files[q].checkpoint.accepted, disk'.files[q].checkpoint.accepted)]_vars
  BY CheckpointRises
<1>2. ASSUME CommitInvariant, NEW p \in Procs, Rename(p)
      PROVE  \/ Extends(home[cmd[p].home].art, home'[cmd[p].home].art)
             \/ home[cmd[p].home].inode # cmd[p].inode
  <2>1. /\ cmd[p].pc = "rename" /\ cmd[p].home \in Homes
        /\ home' = [home EXCEPT ![cmd[p].home].art = cmd[p].target, ![cmd[p].home].inode = @ + 1]
        /\ home \in [Homes -> [art : Artifacts, inode : Nat, git : Nat]]
    BY <1>2 DEF Rename, At, CommitInvariant, TypeOK, Commands
  <2>2. cmd[p].flow = "commit" /\ Extends(cmd[p].base, cmd[p].target)
    BY <1>2, <2>1 DEF CommitInvariant, FlowOK, Holding, Publishing
  <2>3. home[cmd[p].home].inode = cmd[p].inode => home[cmd[p].home].art = cmd[p].base
    BY <1>2, <2>1, <2>2 DEF CommitInvariant, InodeOK
  <2>4. home'[cmd[p].home].art = cmd[p].target
    BY <2>1
  <2> QED BY <2>2, <2>3, <2>4
<1>3. CommitInvariant =>
        [\A p \in Procs : Rename(p) =>
           \/ Extends(home[cmd[p].home].art, home'[cmd[p].home].art)
           \/ home[cmd[p].home].inode # cmd[p].inode]_vars
  BY <1>2
<1>4. Spec => [][Next]_vars
  BY PTL DEF Spec
<1>5. Spec => CheckpointsRise
  BY <1>1, <1>4, CommitSafe, PTL DEF CheckpointsRise
<1>6. Spec => NoLostUpdate
  BY <1>3, CommitSafe, PTL DEF NoLostUpdate
<1> QED BY <1>5, <1>6 DEF NothingLost

-----------------------------------------------------------------------------
(* The catalog, in one home that only the commands change *)

\* The policies of an artifact, its revisions being among those planned.
Within(revs, a) == \A k \in DOMAIN a : a[k] \in DOMAIN revs
UsesOf(revs, a) == {w \in DOMAIN revs : \E k \in DOMAIN a : revs[a[k]] = w}
BroughtOf(revs, a) == {i \in DOMAIN revs : revs[i] = i /\ \E k \in DOMAIN a : a[k] = i}

\* A policy is named after the revision that added it.
Named(revs) == \A j \in DOMAIN revs : revs[j] = 0 \/ revs[j] \in DOMAIN revs

Committing(c) == c.flow \in {"commit", "reconcile"} /\ c.pc \in Holding \cup {"planned"}

\* What a plan says of the policies: they are all in the catalog it leads to,
\* and it changes the catalog exactly where that lacked one.
TargetCovered(c, revs) ==
  /\ UsesOf(revs, c.base) \subseteq c.catTarget /\ UsesOf(revs, c.target) \subseteq c.catTarget
  /\ c.catTarget \subseteq DOMAIN revs /\ c.target # c.base
  /\ c.cat # c.catTarget => ~(UsesOf(revs, c.target) \subseteq c.cat)

\* What a command knows of the policies of what it reads and writes,
PlanCovered(c, revs, s) ==
  /\ Within(revs, c.base) /\ Within(revs, c.target)
  /\ c.pc # "idle" => c.home \in s.homes
  /\ c.cat \subseteq DOMAIN revs
  /\ c.pc # "read" => UsesOf(revs, c.base) \subseteq c.cat
  /\ Committing(c) => TargetCovered(c, revs)

\* of the artifact, which only moves to descendants,
BaseCovered(c, revs, h) ==
  /\ Extends(c.base, h[c.home].art)
  /\ Committing(c) /\ c.cat = c.catTarget =>
       BroughtOf(revs, c.target) \subseteq BroughtOf(revs, c.base) \/ Extends(c.target, h[c.home].art)

\* and of the catalog and the artifact while it holds the lock.
Compared(c) ==
  \/ c.flow = "commit" /\ c.pc \in {"previewed", "audit", "catalog"}
  \/ c.flow = "reconcile" /\ c.pc = "catalog"

LockCovered(c, h, k) ==
  /\ Compared(c) =>
       /\ c.update => k = c.cat /\ c.cat # c.catTarget
       /\ ~c.update /\ c.cat # c.catTarget => k = c.catTarget
  /\ c.pc \in {"validate", "rename"} /\ c.cat # c.catTarget => k = c.catTarget
  /\ c.flow = "commit" /\ c.pc \in {"audit", "catalog", "validate", "rename", "restore"} =>
       h[c.home].art = c.base
  /\ c.flow = "commit" /\ c.pc \in {"previewed", "audit", "catalog", "validate", "rename"} =>
       h[c.home].inode = c.inode
  /\ c.flow = "reconcile" /\ c.pc = "catalog" => h[c.home].art = c.target

HomesCovered(h, k, revs, s) ==
  \A g \in Homes : /\ Within(revs, h[g].art) /\ BroughtOf(revs, h[g].art) \subseteq k
                   /\ g \notin s.homes => h[g].art = <<>>

PublishedOK(pub, revs, h, s) ==
  \A w \in pub : Within(revs, w[2]) /\ \A g \in s.homes : Extends(w[2], h[g].art)

CommandCovered(c, revs, h, k, s) ==
  PlanCovered(c, revs, s) /\ BaseCovered(c, revs, h) /\ LockCovered(c, h, k)

CatalogInvariant ==
  /\ Named(revisions) /\ catalog \subseteq DOMAIN revisions
  /\ HomesCovered(home, catalog, revisions, scenario)
  /\ PublishedOK(published, revisions, home, scenario)
  /\ \A p \in Procs : CommandCovered(cmd[p], revisions, home, catalog, scenario)

\* A commit stands between its catalog and its artifact.
InWindow(c) == c.pc \in {"validate", "rename"}
Between(cs) == \E r \in Procs : InWindow(cs[r])

\* While nothing has failed or been killed, a command that has read the artifact
\* in place has read the catalog in place, unless a commit is about to replace
\* both.
CalmCommand(c, h, k, cs) ==
  /\ c.pc # "restore"
  /\ InWindow(c) => k = c.catTarget
  /\ c.pc \notin {"idle", "read"} /\ c.base = h[c.home].art => c.cat = k \/ Between(cs)

UsedCovered(h, k, revs) == \A g \in Homes : UsesOf(revs, h[g].art) \subseteq k

CalmInvariant ==
  /\ UsedCovered(home, catalog, revisions)
  /\ \A p \in Procs : CalmCommand(cmd[p], home, catalog, cmd)

\* The conditions of CoveredBeforeUse.
Alone ==
  /\ \E h \in Homes : scenario.homes = {h}
  /\ scenario.failures.outages = budget.outages /\ scenario.failures.moves = budget.moves
Calm == scenario.failures = budget

Kept(c, d) == c.home = d.home /\ c.base = d.base /\ c.cat = d.cat /\ c.target = d.target /\ c.catTarget = d.catTarget

HomeFiles == [Homes -> [art : Artifacts, inode : Nat, git : Nat]]

\* Two artifacts that extend each other are the same.
LEMMA ExtendsBack ==
    ASSUME NEW a \in Seq(Nat), NEW b \in Seq(Nat), Extends(a, b), Extends(b, a)
    PROVE  a = b
<1>0. Len(a) \in Nat /\ Len(b) \in Nat /\ Len(a) <= Len(b) /\ Len(b) <= Len(a)
  BY DEF Extends
<1>1. Len(a) = Len(b) /\ SubSeq(b, 1, Len(a)) = a
  <2>1. Len(a) = Len(b)
    BY <1>0
  <2> QED BY Zenon, <2>1 DEF Extends
<1>2. SubSeq(b, 1, Len(b)) = b
  BY Zenon, ExtendsItself DEF Extends
<1> QED BY Zenon, <1>1, <1>2

LEMMA AppendAt ==
    ASSUME NEW a \in Seq(Nat), NEW i \in Nat
    PROVE  /\ DOMAIN Append(a, i) = DOMAIN a \cup {Len(a) + 1} /\ Len(a) + 1 \notin DOMAIN a
           /\ Append(a, i)[Len(a) + 1] = i /\ \A k \in DOMAIN a : Append(a, i)[k] = a[k]
<1>1. DOMAIN Append(a, i) = DOMAIN a \cup {Len(a) + 1} /\ Len(a) + 1 \notin DOMAIN a
  OBVIOUS
<1>2. Append(a, i)[Len(a) + 1] = i
  OBVIOUS
<1>3. \A k \in DOMAIN a : Append(a, i)[k] = a[k]
  OBVIOUS
<1> QED BY Zenon, <1>1, <1>2, <1>3

\* A command before its first step.
LEMMA IdleCovered ==
    /\ Idle.pc = "idle" /\ Idle.base = <<>> /\ Idle.target = <<>> /\ Idle.cat = {} /\ Idle.flow = "none"
    /\ Idle.home \in Homes
    /\ \A revs, s : PlanCovered(Idle, revs, s)
    /\ \A h, k : LockCovered(Idle, h, k)
    /\ \A revs, h : h \in HomeFiles => BaseCovered(Idle, revs, h)
<1>1. Idle.pc = "idle" /\ Idle.base = <<>> /\ Idle.target = <<>> /\ Idle.cat = {} /\ Idle.flow = "none"
  BY DEF Idle
<1>2. \A revs : Within(revs, <<>>) /\ UsesOf(revs, <<>>) = {}
  BY DEF Within, UsesOf
<1>3. Idle.home \in Homes
  BY HomesAssumption DEF Idle
<1>4. ~Committing(Idle)
  BY Zenon, <1>1 DEF Committing
<1>5. \A revs, s : PlanCovered(Idle, revs, s)
  BY Zenon, <1>1, <1>2, <1>4 DEF PlanCovered
<1>6. \A h, k : LockCovered(Idle, h, k)
  BY Zenon, <1>1 DEF LockCovered, Compared
<1>7. ASSUME NEW revs, NEW h \in HomeFiles PROVE BaseCovered(Idle, revs, h)
  <2>1. h[Idle.home].art \in Seq(Nat)
    BY <1>3 DEF HomeFiles, Artifacts
  <2>2. Extends(Idle.base, h[Idle.home].art)
    BY Zenon, <1>1, <2>1, NothingExtends
  <2> QED BY Zenon, <1>4, <2>2 DEF BaseCovered
<1> QED BY Zenon, <1>1, <1>3, <1>5, <1>6, <1>7

\* What commands know does not depend on the revisions planned later.
LEMMA UsesLasts ==
    ASSUME NEW revs \in Seq(Nat), Named(revs), NEW w \in Nat, NEW a, Within(revs, a)
    PROVE  /\ Within(Append(revs, w), a) /\ UsesOf(Append(revs, w), a) = UsesOf(revs, a)
           /\ BroughtOf(Append(revs, w), a) = BroughtOf(revs, a)
<1>1. PICK more : more = Append(revs, w)
  BY Zenon
<1>2. DOMAIN revs \subseteq DOMAIN more /\ 0 \notin DOMAIN more /\ \A i \in DOMAIN revs : more[i] = revs[i]
  BY <1>1
<1>3. Within(more, a)
  BY Zenon, <1>2 DEF Within
<1>4. UsesOf(more, a) = UsesOf(revs, a)
  <2>1. ASSUME NEW u \in UsesOf(more, a) PROVE u \in UsesOf(revs, a)
    <3>1. PICK k \in DOMAIN a : more[a[k]] = u
      BY Zenon DEF UsesOf
    <3>2. u \in DOMAIN more /\ u # 0
      BY Zenon, <1>2 DEF UsesOf
    <3>3. a[k] \in DOMAIN revs /\ revs[a[k]] = u
      BY Zenon, <1>2, <3>1 DEF Within
    <3>4. u \in DOMAIN revs
      BY Zenon, <3>2, <3>3 DEF Named
    <3> QED BY Zenon, <3>3, <3>4 DEF UsesOf
  <2>2. ASSUME NEW u \in UsesOf(revs, a) PROVE u \in UsesOf(more, a)
    <3>1. PICK k \in DOMAIN a : revs[a[k]] = u
      BY Zenon DEF UsesOf
    <3>2. u \in DOMAIN more
      BY Zenon, <1>2 DEF UsesOf
    <3>3. more[a[k]] = u
      BY Zenon, <1>2, <3>1 DEF Within
    <3> QED BY Zenon, <3>2, <3>3 DEF UsesOf
  <2> QED BY Zenon, <2>1, <2>2
<1>5. BroughtOf(more, a) = BroughtOf(revs, a)
  <2>1. ASSUME NEW u \in BroughtOf(more, a) PROVE u \in BroughtOf(revs, a)
    <3>1. more[u] = u /\ \E k \in DOMAIN a : a[k] = u
      BY Zenon DEF BroughtOf
    <3>2. u \in DOMAIN revs
      BY Zenon, <3>1 DEF Within
    <3> QED BY Zenon, <1>2, <3>1, <3>2 DEF BroughtOf
  <2>2. ASSUME NEW u \in BroughtOf(revs, a) PROVE u \in BroughtOf(more, a)
    <3>1. revs[u] = u /\ u \in DOMAIN revs /\ \E k \in DOMAIN a : a[k] = u
      BY Zenon DEF BroughtOf
    <3> QED BY Zenon, <1>2, <3>1 DEF BroughtOf
  <2> QED BY Zenon, <2>1, <2>2
<1> QED BY Zenon, <1>1, <1>3, <1>4, <1>5

\* What the revisions of an artifact added is among what it uses.
LEMMA BroughtUsed == ASSUME NEW revs, NEW a PROVE BroughtOf(revs, a) \subseteq UsesOf(revs, a)
BY DEF BroughtOf, UsesOf

LEMMA OneCommand ==
    ASSUME TypeOK, NEW p \in Procs, NEW c, cmd' = [cmd EXCEPT ![p] = c]
    PROVE  cmd'[p] = c /\ \A r \in Procs : r # p => cmd'[r] = cmd[r]
BY DEF TypeOK

\* What a command knows of the artifact lasts while it moves to descendants.
LEMMA BaseLasts ==
    ASSUME NEW d \in Commands, NEW revs, NEW h \in HomeFiles, NEW g \in HomeFiles,
           \A x \in Homes : Extends(h[x].art, g[x].art), BaseCovered(d, revs, h)
    PROVE  BaseCovered(d, revs, g)
<1>1. d.base \in Seq(Nat) /\ d.target \in Seq(Nat) /\ d.home \in Homes
  BY DEF Commands, Artifacts
<1>2. h[d.home].art \in Seq(Nat) /\ g[d.home].art \in Seq(Nat)
  BY <1>1 DEF HomeFiles, Artifacts
<1>3. Extends(h[d.home].art, g[d.home].art)
  BY Zenon, <1>1
<1>4. \A a \in Seq(Nat) : Extends(a, h[d.home].art) => Extends(a, g[d.home].art)
  BY Zenon, <1>2, <1>3, ExtendsTransitively
<1> QED BY ZenonT(60), <1>1, <1>4 DEF BaseCovered

\* A step that changes one command only.
LEMMA KnowingSteps ==
    ASSUME CatalogInvariant, TypeOK, NEW p \in Procs, NEW c, cmd' = [cmd EXCEPT ![p] = c],
           UNCHANGED <<home, catalog, revisions, published, scenario>>,
           PlanCovered(c, revisions, scenario), BaseCovered(c, revisions, home), LockCovered(c, home, catalog)
    PROVE  CatalogInvariant'
<1>1. \A r \in Procs : CommandCovered(cmd'[r], revisions, home, catalog, scenario)
  BY Zenon, OneCommand DEF CatalogInvariant, CommandCovered
<1> QED BY Zenon, <1>1 DEF CatalogInvariant

\* A step of the command that holds the lock which changes the catalog or an
\* artifact too.
LEMMA LockedSteps ==
    ASSUME CatalogInvariant, CommitInvariant, NEW p \in Procs, cmd[p].pc \in Holding, NEW c,
           cmd' = [cmd EXCEPT ![p] = c], UNCHANGED <<revisions, scenario>>,
           home' \in HomeFiles, \A x \in Homes : Extends(home[x].art, home'[x].art),
           catalog' \subseteq DOMAIN revisions,
           HomesCovered(home', catalog', revisions, scenario),
           PublishedOK(published', revisions, home', scenario),
           PlanCovered(c, revisions, scenario), BaseCovered(c, revisions, home'), LockCovered(c, home', catalog')
    PROVE  CatalogInvariant'
<1>0. TypeOK /\ home \in HomeFiles /\ \A r \in Procs : cmd[r] \in Commands
  BY Zenon DEF CommitInvariant, TypeOK, HomeFiles
<1>1. cmd'[p] = c /\ \A r \in Procs : r # p => cmd'[r] = cmd[r]
  BY Zenon, <1>0, OneCommand
<1>2. \A r \in Procs : r # p => cmd[r].pc \notin Holding
  BY Zenon DEF CommitInvariant
<1>3. \A d : d.pc \notin Holding => LockCovered(d, home', catalog')
  BY Zenon DEF LockCovered, Compared, Holding, Publishing
<1>4. \A r \in Procs : PlanCovered(cmd[r], revisions, scenario) /\ BaseCovered(cmd[r], revisions, home)
  BY Zenon DEF CatalogInvariant, CommandCovered
<1>5. \A r \in Procs : BaseCovered(cmd[r], revisions, home')
  BY Zenon, <1>0, <1>4, BaseLasts
<1>6. \A r \in Procs : CommandCovered(cmd'[r], revisions, home', catalog', scenario)
  BY Zenon, <1>1, <1>2, <1>3, <1>4, <1>5 DEF CommandCovered
<1> QED BY Zenon, <1>6 DEF CatalogInvariant

\* What a command that returns the lock keeps: nothing, or its plan.
LEMMA ReturnKnows ==
    ASSUME CatalogInvariant, TypeOK, NEW p \in Procs, cmd[p].pc \in Holding, Return(p)
    PROVE  \E c : /\ cmd' = [cmd EXCEPT ![p] = c] /\ PlanCovered(c, revisions, scenario)
                  /\ BaseCovered(c, revisions, home) /\ \A h, k : LockCovered(c, h, k)
<1>0. /\ cmd[p] \in Commands /\ PlanCovered(cmd[p], revisions, scenario)
      /\ BaseCovered(cmd[p], revisions, home) /\ home \in HomeFiles
  BY Zenon DEF CatalogInvariant, CommandCovered, TypeOK, HomeFiles
<1>1. CASE Go(p, Idle)
  BY Zenon, <1>0, <1>1, IdleCovered DEF Go
<1>2. CASE /\ cmd[p].flow \in {"commit", "reconcile"}
           /\ Go(p, [cmd[p] EXCEPT !.pc = "planned", !.flow = "commit", !.inode = 0,
                                   !.update = FALSE, !.next = NoFiles])
  <2>1. PICK c : c = [cmd[p] EXCEPT !.pc = "planned", !.flow = "commit", !.inode = 0,
                                    !.update = FALSE, !.next = NoFiles]
    BY Zenon
  <2>2. c.pc = "planned" /\ c.flow = "commit" /\ Kept(c, cmd[p])
    BY Zenon, <1>0, <2>1 DEF Commands, Kept
  <2>3. cmd[p].pc # "read" /\ cmd[p].pc # "idle" /\ Committing(cmd[p])
    BY Zenon, <1>2 DEF Committing, Holding, Publishing
  <2>4. PlanCovered(c, revisions, scenario)
    BY Zenon, <1>0, <2>2, <2>3 DEF PlanCovered, TargetCovered, Kept
  <2>5. BaseCovered(c, revisions, home)
    BY Zenon, <1>0, <2>2, <2>3 DEF BaseCovered, Kept
  <2>6. \A h, k : LockCovered(c, h, k)
    BY Zenon, <2>2 DEF LockCovered, Compared
  <2> QED BY Zenon, <1>2, <2>1, <2>4, <2>5, <2>6 DEF Go
<1> QED BY Zenon, <1>1, <1>2 DEF Return

LEMMA SameHomes == ASSUME TypeOK, UNCHANGED home PROVE home' \in HomeFiles /\ \A x \in Homes : Extends(home[x].art, home'[x].art)
<1>1. home \in HomeFiles
  BY Zenon DEF TypeOK, HomeFiles
<1>2. \A x \in Homes : home[x].art \in Seq(Nat)
  BY <1>1 DEF HomeFiles, Artifacts
<1> QED BY Zenon, <1>1, <1>2, ExtendsItself

LEMMA ReturnSteps ==
    ASSUME CatalogInvariant, CommitInvariant, NEW p \in Procs, cmd[p].pc \in Holding, Return(p),
           UNCHANGED <<home, revisions, published, scenario>>, catalog' \subseteq DOMAIN revisions,
           HomesCovered(home, catalog', revisions, scenario)
    PROVE  CatalogInvariant'
<1>1. TypeOK /\ home' \in HomeFiles /\ \A x \in Homes : Extends(home[x].art, home'[x].art)
  BY Zenon, SameHomes DEF CommitInvariant
<1>2. PICK c : /\ cmd' = [cmd EXCEPT ![p] = c] /\ PlanCovered(c, revisions, scenario)
               /\ BaseCovered(c, revisions, home') /\ LockCovered(c, home', catalog')
  BY Zenon, <1>1, ReturnKnows
<1>3. PublishedOK(published', revisions, home', scenario)
  BY Zenon DEF CatalogInvariant
<1>4. HomesCovered(home', catalog', revisions, scenario)
  BY Zenon
<1> QED BY Zenon, <1>1, <1>2, <1>3, <1>4, LockedSteps

\* The place of a command outside a commit.
LEMMA ElsewhereCovered ==
    ASSUME NEW c, NEW d, NEW revs, NEW s, PlanCovered(d, revs, s), Kept(c, d), d.pc \notin {"idle", "read"},
           c.flow \notin {"commit", "reconcile"} \/ c.pc \in {"ready", "checkpoint", "receipts"},
           c.pc \notin {"validate", "rename", "idle", "read"},
           Committing(c) => Committing(d)
    PROVE  /\ PlanCovered(c, revs, s) /\ \A h, k : LockCovered(c, h, k)
           /\ \A h : BaseCovered(d, revs, h) => BaseCovered(c, revs, h)
<1>1. PlanCovered(c, revs, s)
  BY Zenon DEF PlanCovered, TargetCovered, Kept
<1>2. \A h, k : LockCovered(c, h, k)
  BY Zenon DEF LockCovered, Compared
<1>3. \A h : BaseCovered(d, revs, h) => BaseCovered(c, revs, h)
  BY Zenon DEF BaseCovered, Kept
<1> QED BY Zenon, <1>1, <1>2, <1>3

\* Reading, opening and ending a command, and the events outside a commit.
LEMMA OpeningKnows ==
    ASSUME CatalogInvariant, TypeOK, NEW p \in Procs, UNCHANGED scenario,
           \/ \E h \in scenario.homes \cap Homes : ReadVault(p, h)
           \/ Probe(p) \/ StartInitialize(p) \/ Open(p) \/ StartAdvance(p) \/ StartEvent(p)
           \/ Refuse(p) \/ Crash(p)
    PROVE  CatalogInvariant'
<1>0. /\ cmd[p] \in Commands /\ PlanCovered(cmd[p], revisions, scenario)
      /\ BaseCovered(cmd[p], revisions, home) /\ home \in HomeFiles
      /\ catalog \subseteq DOMAIN revisions
  BY Zenon DEF CatalogInvariant, CommandCovered, TypeOK, HomeFiles
<1>1. ASSUME NEW h \in scenario.homes \cap Homes, ReadVault(p, h) PROVE CatalogInvariant'
  <2>1. PICK c : c = [Idle EXCEPT !.pc = "read", !.home = h, !.base = home[h].art]
    BY Zenon
  <2>2. /\ c.pc = "read" /\ c.home = h /\ c.base = home[h].art /\ c.target = <<>> /\ c.flow = "none"
        /\ c.cat = {}
    BY <2>1 DEF Idle
  <2>3. Within(revisions, home[h].art)
    BY ZenonT(60), <1>1 DEF CatalogInvariant, HomesCovered
  <2>4. Within(revisions, <<>>)
    BY DEF Within
  <2>5. ~Committing(c)
    BY Zenon, <2>2 DEF Committing
  <2>6. PlanCovered(c, revisions, scenario) /\ LockCovered(c, home, catalog)
    BY Zenon, <1>1, <2>2, <2>3, <2>4, <2>5 DEF PlanCovered, LockCovered, Compared
  <2>7. BaseCovered(c, revisions, home)
    <3>1. home[h].art \in Seq(Nat)
      BY <1>0, <1>1 DEF HomeFiles, Artifacts
    <3>2. Extends(c.base, home[c.home].art)
      BY Zenon, <2>2, <3>1, ExtendsItself
    <3> QED BY ZenonT(60), <2>5, <3>2 DEF BaseCovered
  <2>8. cmd' = [cmd EXCEPT ![p] = c] /\ UNCHANGED <<home, catalog, revisions, published>>
    BY Zenon, <1>1, <2>1 DEF ReadVault, Go
  <2> QED BY Zenon, <2>6, <2>7, <2>8, KnowingSteps
<1>2. CASE Probe(p)
  <2>1. PICK c : c = [cmd[p] EXCEPT !.pc = "probed", !.cat = catalog, !.absent = Absent(files[Me(p)])]
    BY Zenon
  <2>2. /\ c.pc = "probed" /\ c.home = cmd[p].home /\ c.base = cmd[p].base /\ c.target = cmd[p].target
        /\ c.cat = catalog
    BY Zenon, <1>0, <2>1 DEF Commands
  <2>3. cmd[p].pc = "read" /\ UsesOf(revisions, cmd[p].base) \subseteq catalog
    BY Zenon, <1>2 DEF Probe, At, Uses, UsesOf
  <2>4. ~Committing(c)
    BY Zenon, <2>2 DEF Committing, Holding, Publishing
  <2>5. PlanCovered(c, revisions, scenario) /\ LockCovered(c, home, catalog) /\ BaseCovered(c, revisions, home)
    BY Zenon, <1>0, <2>2, <2>3, <2>4 DEF PlanCovered, LockCovered, Compared, BaseCovered
  <2>6. cmd' = [cmd EXCEPT ![p] = c] /\ UNCHANGED <<home, catalog, revisions, published>>
    BY Zenon, <1>2, <2>1 DEF Probe, Go
  <2> QED BY Zenon, <2>5, <2>6, KnowingSteps
<1>3. ASSUME NEW pc \in {"audit", "checkpoint"}, NEW flow \in {"initialize", "advance", "event"}, NEW next,
             cmd[p].pc \notin {"idle", "read"},
             cmd' = [cmd EXCEPT ![p] = [cmd[p] EXCEPT !.pc = pc, !.flow = flow, !.next = next]],
             UNCHANGED <<home, catalog, revisions, published>>
      PROVE  CatalogInvariant'
  <2>1. PICK c : c = [cmd[p] EXCEPT !.pc = pc, !.flow = flow, !.next = next]
    BY Zenon
  <2>2. Kept(c, cmd[p]) /\ c.pc = pc /\ c.flow = flow
    BY Zenon, <1>0, <2>1 DEF Commands, Kept
  <2>3. c.pc \notin {"validate", "rename", "idle", "read"} /\ c.flow \notin {"commit", "reconcile"}
    BY Zenon, <1>3, <2>2
  <2>4. ~Committing(c)
    BY Zenon, <2>3 DEF Committing
  <2>5. PlanCovered(c, revisions, scenario) /\ LockCovered(c, home, catalog) /\ BaseCovered(c, revisions, home)
    BY Zenon, <1>0, <1>3, <2>2, <2>3, <2>4, ElsewhereCovered
  <2> QED BY Zenon, <1>3, <2>1, <2>5, KnowingSteps
<1>4. CASE StartInitialize(p)
  BY Zenon, <1>3, <1>4 DEF StartInitialize, At, Go
<1>5. CASE StartAdvance(p)
  BY Zenon, <1>3, <1>5 DEF StartAdvance, At, Go
<1>6. CASE StartEvent(p)
  BY Zenon, <1>3, <1>6 DEF StartEvent, At, Go
<1>7. CASE Open(p)
  <2>1. PICK c : c = [cmd[p] EXCEPT !.pc = "ready"]
    BY Zenon
  <2>2. Kept(c, cmd[p]) /\ c.pc = "ready"
    BY Zenon, <1>0, <2>1 DEF Commands, Kept
  <2>3. cmd[p].pc = "probed" /\ cmd' = [cmd EXCEPT ![p] = c] /\ UNCHANGED <<home, catalog, revisions, published>>
    BY Zenon, <1>7, <2>1 DEF Open, At, Step, Go
  <2>4. ~Committing(c)
    BY Zenon, <2>2 DEF Committing, Holding, Publishing
  <2>5. PlanCovered(c, revisions, scenario) /\ LockCovered(c, home, catalog) /\ BaseCovered(c, revisions, home)
    BY Zenon, <1>0, <2>2, <2>3, <2>4, ElsewhereCovered
  <2> QED BY Zenon, <2>3, <2>5, KnowingSteps
<1>8. CASE Refuse(p) \/ Crash(p)
  <2>1. cmd' = [cmd EXCEPT ![p] = Idle] /\ UNCHANGED <<home, catalog, revisions, published>>
    BY Zenon, <1>8 DEF Refuse, Crash, Go
  <2> QED BY Zenon, <1>0, <2>1, IdleCovered, KnowingSteps
<1> QED BY Zenon, <1>1, <1>2, <1>4, <1>5, <1>6, <1>7, <1>8

\* Planning: the catalog that is planned has the policies of the target.
LEMMA PlanningKnows ==
    ASSUME CatalogInvariant, TypeOK, NEW p \in Procs, UNCHANGED scenario,
           (\E w \in 0 .. MaxRevisions : PlanMutation(p, w)) \/ \E a \in Known : PlanImport(p, a)
    PROVE  CatalogInvariant'
<1>0. /\ cmd[p] \in Commands /\ PlanCovered(cmd[p], revisions, scenario) /\ BaseCovered(cmd[p], revisions, home)
      /\ cmd[p].base \in Seq(Nat) /\ revisions \in Seq(Nat) /\ cmd[p].pc = "ready"
      /\ Named(revisions) /\ home \in HomeFiles
  <2>1. /\ cmd[p] \in Commands /\ PlanCovered(cmd[p], revisions, scenario) /\ revisions \in Seq(Nat)
        /\ Named(revisions) /\ home \in HomeFiles /\ BaseCovered(cmd[p], revisions, home)
    BY Zenon DEF CatalogInvariant, CommandCovered, TypeOK, HomeFiles
  <2>2. cmd[p].base \in Seq(Nat)
    BY Zenon, <2>1 DEF Commands, Artifacts
  <2> QED BY Zenon, <2>1, <2>2 DEF PlanMutation, PlanImport, At
<1>1. /\ Within(revisions, cmd[p].base) /\ UsesOf(revisions, cmd[p].base) \subseteq cmd[p].cat
      /\ cmd[p].home \in scenario.homes /\ cmd[p].cat \subseteq DOMAIN revisions
      /\ Extends(cmd[p].base, home[cmd[p].home].art)
  BY Zenon, <1>0 DEF PlanCovered, BaseCovered
<1>2. ASSUME NEW a \in Known, PlanImport(p, a) PROVE CatalogInvariant'
  <2>1. PICK cats : cats = cmd[p].cat \cup Uses(a)
    BY Zenon
  <2>2. PICK c : c = [cmd[p] EXCEPT !.pc = "planned", !.flow = "commit", !.git = home[cmd[p].home].git,
                                    !.target = a, !.catTarget = cats]
    BY Zenon
  <2>3. cmd' = [cmd EXCEPT ![p] = c] /\ a # cmd[p].base
    BY Zenon, <1>2, <2>1, <2>2 DEF PlanImport, Plan, Go
  <2>4. /\ c.pc = "planned" /\ c.flow = "commit" /\ c.base = cmd[p].base /\ c.target = a
        /\ c.home = cmd[p].home /\ c.cat = cmd[p].cat /\ c.catTarget = cats
    BY Zenon, <1>0, <2>2 DEF Commands
  <2>5. Within(revisions, a) /\ Extends(a, home[cmd[p].home].art)
    <3>1. Within(revisions, <<>>)
      BY DEF Within
    <3>2. cmd[p].home \in Homes
      BY <1>0 DEF Commands
    <3>3. home[cmd[p].home].art \in Seq(Nat)
      BY <1>0, <3>2 DEF HomeFiles, Artifacts
    <3>4. Extends(<<>>, home[cmd[p].home].art)
      BY Zenon, <3>3, NothingExtends
    <3> QED BY Zenon, <1>1, <3>1, <3>4 DEF Known, CatalogInvariant, PublishedOK
  <2>6. UsesOf(revisions, a) = Uses(a) /\ Uses(a) \subseteq DOMAIN revisions
    BY Zenon DEF Uses, UsesOf
  <2>7. TargetCovered(c, revisions)
    <3>1. UsesOf(revisions, c.base) \subseteq c.catTarget /\ UsesOf(revisions, c.target) \subseteq c.catTarget
      BY Zenon, <1>1, <2>1, <2>4, <2>6
    <3>2. c.catTarget \subseteq DOMAIN revisions /\ c.target # c.base
      BY Zenon, <1>1, <2>1, <2>3, <2>4, <2>6
    <3>3. UsesOf(revisions, c.target) \subseteq c.cat => c.cat = c.catTarget
      BY Zenon, <2>1, <2>4, <2>6
    <3> QED BY Zenon, <3>1, <3>2, <3>3 DEF TargetCovered
  <2>8. PlanCovered(c, revisions, scenario) /\ BaseCovered(c, revisions, home)
    BY Zenon, <1>1, <2>5, <2>7, <2>4 DEF PlanCovered, BaseCovered
  <2>9. LockCovered(c, home, catalog)
    BY Zenon, <2>4 DEF LockCovered, Compared
  <2>10. UNCHANGED <<home, catalog, revisions, published>>
    BY Zenon, <1>2 DEF PlanImport
  <2> QED BY Zenon, <2>8, <2>9, <2>10, <2>3, KnowingSteps
<1>3. ASSUME NEW w \in 0 .. MaxRevisions, PlanMutation(p, w) PROVE CatalogInvariant'
  <2>0. w \in Nat
    BY CommitBoundsAssumption
  <2>1. PICK i : i = Len(revisions) + 1
    BY Zenon
  <2>2. PICK target : target = Append(cmd[p].base, i)
    BY Zenon
  <2>3. PICK more : more = Append(revisions, w) /\ revisions' = more
    BY Zenon, <1>3 DEF PlanMutation
  <2>4. /\ DOMAIN more = DOMAIN revisions \cup {i} /\ more[i] = w /\ i \notin DOMAIN revisions
        /\ \A j \in DOMAIN revisions : more[j] = revisions[j]
        /\ DOMAIN target = DOMAIN cmd[p].base \cup {Len(cmd[p].base) + 1}
        /\ target[Len(cmd[p].base) + 1] = i /\ \A k \in DOMAIN cmd[p].base : target[k] = cmd[p].base[k]
        /\ target # cmd[p].base
    <3>1. revisions \in Seq(Nat) /\ cmd[p].base \in Seq(Nat)
      BY Zenon, <1>0
    <3>2. i \in Nat
      BY <2>1, <3>1
    <3>3. /\ DOMAIN more = DOMAIN revisions \cup {i} /\ more[i] = w /\ i \notin DOMAIN revisions
          /\ \A j \in DOMAIN revisions : more[j] = revisions[j]
      BY ZenonT(60), <2>0, <2>1, <2>3, <3>1, AppendAt
    <3>4. /\ DOMAIN target = DOMAIN cmd[p].base \cup {Len(cmd[p].base) + 1}
          /\ target[Len(cmd[p].base) + 1] = i /\ \A k \in DOMAIN cmd[p].base : target[k] = cmd[p].base[k]
          /\ Len(cmd[p].base) + 1 \notin DOMAIN cmd[p].base
      BY ZenonT(60), <2>2, <3>1, <3>2, AppendAt
    <3> QED BY Zenon, <3>3, <3>4
  <2>5. PICK cats : cats = IF w = i THEN UsesOf(revisions, cmd[p].base) \cup {i} ELSE cmd[p].cat
    BY Zenon
  <2>6. PICK c : c = [cmd[p] EXCEPT !.pc = "planned", !.flow = "commit", !.git = home[cmd[p].home].git,
                                    !.target = target, !.catTarget = cats]
    BY Zenon
  <2>7. cmd' = [cmd EXCEPT ![p] = c] /\ (w = 0 \/ w = i \/ w \in cmd[p].cat)
    <3>1. UsesOf(revisions, cmd[p].base) = Uses(cmd[p].base)
      BY Zenon DEF Uses, UsesOf
    <3> QED BY Zenon, <1>3, <2>1, <2>2, <2>5, <2>6, <3>1 DEF PlanMutation, Plan, Go
  <2>8. /\ c.pc = "planned" /\ c.flow = "commit" /\ c.base = cmd[p].base /\ c.target = target
         /\ c.home = cmd[p].home /\ c.cat = cmd[p].cat /\ c.catTarget = cats
    BY Zenon, <1>0, <2>6 DEF Commands
  <2>9. \A a : Within(revisions, a) => /\ Within(more, a) /\ UsesOf(more, a) = UsesOf(revisions, a)
                                       /\ BroughtOf(more, a) = BroughtOf(revisions, a)
    BY Zenon, <1>0, <2>0, <2>3, UsesLasts
  <2>10. Within(more, target)
    BY Zenon, <1>1, <2>4, <2>9 DEF Within
  <2>11. Named(more)
    BY Zenon, <1>0, <1>1, <2>4, <2>7 DEF Named
  <2>12. ASSUME NEW u \in UsesOf(more, target) PROVE u \in UsesOf(revisions, cmd[p].base) \/ u = w
    <3>1. PICK k \in DOMAIN target : more[target[k]] = u
      BY Zenon DEF UsesOf
    <3>2. CASE k \in DOMAIN cmd[p].base
      <4>1. more[cmd[p].base[k]] = u /\ u \in DOMAIN more
        BY Zenon, <2>4, <3>1, <3>2 DEF UsesOf
      <4>2. u \in UsesOf(more, cmd[p].base)
        BY Zenon, <3>2, <4>1 DEF UsesOf
      <4> QED BY Zenon, <1>1, <2>9, <4>2
    <3>3. CASE k \notin DOMAIN cmd[p].base
      BY Zenon, <2>4, <3>1, <3>3
    <3> QED BY Zenon, <3>2, <3>3
  <2>13. 0 \notin UsesOf(more, target)
    <3>1. 0 \notin DOMAIN more
      BY <1>0, <2>0, <2>3
    <3> QED BY ZenonT(60), <3>1 DEF UsesOf
  <2>14. TargetCovered(c, more)
    <3>1. UsesOf(more, c.base) \subseteq c.catTarget
      BY Zenon, <1>1, <2>5, <2>8, <2>9
    <3>2. UsesOf(more, c.target) \subseteq c.catTarget
      BY Zenon, <1>1, <2>5, <2>7, <2>8, <2>12, <2>13
    <3>3. c.catTarget \subseteq DOMAIN more /\ c.target # c.base
      <4>1. UsesOf(revisions, cmd[p].base) \subseteq DOMAIN revisions
        BY Zenon DEF UsesOf
      <4> QED BY Zenon, <1>1, <2>4, <2>5, <2>8, <4>1
    <3>4. ASSUME c.cat # c.catTarget PROVE ~(UsesOf(more, c.target) \subseteq c.cat)
      <4>1. w = i /\ i \notin cmd[p].cat
        BY Zenon, <1>1, <2>4, <2>5, <2>8, <3>4
      <4>2. i \in UsesOf(more, target)
        BY Zenon, <2>4, <4>1 DEF UsesOf
      <4> QED BY Zenon, <2>8, <4>1, <4>2
    <3> QED BY Zenon, <3>1, <3>2, <3>3, <3>4 DEF TargetCovered
  <2>15. PlanCovered(c, more, scenario)
    BY Zenon, <1>1, <2>4, <2>9, <2>10, <2>14, <2>8 DEF PlanCovered
  <2>16. BaseCovered(c, more, home)
    <3>1. ASSUME c.cat = c.catTarget, NEW u \in BroughtOf(more, c.target) PROVE u \in BroughtOf(more, c.base)
      <4>1. w # i
        BY ZenonT(60), <1>1, <2>4, <2>5, <2>8, <3>1
      <4>2. PICK k \in DOMAIN target : target[k] = u
        BY Zenon, <2>8, <3>1 DEF BroughtOf
      <4>3. more[u] = u /\ u \in DOMAIN more
        BY Zenon, <3>1 DEF BroughtOf
      <4>4. k \in DOMAIN cmd[p].base
        BY Zenon, <2>4, <4>1, <4>2, <4>3
      <4> QED BY Zenon, <2>4, <2>8, <4>2, <4>3, <4>4 DEF BroughtOf
    <3> QED BY Zenon, <1>1, <2>8, <3>1 DEF BaseCovered
  <2>17. UNCHANGED <<home, catalog, published>>
    BY Zenon, <1>3 DEF PlanMutation
  <2>18. LockCovered(c, home, catalog)
    BY Zenon, <2>8 DEF LockCovered, Compared
  <2>19. HomesCovered(home, catalog, more, scenario)
    BY Zenon, <2>9 DEF CatalogInvariant, HomesCovered
  <2>20. PublishedOK(published, more, home, scenario)
    BY Zenon, <2>9 DEF CatalogInvariant, PublishedOK
  <2>21. \A d : PlanCovered(d, revisions, scenario) => PlanCovered(d, more, scenario)
    BY ZenonT(60), <2>4, <2>9 DEF PlanCovered, TargetCovered
  <2>22. ASSUME NEW d, PlanCovered(d, revisions, scenario), BaseCovered(d, revisions, home)
         PROVE  BaseCovered(d, more, home)
    <3>1. BroughtOf(more, d.base) = BroughtOf(revisions, d.base) /\ BroughtOf(more, d.target) = BroughtOf(revisions, d.target)
      BY Zenon, <2>9, <2>22 DEF PlanCovered
    <3> QED BY Zenon, <2>22, <3>1 DEF BaseCovered
  <2>23. \A r \in Procs : CommandCovered(cmd'[r], more, home, catalog, scenario)
    BY Zenon, <2>15, <2>16, <2>18, <2>21, <2>22, <2>7, OneCommand DEF CatalogInvariant, CommandCovered
  <2>24. catalog \subseteq DOMAIN more
    BY Zenon, <2>4 DEF CatalogInvariant
  <2> QED BY Zenon, <2>3, <2>11, <2>17, <2>19, <2>20, <2>23, <2>24 DEF CatalogInvariant
<1> QED BY Zenon, <1>2, <1>3

\* Taking the lock, and the comparisons of a commit.
LEMMA ComparingKnows ==
    ASSUME CatalogInvariant, CommitInvariant, NEW p \in Procs, UNCHANGED scenario,
           \/ Acquire(p) \/ Examine(p) \/ ExamineTarget(p) \/ Abandon(p) \/ GitMoved(p)
           \/ Validate(p) \/ SharedFailed(p)
    PROVE  CatalogInvariant'
<1>0. /\ TypeOK /\ cmd[p] \in Commands /\ PlanCovered(cmd[p], revisions, scenario)
      /\ BaseCovered(cmd[p], revisions, home)
      /\ LockCovered(cmd[p], home, catalog) /\ FlowOK(cmd[p])
      /\ HomesCovered(home, catalog, revisions, scenario) /\ catalog \subseteq DOMAIN revisions
  BY Zenon DEF CatalogInvariant, CommandCovered, CommitInvariant, TypeOK
<1>1. ASSUME NEW c, Kept(c, cmd[p]), cmd[p].pc \in Holding \cup {"planned"},
             c.pc \in Holding \cup {"planned"}, c.flow \in {"commit", "reconcile"}, cmd[p].flow = "commit"
      PROVE  PlanCovered(c, revisions, scenario) /\ BaseCovered(c, revisions, home)
  <2>1. cmd[p].pc # "idle" /\ cmd[p].pc # "read" /\ Committing(cmd[p])
    BY Zenon, <1>1 DEF Holding, Publishing, Committing
  <2>2. PlanCovered(c, revisions, scenario)
    BY Zenon, <1>0, <1>1, <2>1 DEF PlanCovered, TargetCovered, Kept
  <2>3. BaseCovered(c, revisions, home)
    BY Zenon, <1>0, <1>1, <2>1 DEF BaseCovered, Kept
  <2> QED BY Zenon, <2>2, <2>3
<1>2. CASE Acquire(p)
  <2>1. PICK c : c = [cmd[p] EXCEPT !.pc = "previewed", !.inode = home[cmd[p].home].inode,
                                    !.update = cmd[p].cat # cmd[p].catTarget /\ catalog # cmd[p].catTarget]
    BY Zenon
  <2>2. /\ Kept(c, cmd[p]) /\ c.pc = "previewed" /\ c.flow = cmd[p].flow
        /\ c.inode = home[cmd[p].home].inode
    BY Zenon, <1>0, <2>1 DEF Commands, Kept
  <2>3. c.update = (cmd[p].cat # cmd[p].catTarget /\ catalog # cmd[p].catTarget)
    BY Zenon, <1>0, <2>1 DEF Commands
  <2>4. /\ cmd' = [cmd EXCEPT ![p] = c] /\ cmd[p].pc = "planned"
        /\ cmd[p].cat # cmd[p].catTarget => catalog \in {cmd[p].cat, cmd[p].catTarget}
        /\ UNCHANGED <<home, catalog, revisions, published>>
    BY Zenon, <1>2, <2>1 DEF Acquire, Go, At
  <2>5. cmd[p].flow = "commit"
    BY Zenon, <1>0, <2>4 DEF FlowOK
  <2>6. PlanCovered(c, revisions, scenario) /\ BaseCovered(c, revisions, home)
    BY Zenon, <1>1, <2>2, <2>4, <2>5 DEF Holding
  <2>7. LockCovered(c, home, catalog)
    BY Zenon, <2>2, <2>3, <2>4 DEF LockCovered, Compared, Kept
  <2> QED BY Zenon, <1>0, <2>4, <2>6, <2>7, KnowingSteps
<1>3. CASE Examine(p)
  <2>0. PICK next : Go(p, [cmd[p] EXCEPT !.pc = "audit", !.next = next])
    BY Zenon, <1>3 DEF Examine
  <2>1. PICK c : c = [cmd[p] EXCEPT !.pc = "audit", !.next = next]
    BY Zenon
  <2>2. /\ Kept(c, cmd[p]) /\ c.pc = "audit" /\ c.flow = cmd[p].flow /\ c.update = cmd[p].update
        /\ c.inode = cmd[p].inode
    BY Zenon, <1>0, <2>1 DEF Commands, Kept
  <2>3. /\ cmd' = [cmd EXCEPT ![p] = c] /\ cmd[p].pc = "previewed" /\ home[cmd[p].home].art = cmd[p].base
        /\ UNCHANGED <<home, catalog, revisions, published>>
    BY Zenon, <1>3, <2>0, <2>1 DEF Examine, Go, At
  <2>4. cmd[p].flow = "commit" /\ Committing(cmd[p])
    BY Zenon, <1>0, <2>3 DEF FlowOK, Committing, Holding
  <2>5. PlanCovered(c, revisions, scenario) /\ BaseCovered(c, revisions, home)
    BY Zenon, <1>1, <2>2, <2>3, <2>4 DEF Holding, Publishing
  <2>6. LockCovered(c, home, catalog)
    BY ZenonT(60), <1>0, <2>2, <2>3, <2>4 DEF LockCovered, Compared, Kept
  <2> QED BY Zenon, <1>0, <2>3, <2>5, <2>6, KnowingSteps
<1>4. CASE ExamineTarget(p)
  <2>0. PICK next : Go(p, [cmd[p] EXCEPT !.pc = "catalog", !.flow = "reconcile", !.next = next])
    BY Zenon, <1>4 DEF ExamineTarget
  <2>1. PICK c : c = [cmd[p] EXCEPT !.pc = "catalog", !.flow = "reconcile", !.next = next]
    BY Zenon
  <2>2. Kept(c, cmd[p]) /\ c.pc = "catalog" /\ c.flow = "reconcile" /\ c.update = cmd[p].update
    BY Zenon, <1>0, <2>1 DEF Commands, Kept
  <2>3. /\ cmd' = [cmd EXCEPT ![p] = c] /\ cmd[p].pc = "previewed" /\ home[cmd[p].home].art = cmd[p].target
        /\ UNCHANGED <<home, catalog, revisions, published>>
    BY Zenon, <1>4, <2>0, <2>1 DEF ExamineTarget, Go, At
  <2>4. cmd[p].flow = "commit" /\ Committing(cmd[p])
    BY Zenon, <1>0, <2>3 DEF FlowOK, Committing, Holding
  <2>5. PlanCovered(c, revisions, scenario) /\ BaseCovered(c, revisions, home)
    BY Zenon, <1>1, <2>2, <2>3, <2>4 DEF Holding, Publishing
  <2>6. LockCovered(c, home, catalog)
    BY ZenonT(60), <1>0, <2>2, <2>3, <2>4 DEF LockCovered, Compared, Kept
  <2> QED BY Zenon, <1>0, <2>3, <2>5, <2>6, KnowingSteps
<1>5. ASSUME Return(p), cmd[p].pc \in Holding, UNCHANGED <<home, catalog, revisions, published>>
      PROVE  CatalogInvariant'
  <2>1. HomesCovered(home, catalog', revisions, scenario) /\ catalog' \subseteq DOMAIN revisions
    BY Zenon, <1>0, <1>5
  <2> QED BY Zenon, <1>5, <2>1, ReturnSteps
<1>6. CASE Abandon(p)
  <2>1. cmd[p].pc \in Holding
    BY Zenon, <1>6 DEF Abandon, Holding, Publishing
  <2> QED BY Zenon, <1>5, <1>6, <2>1 DEF Abandon
<1>7. CASE GitMoved(p)
  <2>1. cmd[p].pc \in Holding
    BY Zenon, <1>7 DEF GitMoved, At, Holding, Publishing
  <2> QED BY Zenon, <1>5, <1>7, <2>1 DEF GitMoved
<1>8. ASSUME NEW pc \in {"rename", "restore"}, Step(p, pc), cmd[p].pc \in {"validate", "rename"},
             UNCHANGED <<home, catalog, revisions, published>>
      PROVE  CatalogInvariant'
  <2>1. PICK c : c = [cmd[p] EXCEPT !.pc = pc]
    BY Zenon
  <2>2. Kept(c, cmd[p]) /\ c.pc = pc /\ c.flow = cmd[p].flow /\ c.inode = cmd[p].inode
    BY Zenon, <1>0, <2>1 DEF Commands, Kept
  <2>3. cmd' = [cmd EXCEPT ![p] = c]
    BY Zenon, <1>8, <2>1 DEF Step, Go
  <2>4. cmd[p].flow = "commit"
    BY Zenon, <1>0, <1>8 DEF FlowOK
  <2>5. PlanCovered(c, revisions, scenario) /\ BaseCovered(c, revisions, home)
    <3>1. cmd[p].pc \in Holding /\ c.pc \in Holding
      BY Zenon, <1>8, <2>2 DEF Holding, Publishing
    <3> QED BY Zenon, <1>1, <2>2, <2>4, <3>1
  <2>6. LockCovered(c, home, catalog)
    BY ZenonT(60), <1>0, <1>8, <2>2, <2>4 DEF LockCovered, Compared, Kept
  <2> QED BY Zenon, <1>0, <1>8, <2>3, <2>5, <2>6, KnowingSteps
<1>9. CASE Validate(p)
  BY Zenon, <1>8, <1>9 DEF Validate, At
<1>10. CASE SharedFailed(p)
  <2>1. cmd[p].pc \in {"validate", "rename"} /\ UNCHANGED <<home, catalog, revisions, published>>
    BY Zenon, <1>10 DEF SharedFailed, At
  <2>2. Step(p, "restore") \/ Return(p)
    BY Zenon, <1>10 DEF SharedFailed
  <2>3. cmd[p].pc \in Holding
    BY Zenon, <2>1 DEF Holding, Publishing
  <2> QED BY Zenon, <1>5, <1>8, <2>1, <2>2, <2>3
<1> QED BY Zenon, <1>2, <1>3, <1>4, <1>6, <1>7, <1>9, <1>10

\* The homes are covered by a catalog that has the policies of the one artifact.
LEMMA OneHomeCovered ==
    ASSUME HomesCovered(home, catalog, revisions, scenario), NEW g \in Homes, scenario.homes = {g},
           NEW k, UsesOf(revisions, home[g].art) \subseteq k
    PROVE  HomesCovered(home, k, revisions, scenario)
<1>1. BroughtOf(revisions, <<>>) = {}
  BY DEF BroughtOf
<1>2. BroughtOf(revisions, home[g].art) \subseteq k
  BY Zenon, BroughtUsed
<1> QED BY Zenon, <1>1, <1>2 DEF HomesCovered

\* Publishing the catalog, and putting it back.
LEMMA CatalogKnows ==
    ASSUME CatalogInvariant, CommitInvariant, NEW p \in Procs, UNCHANGED scenario,
           NEW g \in Homes, scenario.homes = {g}, PublishCatalog(p) \/ RestoreCatalog(p)
    PROVE  CatalogInvariant'
<1>0. /\ TypeOK /\ cmd[p] \in Commands /\ PlanCovered(cmd[p], revisions, scenario)
      /\ BaseCovered(cmd[p], revisions, home) /\ LockCovered(cmd[p], home, catalog) /\ FlowOK(cmd[p])
      /\ HomesCovered(home, catalog, revisions, scenario) /\ catalog \subseteq DOMAIN revisions
      /\ PublishedOK(published, revisions, home, scenario)
  BY Zenon DEF CatalogInvariant, CommandCovered, CommitInvariant, TypeOK
<1>1. /\ cmd[p].pc \in {"catalog", "restore"} /\ cmd[p].pc \in Holding
      /\ UNCHANGED <<home, revisions, published>>
  BY Zenon DEF PublishCatalog, RestoreCatalog, At, Holding, Publishing
<1>2. /\ cmd[p].home = g /\ cmd[p].flow \in {"commit", "reconcile"} /\ Committing(cmd[p])
      /\ TargetCovered(cmd[p], revisions) /\ cmd[p].cat \subseteq DOMAIN revisions
      /\ UsesOf(revisions, cmd[p].base) \subseteq cmd[p].cat
  <2>1. cmd[p].flow \in {"commit", "reconcile"}
    BY Zenon, <1>0, <1>1 DEF FlowOK
  <2>2. Committing(cmd[p])
    BY Zenon, <1>1, <2>1 DEF Committing
  <2>3. cmd[p].pc # "idle" /\ cmd[p].pc # "read"
    BY Zenon, <1>1
  <2> QED BY Zenon, <1>0, <2>1, <2>2, <2>3 DEF PlanCovered
<1>3. CASE PublishCatalog(p)
  <2>0. cmd[p].pc = "catalog" /\ Compared(cmd[p])
    BY Zenon, <1>2, <1>3 DEF PublishCatalog, At, Compared
  <2>1. home[g].art \in {cmd[p].base, cmd[p].target}
    BY Zenon, <1>0, <1>2, <2>0 DEF LockCovered
  <2>2. UsesOf(revisions, home[g].art) \subseteq cmd[p].catTarget
    BY Zenon, <1>2, <2>1 DEF TargetCovered
  <2>3. HomesCovered(home, cmd[p].catTarget, revisions, scenario)
    BY Zenon, <1>0, <2>2, OneHomeCovered
  <2>4. catalog' \in {catalog, cmd[p].catTarget}
    BY Zenon, <1>3 DEF PublishCatalog
  <2>5. HomesCovered(home, catalog', revisions, scenario) /\ catalog' \subseteq DOMAIN revisions
    BY Zenon, <1>0, <1>2, <2>3, <2>4 DEF TargetCovered
  <2>6. CASE Return(p)
    BY Zenon, <1>1, <2>5, <2>6, ReturnSteps
  <2>7. CASE ~Return(p)
    <3>1. AfterCatalog(p) /\ (cmd[p].update => catalog' = cmd[p].catTarget) /\ (~cmd[p].update => catalog' = catalog)
      BY Zenon, <1>3, <2>7 DEF PublishCatalog
    <3>2. cmd[p].cat # cmd[p].catTarget => catalog' = cmd[p].catTarget
      BY Zenon, <1>0, <2>0, <3>1 DEF LockCovered
    <3>3. PICK pc \in {"validate", "audit", "checkpoint"} :
            Step(p, pc) /\ (pc = "validate" <=> cmd[p].flow = "commit")
      BY Zenon, <2>7, <3>1 DEF AfterCatalog
    <3>4. PICK c : c = [cmd[p] EXCEPT !.pc = pc]
      BY Zenon
    <3>5. Kept(c, cmd[p]) /\ c.pc = pc /\ c.flow = cmd[p].flow /\ c.inode = cmd[p].inode
      BY Zenon, <1>0, <3>4 DEF Commands, Kept
    <3>6. cmd' = [cmd EXCEPT ![p] = c]
      BY Zenon, <3>3, <3>4 DEF Step, Go
    <3>7. PlanCovered(c, revisions, scenario)
      <4>1. c.pc \notin {"idle", "read"} /\ cmd[p].pc \notin {"idle", "read"}
        BY Zenon, <2>0, <3>3, <3>5
      <4>2. TargetCovered(c, revisions)
        BY Zenon, <1>2, <3>5 DEF TargetCovered, Kept
      <4> QED BY Zenon, <1>0, <3>5, <4>1, <4>2 DEF PlanCovered, Kept
    <3>8. BaseCovered(c, revisions, home')
      BY Zenon, <1>0, <1>1, <1>2, <3>5 DEF BaseCovered, Kept
    <3>9. LockCovered(c, home', catalog')
      <4>1. CASE cmd[p].flow = "commit"
        <5>1. home[cmd[p].home].art = cmd[p].base /\ home[cmd[p].home].inode = cmd[p].inode
          BY Zenon, <1>0, <2>0, <4>1 DEF LockCovered
        <5>2. c.pc = "validate" /\ c.flow = "commit" /\ ~Compared(c)
          BY Zenon, <3>3, <3>5, <4>1 DEF Compared
        <5> QED BY Zenon, <1>1, <3>2, <3>5, <5>1, <5>2 DEF LockCovered, Kept
      <4>2. CASE cmd[p].flow # "commit"
        <5>1. c.flow = "reconcile" /\ c.pc \in {"audit", "checkpoint"} /\ ~Compared(c)
          BY Zenon, <1>2, <3>3, <3>5, <4>2 DEF Compared
        <5> QED BY Zenon, <5>1 DEF LockCovered
      <4> QED BY Zenon, <4>1, <4>2
    <3>10. HomesCovered(home', catalog', revisions, scenario) /\ PublishedOK(published', revisions, home', scenario)
      BY Zenon, <1>0, <1>1, <2>5
    <3>11. home' \in HomeFiles /\ \A x \in Homes : Extends(home[x].art, home'[x].art)
      BY Zenon, <1>0, <1>1, SameHomes
    <3> QED BY Zenon, <1>1, <2>5, <3>6, <3>7, <3>8, <3>9, <3>10, <3>11, LockedSteps
  <2> QED BY Zenon, <2>6, <2>7
<1>4. CASE RestoreCatalog(p)
  <2>1. cmd[p].pc = "restore" /\ Return(p) /\ catalog' \in {catalog, cmd[p].cat}
    BY Zenon, <1>4 DEF RestoreCatalog, At
  <2>2. home[g].art = cmd[p].base
    BY Zenon, <1>0, <1>2, <2>1 DEF LockCovered, FlowOK
  <2>3. UsesOf(revisions, home[g].art) \subseteq cmd[p].cat
    BY Zenon, <1>2, <2>2
  <2>4. HomesCovered(home, catalog', revisions, scenario) /\ catalog' \subseteq DOMAIN revisions
    BY Zenon, <1>0, <1>2, <2>1, <2>3, OneHomeCovered
  <2> QED BY Zenon, <1>1, <2>1, <2>4, ReturnSteps
<1> QED BY Zenon, <1>3, <1>4

\* Replacing the artifact: the new one extends the one in place, which is what
\* the commit was planned from, and the catalog has what its revisions added.
LEMMA RenameKnows ==
    ASSUME CatalogInvariant, CommitInvariant, NEW p \in Procs, UNCHANGED scenario,
           NEW g \in Homes, scenario.homes = {g}, Rename(p)
    PROVE  CatalogInvariant'
<1>0. /\ TypeOK /\ cmd[p] \in Commands /\ PlanCovered(cmd[p], revisions, scenario)
      /\ BaseCovered(cmd[p], revisions, home) /\ LockCovered(cmd[p], home, catalog) /\ FlowOK(cmd[p])
      /\ HomesCovered(home, catalog, revisions, scenario) /\ catalog \subseteq DOMAIN revisions
      /\ PublishedOK(published, revisions, home, scenario) /\ home \in HomeFiles
  BY Zenon DEF CatalogInvariant, CommandCovered, CommitInvariant, TypeOK, HomeFiles
<1>1. /\ cmd[p].pc = "rename" /\ Step(p, "checkpoint") /\ UNCHANGED <<catalog, revisions>>
      /\ published' = published \cup {<<Me(p), cmd[p].target>>}
      /\ home' = [home EXCEPT ![cmd[p].home].art = cmd[p].target, ![cmd[p].home].inode = @ + 1]
  BY Zenon DEF Rename, At
<1>2. cmd[p].pc \in Holding /\ cmd[p].flow = "commit" /\ Committing(cmd[p])
  BY Zenon, <1>0, <1>1 DEF Committing, FlowOK, Holding, Publishing
<1>3. PICK c : c = [cmd[p] EXCEPT !.pc = "checkpoint"]
  BY Zenon
<1>4. Kept(c, cmd[p]) /\ c.pc = "checkpoint" /\ c.flow = cmd[p].flow
  BY Zenon, <1>0, <1>3 DEF Commands, Kept
<1>5. cmd' = [cmd EXCEPT ![p] = c]
  BY Zenon, <1>1, <1>3 DEF Step, Go
<1>6. c.pc \in {"ready", "checkpoint", "receipts"} /\ c.pc \notin {"validate", "rename", "idle", "read"}
      /\ cmd[p].pc \notin {"idle", "read"}
  BY Zenon, <1>1, <1>4
<1>7. /\ PlanCovered(c, revisions, scenario) /\ LockCovered(c, home', catalog')
      /\ BaseCovered(cmd[p], revisions, home') => BaseCovered(c, revisions, home')
  BY Zenon, <1>0, <1>2, <1>4, <1>6, ElsewhereCovered
<1>8. /\ Within(revisions, cmd[p].target) /\ TargetCovered(cmd[p], revisions) /\ cmd[p].home \in scenario.homes
      /\ home[cmd[p].home].art = cmd[p].base /\ Extends(cmd[p].base, cmd[p].target)
      /\ cmd[p].cat # cmd[p].catTarget => catalog = cmd[p].catTarget
  BY ZenonT(60), <1>0, <1>1, <1>2, <1>6 DEF PlanCovered, LockCovered, FlowOK
<1>9. cmd[p].home \in Homes /\ cmd[p].base \in Seq(Nat) /\ cmd[p].target \in Seq(Nat)
  BY Zenon, <1>0 DEF Commands, Artifacts
<1>10. BroughtOf(revisions, cmd[p].target) \subseteq catalog
  <2>1. CASE cmd[p].cat # cmd[p].catTarget
    BY Zenon, <1>8, <2>1, BroughtUsed DEF TargetCovered
  <2>2. CASE cmd[p].cat = cmd[p].catTarget
    <3>1. \/ BroughtOf(revisions, cmd[p].target) \subseteq BroughtOf(revisions, cmd[p].base)
          \/ Extends(cmd[p].target, cmd[p].base)
      BY Zenon, <1>0, <1>2, <1>8, <2>2 DEF BaseCovered
    <3>2. ~Extends(cmd[p].target, cmd[p].base)
      BY Zenon, <1>8, <1>9, ExtendsBack DEF TargetCovered
    <3>3. BroughtOf(revisions, cmd[p].base) \subseteq catalog
      BY Zenon, <1>0, <1>8, <1>9 DEF HomesCovered
    <3> QED BY Zenon, <3>1, <3>2, <3>3
  <2> QED BY Zenon, <2>1, <2>2
<1>11. \A h \in Homes : home'[h].art = IF h = cmd[p].home THEN cmd[p].target ELSE home[h].art
  BY <1>0, <1>1 DEF HomeFiles
<1>12. home' \in HomeFiles
  BY <1>0, <1>1, <1>9 DEF HomeFiles, Artifacts
<1>13. \A h \in Homes : home[h].art \in Seq(Nat)
  BY Zenon, <1>0 DEF HomeFiles, Artifacts
<1>14. \A x \in Homes : Extends(home[x].art, home'[x].art)
  BY Zenon, <1>8, <1>11, <1>13, ExtendsItself
<1>15. HomesCovered(home', catalog', revisions, scenario)
  BY Zenon, <1>0, <1>1, <1>8, <1>10, <1>11 DEF HomesCovered
<1>16. BaseCovered(c, revisions, home')
  BY Zenon, <1>0, <1>7, <1>12, <1>14, BaseLasts
<1>17. PublishedOK(published', revisions, home', scenario)
  <2>1. ASSUME NEW w \in published', NEW x \in scenario.homes PROVE Within(revisions, w[2]) /\ Extends(w[2], home'[x].art)
    <3>0. x \in Homes
      BY Zenon
    <3>1. CASE w = <<Me(p), cmd[p].target>>
      <4>1. w[2] = cmd[p].target
        BY <3>1
      <4>2. x = cmd[p].home
        BY Zenon, <1>8
      <4>3. Extends(cmd[p].target, cmd[p].target)
        BY Zenon, <1>9, ExtendsItself
      <4> QED BY ZenonT(60), <1>8, <1>9, <1>11, <4>1, <4>2, <4>3
    <3>2. CASE w \in published
      <4>1. Within(revisions, w[2]) /\ Extends(w[2], home[x].art)
        BY ZenonT(60), <1>0, <3>2 DEF PublishedOK
      <4>2. w[2] \in Seq(Nat)
        BY <1>0, <3>2 DEF TypeOK, Artifacts
      <4>3. home[x].art \in Seq(Nat) /\ home'[x].art \in Seq(Nat)
        BY Zenon, <1>9, <1>11, <1>13, <3>0
      <4> QED BY Zenon, <1>14, <3>0, <4>1, <4>2, <4>3, ExtendsTransitively
    <3> QED BY Zenon, <1>1, <3>1, <3>2
  <2>2. \A w \in published' : Within(revisions, w[2])
    BY Zenon, <1>8, <2>1
  <2> QED BY Zenon, <2>1, <2>2 DEF PublishedOK
<1>18. catalog' \subseteq DOMAIN revisions
  BY Zenon, <1>0, <1>1
<1> QED BY ZenonT(60), <1>1, <1>2, <1>5, <1>7, <1>12, <1>14, <1>15, <1>16, <1>17, <1>18, LockedSteps

\* Publishing the audit, the checkpoint and the receipts.
LEMMA PublishingKnows ==
    ASSUME CatalogInvariant, CommitInvariant, NEW p \in Procs, UNCHANGED scenario,
           PublishAudit(p) \/ PublishCheckpoint(p) \/ PublishReceipts(p)
    PROVE  CatalogInvariant'
<1>0. /\ TypeOK /\ cmd[p] \in Commands /\ PlanCovered(cmd[p], revisions, scenario)
      /\ BaseCovered(cmd[p], revisions, home) /\ LockCovered(cmd[p], home, catalog) /\ FlowOK(cmd[p])
      /\ HomesCovered(home, catalog, revisions, scenario) /\ catalog \subseteq DOMAIN revisions
  BY Zenon DEF CatalogInvariant, CommandCovered, CommitInvariant, TypeOK
<1>1. cmd[p].pc \in {"audit", "checkpoint", "receipts"} /\ cmd[p].pc \in Holding
  BY Zenon DEF PublishAudit, PublishCheckpoint, PublishReceipts, At, Holding, Publishing
<1>2. ASSUME Return(p), UNCHANGED <<home, catalog, revisions, published>> PROVE CatalogInvariant'
  <2>1. HomesCovered(home, catalog', revisions, scenario) /\ catalog' \subseteq DOMAIN revisions
    BY Zenon, <1>0, <1>2
  <2> QED BY Zenon, <1>1, <1>2, <2>1, ReturnSteps
<1>3. ASSUME NEW pc \in {"ready", "checkpoint", "receipts"}, Step(p, pc),
             UNCHANGED <<home, catalog, revisions, published>>
      PROVE  CatalogInvariant'
  <2>1. PICK c : c = [cmd[p] EXCEPT !.pc = pc]
    BY Zenon
  <2>2. Kept(c, cmd[p]) /\ c.pc = pc /\ c.flow = cmd[p].flow
    BY Zenon, <1>0, <2>1 DEF Commands, Kept
  <2>3. cmd' = [cmd EXCEPT ![p] = c]
    BY Zenon, <1>3, <2>1 DEF Step, Go
  <2>4. Committing(c) => Committing(cmd[p])
    BY Zenon, <1>1, <2>2 DEF Committing
  <2>5. c.pc \in {"ready", "checkpoint", "receipts"} /\ c.pc \notin {"validate", "rename", "idle", "read"}
        /\ cmd[p].pc \notin {"idle", "read"}
    BY Zenon, <1>1, <1>3, <2>2
  <2>6. PlanCovered(c, revisions, scenario) /\ LockCovered(c, home, catalog) /\ BaseCovered(c, revisions, home)
    BY Zenon, <1>0, <2>2, <2>4, <2>5, ElsewhereCovered
  <2> QED BY Zenon, <1>0, <1>3, <2>3, <2>6, KnowingSteps
<1>4. ASSUME Step(p, "catalog"), cmd[p].pc = "audit", cmd[p].flow = "commit",
             UNCHANGED <<home, catalog, revisions, published>>
      PROVE  CatalogInvariant'
  <2>1. PICK c : c = [cmd[p] EXCEPT !.pc = "catalog"]
    BY Zenon
  <2>2. /\ Kept(c, cmd[p]) /\ c.pc = "catalog" /\ c.flow = cmd[p].flow /\ c.update = cmd[p].update
        /\ c.inode = cmd[p].inode
    BY Zenon, <1>0, <2>1 DEF Commands, Kept
  <2>3. cmd' = [cmd EXCEPT ![p] = c]
    BY Zenon, <1>4, <2>1 DEF Step, Go
  <2>4. Committing(cmd[p])
    BY Zenon, <1>1, <1>4 DEF Committing
  <2>5. PlanCovered(c, revisions, scenario) /\ BaseCovered(c, revisions, home)
    <3>1. c.pc \notin {"idle", "read"} /\ cmd[p].pc \notin {"idle", "read"}
      BY Zenon, <1>4, <2>2
    <3>2. TargetCovered(cmd[p], revisions) => TargetCovered(c, revisions)
      BY Zenon, <2>2 DEF TargetCovered, Kept
    <3>3. PlanCovered(c, revisions, scenario)
      BY Zenon, <1>0, <2>2, <2>4, <3>1, <3>2 DEF PlanCovered, Kept
    <3> QED BY Zenon, <1>0, <2>2, <2>4, <3>3 DEF BaseCovered, Kept
  <2>6. LockCovered(c, home, catalog)
    BY ZenonT(60), <1>0, <1>4, <2>2, <2>4 DEF LockCovered, Compared, Kept
  <2> QED BY Zenon, <1>0, <1>4, <2>3, <2>5, <2>6, KnowingSteps
<1>5. CASE PublishAudit(p)
  <2>1. cmd[p].pc = "audit" /\ UNCHANGED <<home, catalog, revisions, published>>
    BY Zenon, <1>5 DEF PublishAudit, At
  <2>2. Return(p) \/ Step(p, IF cmd[p].flow = "commit" THEN "catalog" ELSE "checkpoint")
    BY Zenon, <1>5 DEF PublishAudit
  <2>3. Return(p) \/ (cmd[p].flow = "commit" /\ Step(p, "catalog")) \/ Step(p, "checkpoint")
    BY Zenon, <2>2
  <2> QED BY Zenon, <1>2, <1>3, <1>4, <2>1, <2>3
<1>6. CASE PublishCheckpoint(p)
  <2>1. UNCHANGED <<home, catalog, revisions, published>>
    BY Zenon, <1>6 DEF PublishCheckpoint
  <2>2. Return(p) \/ Step(p, "ready") \/ Step(p, "receipts")
    BY <1>6 DEF PublishCheckpoint
  <2> QED BY Zenon, <1>2, <1>3, <2>1, <2>2
<1>7. CASE PublishReceipts(p)
  <2>1. UNCHANGED <<home, catalog, revisions, published>> /\ (Return(p) \/ Step(p, "ready"))
    BY Zenon, <1>7 DEF PublishReceipts
  <2> QED BY Zenon, <1>2, <1>3, <2>1
<1> QED BY Zenon, <1>5, <1>6, <1>7

-----------------------------------------------------------------------------
(* The catalog while nothing fails *)

\* A step of a command outside the window that changes neither the artifact nor
\* the catalog, nor what the command knows of them.
LEMMA CalmSteps ==
    ASSUME CalmInvariant, TypeOK, NEW p \in Procs, NEW c, cmd' = [cmd EXCEPT ![p] = c],
           UNCHANGED <<home, catalog>>, UsedCovered(home, catalog, revisions'),
           ~InWindow(cmd[p]), ~InWindow(c), CalmCommand(c, home, catalog, cmd)
    PROVE  CalmInvariant'
<1>1. cmd'[p] = c /\ \A r \in Procs : r # p => cmd'[r] = cmd[r]
  BY Zenon, OneCommand
<1>2. Between(cmd) => Between(cmd')
  BY Zenon, <1>1 DEF Between
<1>3. \A r \in Procs : CalmCommand(cmd'[r], home, catalog, cmd)
  BY Zenon, <1>1 DEF CalmInvariant
<1>4. \A r \in Procs : CalmCommand(cmd'[r], home, catalog, cmd')
  BY Zenon, <1>2, <1>3 DEF CalmCommand
<1> QED BY Zenon, <1>4 DEF CalmInvariant

LEMMA CalmKept ==
    ASSUME CalmInvariant, TypeOK, NEW p \in Procs, NEW c, cmd' = [cmd EXCEPT ![p] = c],
           UNCHANGED <<home, catalog>>, UsedCovered(home, catalog, revisions'),
           cmd[p].pc \notin {"idle", "read", "validate", "rename"},
           \/ c = Idle
           \/ Kept(c, cmd[p]) /\ c.pc \notin {"validate", "rename", "restore"}
    PROVE  CalmInvariant'
<1>1. ~InWindow(cmd[p])
  BY Zenon DEF InWindow
<1>2. CalmCommand(cmd[p], home, catalog, cmd)
  BY Zenon DEF CalmInvariant
<1>3. ~InWindow(c) /\ CalmCommand(c, home, catalog, cmd)
  <2>1. CASE c = Idle
    BY Zenon, <2>1, IdleCovered DEF CalmCommand, InWindow
  <2>2. CASE Kept(c, cmd[p]) /\ c.pc \notin {"validate", "rename", "restore"}
    BY Zenon, <1>2, <2>2 DEF CalmCommand, InWindow, Kept
  <2> QED BY Zenon, <2>1, <2>2
<1> QED BY Zenon, <1>1, <1>3, CalmSteps

\* A command that returns the lock.
LEMMA CalmReturns ==
    ASSUME CalmInvariant, TypeOK, NEW p \in Procs, Return(p),
           UNCHANGED <<home, catalog, revisions>>, cmd[p].pc \notin {"idle", "read", "validate", "rename"}
    PROVE  CalmInvariant'
<1>0. cmd[p] \in Commands /\ UsedCovered(home, catalog, revisions')
  BY Zenon DEF TypeOK, CalmInvariant
<1>1. CASE Go(p, Idle)
  BY Zenon, <1>0, <1>1, CalmKept DEF Go
<1>2. CASE Go(p, [cmd[p] EXCEPT !.pc = "planned", !.flow = "commit", !.inode = 0,
                                !.update = FALSE, !.next = NoFiles])
  <2>1. PICK c : c = [cmd[p] EXCEPT !.pc = "planned", !.flow = "commit", !.inode = 0,
                                    !.update = FALSE, !.next = NoFiles]
    BY Zenon
  <2>2. c.pc = "planned" /\ Kept(c, cmd[p])
    BY Zenon, <1>0, <2>1 DEF Commands, Kept
  <2>3. c.pc \notin {"validate", "rename", "restore"}
    BY Zenon, <2>2
  <2> QED BY Zenon, <1>0, <1>2, <2>1, <2>2, <2>3, CalmKept DEF Go
<1> QED BY Zenon, <1>1, <1>2 DEF Return

\* The steps that leave the artifact and the catalog alone.
LEMMA CalmQuiet ==
    ASSUME CalmInvariant, CatalogInvariant, CommitInvariant, NEW p \in Procs,
           \/ \E h \in Homes : ReadVault(p, h)
           \/ Probe(p) \/ StartInitialize(p) \/ Open(p) \/ StartAdvance(p) \/ StartEvent(p)
           \/ (\E w \in 0 .. MaxRevisions : PlanMutation(p, w)) \/ (\E a \in Known : PlanImport(p, a))
           \/ Refuse(p) \/ Acquire(p) \/ Examine(p) \/ ExamineTarget(p) \/ Abandon(p) \/ GitMoved(p)
           \/ PublishAudit(p) \/ PublishCheckpoint(p) \/ PublishReceipts(p)
    PROVE  CalmInvariant'
<1>0. TypeOK /\ cmd[p] \in Commands /\ UsedCovered(home, catalog, revisions)
  BY Zenon DEF CommitInvariant, TypeOK, CalmInvariant
<1>1. ASSUME NEW h \in Homes, ReadVault(p, h) PROVE CalmInvariant'
  <2>1. PICK c : c = [Idle EXCEPT !.pc = "read", !.home = h, !.base = home[h].art]
    BY Zenon
  <2>2. c.pc = "read"
    BY <2>1 DEF Idle
  <2>3. /\ cmd' = [cmd EXCEPT ![p] = c] /\ UNCHANGED <<home, catalog, revisions>> /\ cmd[p].pc = "idle"
    BY Zenon, <1>1, <2>1 DEF ReadVault, Go, At
  <2>4. ~InWindow(c) /\ ~InWindow(cmd[p]) /\ CalmCommand(c, home, catalog, cmd)
    BY Zenon, <2>2, <2>3 DEF InWindow, CalmCommand
  <2> QED BY Zenon, <1>0, <2>3, <2>4, CalmSteps
<1>2. CASE Probe(p)
  <2>1. PICK c : c = [cmd[p] EXCEPT !.pc = "probed", !.cat = catalog, !.absent = Absent(files[Me(p)])]
    BY Zenon
  <2>2. c.pc = "probed" /\ c.cat = catalog
    BY Zenon, <1>0, <2>1 DEF Commands
  <2>3. /\ cmd' = [cmd EXCEPT ![p] = c] /\ UNCHANGED <<home, catalog, revisions>> /\ cmd[p].pc = "read"
    BY Zenon, <1>2, <2>1 DEF Probe, Go, At
  <2>4. ~InWindow(c) /\ ~InWindow(cmd[p]) /\ CalmCommand(c, home, catalog, cmd)
    BY Zenon, <2>2, <2>3 DEF InWindow, CalmCommand
  <2> QED BY Zenon, <1>0, <2>3, <2>4, CalmSteps
<1>3. ASSUME NEW c, cmd' = [cmd EXCEPT ![p] = c], UNCHANGED <<home, catalog, revisions>>,
             cmd[p].pc \notin {"idle", "read", "validate", "rename"},
             Kept(c, cmd[p]), c.pc \notin {"validate", "rename", "restore"}
      PROVE  CalmInvariant'
  BY Zenon, <1>0, <1>3, CalmKept
<1>4. ASSUME NEW pc \in {"audit", "checkpoint"}, NEW flow, NEW next,
             cmd' = [cmd EXCEPT ![p] = [cmd[p] EXCEPT !.pc = pc, !.flow = flow, !.next = next]],
             UNCHANGED <<home, catalog, revisions>>, cmd[p].pc \in {"probed", "ready"}
      PROVE  CalmInvariant'
  <2>1. PICK c : c = [cmd[p] EXCEPT !.pc = pc, !.flow = flow, !.next = next]
    BY Zenon
  <2>2. Kept(c, cmd[p]) /\ c.pc = pc
    BY Zenon, <1>0, <2>1 DEF Commands, Kept
  <2> QED BY Zenon, <1>3, <1>4, <2>1, <2>2
<1>5. CASE StartInitialize(p)
  BY Zenon, <1>4, <1>5 DEF StartInitialize, At, Go
<1>6. CASE StartAdvance(p)
  BY Zenon, <1>4, <1>6 DEF StartAdvance, At, Go
<1>7. CASE StartEvent(p)
  BY Zenon, <1>4, <1>7 DEF StartEvent, At, Go
<1>8. ASSUME NEW pc \in {"ready", "catalog", "checkpoint", "receipts"}, Step(p, pc),
             UNCHANGED <<home, catalog, revisions>>, cmd[p].pc \in {"probed", "audit", "checkpoint", "receipts"}
      PROVE  CalmInvariant'
  <2>1. PICK c : c = [cmd[p] EXCEPT !.pc = pc]
    BY Zenon
  <2>2. Kept(c, cmd[p]) /\ c.pc = pc
    BY Zenon, <1>0, <2>1 DEF Commands, Kept
  <2> QED BY Zenon, <1>3, <1>8, <2>1, <2>2 DEF Step, Go
<1>9. CASE Open(p)
  BY Zenon, <1>8, <1>9 DEF Open, At
<1>10. ASSUME NEW target, NEW cats, Plan(p, target, cats), cmd[p].pc = "ready", UNCHANGED <<home, catalog>>,
              UsedCovered(home, catalog, revisions')
       PROVE  CalmInvariant'
  <2>1. PICK c : c = [cmd[p] EXCEPT !.pc = "planned", !.flow = "commit", !.git = home[cmd[p].home].git,
                                    !.target = target, !.catTarget = cats]
    BY Zenon
  <2>2. c.pc = "planned" /\ c.home = cmd[p].home /\ c.base = cmd[p].base /\ c.cat = cmd[p].cat
    BY Zenon, <1>0, <2>1 DEF Commands
  <2>3. cmd' = [cmd EXCEPT ![p] = c]
    BY Zenon, <1>10, <2>1 DEF Plan, Go
  <2>4. CalmCommand(cmd[p], home, catalog, cmd)
    BY Zenon DEF CalmInvariant
  <2>5. ~InWindow(c) /\ ~InWindow(cmd[p]) /\ CalmCommand(c, home, catalog, cmd)
    BY Zenon, <1>10, <2>2, <2>4 DEF InWindow, CalmCommand
  <2> QED BY Zenon, <1>0, <1>10, <2>3, <2>5, CalmSteps
<1>11. ASSUME NEW a \in Known, PlanImport(p, a) PROVE CalmInvariant'
  <2>1. /\ \E cats : Plan(p, a, cats) 
        /\ cmd[p].pc = "ready" /\ UNCHANGED <<home, catalog, revisions>>
    BY Zenon, <1>11 DEF PlanImport, At
  <2> QED BY Zenon, <1>0, <1>10, <2>1
<1>12. ASSUME NEW w \in 0 .. MaxRevisions, PlanMutation(p, w) PROVE CalmInvariant'
  <2>0. w \in Nat
    BY CommitBoundsAssumption
  <2>1. /\ \E target, cats : Plan(p, target, cats)
        /\ cmd[p].pc = "ready" /\ UNCHANGED <<home, catalog>> /\ revisions' = Append(revisions, w)
    BY Zenon, <1>12 DEF PlanMutation, At
  <2>2. revisions \in Seq(Nat) /\ Named(revisions) /\ \A h \in Homes : Within(revisions, home[h].art)
    BY Zenon, <1>0 DEF TypeOK, CatalogInvariant, HomesCovered
  <2>3. \A h \in Homes : UsesOf(revisions', home[h].art) = UsesOf(revisions, home[h].art)
    BY Zenon, <2>0, <2>1, <2>2, UsesLasts
  <2>4. UsedCovered(home, catalog, revisions')
    BY Zenon, <1>0, <2>3 DEF UsedCovered
  <2> QED BY Zenon, <1>10, <2>1, <2>4
<1>13. CASE Refuse(p)
  <2>1. /\ cmd' = [cmd EXCEPT ![p] = Idle] /\ UNCHANGED <<home, catalog, revisions>>
        /\ cmd[p].pc \in {"read", "probed", "ready", "planned"}
    BY Zenon, <1>13 DEF Refuse, Go
  <2>2. ~InWindow(Idle) /\ ~InWindow(cmd[p]) /\ CalmCommand(Idle, home, catalog, cmd)
    BY Zenon, <2>1, IdleCovered DEF InWindow, CalmCommand
  <2> QED BY Zenon, <1>0, <2>1, <2>2, CalmSteps
<1>14. CASE Acquire(p)
  <2>1. PICK c : c = [cmd[p] EXCEPT !.pc = "previewed", !.inode = home[cmd[p].home].inode,
                                    !.update = cmd[p].cat # cmd[p].catTarget /\ catalog # cmd[p].catTarget]
    BY Zenon
  <2>2. Kept(c, cmd[p]) /\ c.pc = "previewed"
    BY Zenon, <1>0, <2>1 DEF Commands, Kept
  <2>3. cmd' = [cmd EXCEPT ![p] = c] /\ cmd[p].pc = "planned" /\ UNCHANGED <<home, catalog, revisions>>
    BY Zenon, <1>14, <2>1 DEF Acquire, Go, At
  <2>4. cmd[p].pc \notin {"idle", "read", "validate", "rename"} /\ c.pc \notin {"validate", "rename", "restore"}
    BY Zenon, <2>2, <2>3
  <2> QED BY Zenon, <1>3, <2>2, <2>3, <2>4
<1>15. CASE Examine(p)
  <2>0. PICK next : Go(p, [cmd[p] EXCEPT !.pc = "audit", !.next = next])
    BY Zenon, <1>15 DEF Examine
  <2>1. PICK c : c = [cmd[p] EXCEPT !.pc = "audit", !.next = next]
    BY Zenon
  <2>2. Kept(c, cmd[p]) /\ c.pc = "audit"
    BY Zenon, <1>0, <2>1 DEF Commands, Kept
  <2>3. cmd' = [cmd EXCEPT ![p] = c] /\ cmd[p].pc = "previewed" /\ UNCHANGED <<home, catalog, revisions>>
    BY Zenon, <1>15, <2>0, <2>1 DEF Examine, Go, At
  <2>4. cmd[p].pc \notin {"idle", "read", "validate", "rename"} /\ c.pc \notin {"validate", "rename", "restore"}
    BY Zenon, <2>2, <2>3
  <2> QED BY Zenon, <1>3, <2>2, <2>3, <2>4
<1>16. CASE ExamineTarget(p)
  <2>0. PICK next : Go(p, [cmd[p] EXCEPT !.pc = "catalog", !.flow = "reconcile", !.next = next])
    BY Zenon, <1>16 DEF ExamineTarget
  <2>1. PICK c : c = [cmd[p] EXCEPT !.pc = "catalog", !.flow = "reconcile", !.next = next]
    BY Zenon
  <2>2. Kept(c, cmd[p]) /\ c.pc = "catalog"
    BY Zenon, <1>0, <2>1 DEF Commands, Kept
  <2>3. cmd' = [cmd EXCEPT ![p] = c] /\ cmd[p].pc = "previewed" /\ UNCHANGED <<home, catalog, revisions>>
    BY Zenon, <1>16, <2>0, <2>1 DEF ExamineTarget, Go, At
  <2>4. cmd[p].pc \notin {"idle", "read", "validate", "rename"} /\ c.pc \notin {"validate", "rename", "restore"}
    BY Zenon, <2>2, <2>3
  <2> QED BY Zenon, <1>3, <2>2, <2>3, <2>4
<1>17. CASE Abandon(p) \/ GitMoved(p)
  <2>1. /\ Return(p) /\ UNCHANGED <<home, catalog, revisions>>
        /\ cmd[p].pc \in {"previewed", "audit", "catalog"}
    BY Zenon, <1>17 DEF Abandon, GitMoved, At
  <2> QED BY Zenon, <1>0, <2>1, CalmReturns
<1>18. CASE PublishAudit(p)
  <2>1. cmd[p].pc = "audit" /\ UNCHANGED <<home, catalog, revisions>>
    BY Zenon, <1>18 DEF PublishAudit, At
  <2>2. Return(p) \/ Step(p, IF cmd[p].flow = "commit" THEN "catalog" ELSE "checkpoint")
    BY Zenon, <1>18 DEF PublishAudit
  <2>3. Return(p) \/ Step(p, "catalog") \/ Step(p, "checkpoint")
    BY Zenon, <2>2
  <2> QED BY Zenon, <1>0, <1>8, <2>1, <2>3, CalmReturns
<1>19. CASE PublishCheckpoint(p)
  <2>1. cmd[p].pc = "checkpoint" /\ UNCHANGED <<home, catalog, revisions>>
    BY Zenon, <1>19 DEF PublishCheckpoint, At
  <2>2. Return(p) \/ Step(p, "ready") \/ Step(p, "receipts")
    BY <1>19 DEF PublishCheckpoint
  <2> QED BY Zenon, <1>0, <1>8, <2>1, <2>2, CalmReturns
<1>20. CASE PublishReceipts(p)
  <2>1. cmd[p].pc = "receipts" /\ UNCHANGED <<home, catalog, revisions>> /\ (Return(p) \/ Step(p, "ready"))
    BY Zenon, <1>20 DEF PublishReceipts, At
  <2> QED BY Zenon, <1>0, <1>8, <2>1, CalmReturns
<1> QED BY ZenonT(60), <1>1, <1>2, <1>5, <1>6, <1>7, <1>9, <1>11, <1>12, <1>13, <1>14, <1>15, <1>16, <1>17,
       <1>18, <1>19, <1>20

\* The window of a commit.
LEMMA CalmWindow ==
    ASSUME CalmInvariant, CatalogInvariant, CommitInvariant, NEW p \in Procs, NEW g \in Homes, scenario.homes = {g},
           ~Fault, PublishCatalog(p) \/ Validate(p) \/ SharedFailed(p) \/ RestoreCatalog(p) \/ Rename(p)
    PROVE  CalmInvariant'
<1>0. /\ TypeOK /\ cmd[p] \in Commands /\ UsedCovered(home, catalog, revisions)
      /\ PlanCovered(cmd[p], revisions, scenario) /\ LockCovered(cmd[p], home, catalog) /\ FlowOK(cmd[p])
      /\ CalmCommand(cmd[p], home, catalog, cmd) /\ home \in HomeFiles
      /\ HomesCovered(home, catalog, revisions, scenario)
  BY Zenon DEF CommitInvariant, TypeOK, CalmInvariant, CatalogInvariant, CommandCovered, HomeFiles
<1>1. /\ cmd[p].pc \in {"catalog", "validate", "rename", "restore"} /\ cmd[p].pc \in Holding
      /\ cmd[p].pc \notin {"idle", "read"} /\ UNCHANGED revisions
  BY Zenon DEF PublishCatalog, Validate, SharedFailed, RestoreCatalog, Rename, At, Holding, Publishing
<1>2. \A r \in Procs : r # p => ~InWindow(cmd[r]) /\ cmd[r].pc # "restore"
  <2>1. \A r \in Procs : r # p => cmd[r].pc \notin Holding
    BY Zenon, <1>1 DEF CommitInvariant
  <2> QED BY Zenon, <2>1 DEF InWindow, Holding, Publishing
<1>3. /\ Committing(cmd[p]) /\ TargetCovered(cmd[p], revisions) /\ cmd[p].home = g
      /\ cmd[p].flow \in {"commit", "reconcile"}
  <2>1. cmd[p].flow \in {"commit", "reconcile"}
    BY Zenon, <1>0, <1>1 DEF FlowOK
  <2>2. Committing(cmd[p])
    BY Zenon, <1>1, <2>1 DEF Committing
  <2> QED BY Zenon, <1>0, <1>1, <2>1, <2>2 DEF PlanCovered
<1>4. ASSUME NEW pc \in {"validate", "rename"}, Step(p, pc), UNCHANGED home, catalog' = cmd[p].catTarget,
             UsedCovered(home, catalog', revisions)
      PROVE  CalmInvariant'
  <2>1. PICK c : c = [cmd[p] EXCEPT !.pc = pc]
    BY Zenon
  <2>2. Kept(c, cmd[p]) /\ c.pc = pc
    BY Zenon, <1>0, <2>1 DEF Commands, Kept
  <2>3. cmd' = [cmd EXCEPT ![p] = c]
    BY Zenon, <1>4, <2>1 DEF Step, Go
  <2>4. cmd'[p] = c /\ \A r \in Procs : r # p => cmd'[r] = cmd[r]
    BY Zenon, <1>0, <2>3, OneCommand
  <2>5. InWindow(c) /\ c.pc # "restore" /\ Between(cmd')
    BY Zenon, <1>4, <2>2, <2>4 DEF InWindow, Between
  <2>6. CalmCommand(c, home', catalog', cmd')
    BY Zenon, <1>4, <2>2, <2>5 DEF CalmCommand, Kept
  <2>7. \A r \in Procs : r # p => CalmCommand(cmd[r], home', catalog', cmd')
    BY Zenon, <1>2, <2>5 DEF CalmCommand
  <2> QED BY Zenon, <1>1, <1>4, <2>4, <2>6, <2>7 DEF CalmInvariant
<1>5. CASE PublishCatalog(p)
  <2>0. /\ cmd[p].pc = "catalog" /\ Compared(cmd[p]) /\ ~InWindow(cmd[p])
    BY Zenon, <1>3, <1>5 DEF PublishCatalog, At, Compared, InWindow
  <2>1. ~Between(cmd)
    BY Zenon, <1>2, <2>0 DEF Between
  <2>2. /\ AfterCatalog(p) /\ UNCHANGED home
        /\ cmd[p].update => catalog' = cmd[p].catTarget
        /\ ~cmd[p].update => catalog' = catalog
    BY Zenon, <1>5 DEF PublishCatalog
  <2>3. CASE cmd[p].flow = "commit"
    <3>1. home[cmd[p].home].art = cmd[p].base
      BY Zenon, <1>0, <2>0, <2>3 DEF LockCovered
    <3>2. cmd[p].cat = catalog
      BY Zenon, <1>0, <1>1, <2>1, <3>1 DEF CalmCommand
    <3>3. catalog' = cmd[p].catTarget
      <4>1. CASE cmd[p].update
        BY Zenon, <2>2, <4>1
      <4>2. CASE ~cmd[p].update /\ cmd[p].cat # cmd[p].catTarget
        BY Zenon, <1>0, <2>0, <2>2, <4>2 DEF LockCovered
      <4>3. CASE ~cmd[p].update /\ cmd[p].cat = cmd[p].catTarget
        BY Zenon, <2>2, <3>2, <4>3
      <4> QED BY Zenon, <4>1, <4>2, <4>3
    <3>4. UsedCovered(home, catalog', revisions)
      <4>1. UsesOf(revisions, <<>>) = {}
        BY DEF UsesOf
      <4>2. \A h \in Homes : h # g => home[h].art = <<>>
        BY Zenon, <1>0 DEF HomesCovered
      <4>3. UsesOf(revisions, home[g].art) \subseteq catalog'
        BY Zenon, <1>3, <3>1, <3>3 DEF TargetCovered
      <4> QED BY Zenon, <4>1, <4>2, <4>3 DEF UsedCovered
    <3>5. Step(p, "validate")
      BY Zenon, <2>2, <2>3 DEF AfterCatalog
    <3> QED BY Zenon, <1>4, <2>2, <3>3, <3>4, <3>5
  <2>4. CASE cmd[p].flow = "reconcile"
    <3>1. home[cmd[p].home].art = cmd[p].target
      BY Zenon, <1>0, <2>0, <2>4 DEF LockCovered
    <3>2. UsesOf(revisions, cmd[p].target) \subseteq catalog
      BY Zenon, <1>0, <1>3, <3>1 DEF UsedCovered
    <3>3. ~cmd[p].update
      BY Zenon, <1>0, <1>3, <2>0, <3>2 DEF LockCovered, TargetCovered
    <3>4. UNCHANGED catalog /\ cmd[p].pc \notin {"idle", "read", "validate", "rename"}
      BY Zenon, <2>0, <2>2, <3>3
    <3>5. Return(p) \/ Step(p, "audit") \/ Step(p, "checkpoint")
      <4>1. Return(p) \/ Step(p, IF cmd[p].next.audit # files[Me(p)].audit THEN "audit" ELSE "checkpoint")
        BY Zenon, <2>2, <2>4 DEF AfterCatalog
      <4> QED BY Zenon, <4>1
    <3>6. ASSUME NEW pc \in {"audit", "checkpoint"}, Step(p, pc) PROVE CalmInvariant'
      <4>1. PICK c : c = [cmd[p] EXCEPT !.pc = pc]
        BY Zenon
      <4>2. Kept(c, cmd[p]) /\ c.pc = pc
        BY Zenon, <1>0, <4>1 DEF Commands, Kept
      <4>3. cmd' = [cmd EXCEPT ![p] = c] /\ c.pc \notin {"validate", "rename", "restore"}
        BY Zenon, <3>6, <4>1, <4>2 DEF Step, Go
      <4>4. UsedCovered(home, catalog, revisions')
        BY Zenon, <1>0, <1>1
      <4> QED BY Zenon, <1>0, <2>2, <3>4, <4>2, <4>3, <4>4, CalmKept
    <3>7. CASE Return(p)
      BY Zenon, <1>0, <1>1, <2>2, <3>4, <3>7, CalmReturns
    <3> QED BY Zenon, <3>5, <3>6, <3>7
  <2> QED BY Zenon, <1>3, <2>3, <2>4
<1>6. CASE Validate(p)
  <2>1. cmd[p].pc = "validate" /\ Step(p, "rename") /\ UNCHANGED <<home, catalog>>
    BY Zenon, <1>6 DEF Validate, At
  <2>2. catalog = cmd[p].catTarget
    BY Zenon, <1>0, <2>1 DEF CalmCommand, InWindow
  <2> QED BY Zenon, <1>0, <1>4, <2>1, <2>2
<1>7. CASE SharedFailed(p)
  <2>1. cmd[p].pc = "validate" /\ home[cmd[p].home].inode # cmd[p].inode
    BY Zenon, <1>7 DEF SharedFailed, At
  <2> QED BY Zenon, <1>0, <2>1 DEF LockCovered, FlowOK
<1>8. CASE RestoreCatalog(p)
  BY Zenon, <1>0, <1>8 DEF RestoreCatalog, At, CalmCommand
<1>9. CASE Rename(p)
  <2>1. /\ cmd[p].pc = "rename" /\ Step(p, "checkpoint") /\ UNCHANGED catalog
        /\ home' = [home EXCEPT ![cmd[p].home].art = cmd[p].target, ![cmd[p].home].inode = @ + 1]
    BY Zenon, <1>9 DEF Rename, At
  <2>2. PICK c : c = [cmd[p] EXCEPT !.pc = "checkpoint"]
    BY Zenon
  <2>3. Kept(c, cmd[p]) /\ c.pc = "checkpoint"
    BY Zenon, <1>0, <2>2 DEF Commands, Kept
  <2>4. cmd' = [cmd EXCEPT ![p] = c]
    BY Zenon, <2>1, <2>2 DEF Step, Go
  <2>5. cmd'[p] = c /\ \A r \in Procs : r # p => cmd'[r] = cmd[r]
    BY Zenon, <1>0, <2>4, OneCommand
  <2>6. \A h \in Homes : home'[h].art = IF h = g THEN cmd[p].target ELSE home[h].art
    BY <1>0, <1>3, <2>1 DEF HomeFiles
  <2>7. /\ catalog = cmd[p].catTarget /\ home[g].art = cmd[p].base /\ Extends(cmd[p].base, cmd[p].target)
        /\ cmd[p].target # cmd[p].base
    <3>1. InWindow(cmd[p])
      BY Zenon, <2>1 DEF InWindow
    <3> QED BY Zenon, <1>0, <1>1, <1>3, <2>1, <3>1 DEF CalmCommand, LockCovered, FlowOK, TargetCovered
  <2>8. UsedCovered(home', catalog', revisions')
    BY Zenon, <1>0, <1>1, <1>3, <2>1, <2>6, <2>7 DEF UsedCovered, TargetCovered
  <2>9. CalmCommand(c, home', catalog', cmd')
    <3>1. c.base # home'[c.home].art
      BY Zenon, <1>3, <2>3, <2>6, <2>7 DEF Kept
    <3> QED BY Zenon, <2>3, <3>1 DEF CalmCommand, InWindow
  <2>10. ASSUME NEW r \in Procs, r # p PROVE CalmCommand(cmd[r], home', catalog', cmd')
    <3>1. cmd[r] \in Commands /\ PlanCovered(cmd[r], revisions, scenario) /\ BaseCovered(cmd[r], revisions, home)
      BY Zenon, <1>0 DEF TypeOK, CatalogInvariant, CommandCovered
    <3>2. ASSUME cmd[r].pc \notin {"idle", "read"}, cmd[r].base = home'[cmd[r].home].art PROVE FALSE
      <4>1. cmd[r].home = g
        BY Zenon, <3>1, <3>2 DEF PlanCovered
      <4>2. cmd[r].base = cmd[p].target
        BY Zenon, <2>6, <3>2, <4>1
      <4>3. Extends(cmd[p].target, cmd[p].base)
        BY ZenonT(60), <2>7, <3>1, <4>1, <4>2 DEF BaseCovered
      <4>4. cmd[p].target \in Seq(Nat) /\ cmd[p].base \in Seq(Nat)
        BY Zenon, <1>0 DEF Commands, Artifacts
      <4> QED BY Zenon, <2>7, <4>3, <4>4, ExtendsBack
    <3> QED BY Zenon, <1>2, <2>10, <3>2 DEF CalmCommand
  <2> QED BY Zenon, <2>5, <2>8, <2>9, <2>10 DEF CalmInvariant
<1> QED BY Zenon, <1>5, <1>6, <1>7, <1>8, <1>9

-----------------------------------------------------------------------------
(* What is left of the bounds *)

Budget == [moves : Nat, faults : Nat, kills : Nat, outages : Nat]

\* What a step spends.
Spends(k) == budget[k] > 0 /\ budget' = [budget EXCEPT ![k] = @ - 1]

LEMMA StepsSpend ==
    ASSUME NEW p \in Procs, (\E h \in Homes : ReadVault(p, h)) \/ Proceed(p)
    PROVE  UNCHANGED budget \/ Spends("faults") \/ Spends("kills")
<1>1. CASE \/ \E h \in Homes : ReadVault(p, h)
           \/ Probe(p) \/ StartInitialize(p) \/ Open(p) \/ StartAdvance(p)
           \/ (\E w \in 0 .. MaxRevisions : PlanMutation(p, w)) \/ (\E a \in Known : PlanImport(p, a))
           \/ StartEvent(p) \/ Refuse(p) \/ Acquire(p)
  BY Zenon, <1>1 DEF ReadVault, Probe, StartInitialize, Open, StartAdvance, PlanMutation, PlanImport,
     StartEvent, Refuse, Acquire
<1>2. CASE Examine(p) \/ ExamineTarget(p) \/ Abandon(p) \/ GitMoved(p) \/ Validate(p)
  BY Zenon, <1>2 DEF Examine, ExamineTarget, Abandon, GitMoved, Validate
<1>3. CASE SharedFailed(p) \/ PublishCatalog(p) \/ RestoreCatalog(p) \/ Rename(p)
  BY Zenon, <1>3 DEF SharedFailed, PublishCatalog, RestoreCatalog, Rename, Fault, NoFault, Spends
<1>4. CASE PublishAudit(p) \/ PublishCheckpoint(p) \/ PublishReceipts(p)
  BY Zenon, <1>4 DEF PublishAudit, PublishCheckpoint, PublishReceipts, PublishedAndSynced, PublishedUnsynced,
     NotPublished, Fault, NoFault, Spends
<1>5. CASE Crash(p)
  BY Zenon, <1>5 DEF Crash, Spends
<1> QED BY Zenon, <1>1, <1>2, <1>3, <1>4, <1>5 DEF Proceed

LEMMA SpentOnce ==
    ASSUME budget \in Budget, NEW k \in {"moves", "faults", "kills", "outages"}, Spends(k)
    PROVE  /\ budget' \in Budget /\ budget'[k] < budget[k]
           /\ \A j \in {"moves", "faults", "kills", "outages"} : budget'[j] <= budget[j]
BY DEF Budget, Spends

\* The bounds of the scenario are those the behaviour starts with.
BudgetOK ==
  /\ scenario \in Scenarios /\ budget \in Budget /\ scenario.failures \in Budget
  /\ \A j \in {"moves", "faults", "kills", "outages"} : budget[j] <= scenario.failures[j]

LEMMA BudgetKept ==
    ASSUME BudgetOK, UNCHANGED scenario, UNCHANGED budget \/ \E k \in {"moves", "faults", "kills", "outages"} : Spends(k)
    PROVE  BudgetOK'
<1>1. budget \in Budget /\ scenario.failures \in Budget
  BY Zenon DEF BudgetOK
<1>2. budget' \in Budget /\ \A j \in {"moves", "faults", "kills", "outages"} : budget'[j] <= budget[j]
  <2>1. CASE UNCHANGED budget
    BY <1>1, <2>1 DEF Budget
  <2> QED BY Zenon, <1>1, <2>1, SpentOnce
<1>3. \A j \in {"moves", "faults", "kills", "outages"} :
         budget'[j] \in Nat /\ budget[j] \in Nat /\ scenario.failures[j] \in Nat
  BY <1>1, <1>2 DEF Budget
<1>4. \A j \in {"moves", "faults", "kills", "outages"} : budget'[j] <= scenario.failures[j]
  BY <1>2, <1>3 DEF BudgetOK
<1> QED BY Zenon, <1>2, <1>4 DEF BudgetOK

\* Steps of the instances.
LEMMA InstanceSteps ==
    ASSUME MCNext, scenario \in Scenarios
    PROVE  /\ Next /\ UNCHANGED scenario
           /\ \/ \E p \in Procs : (\E h \in scenario.homes \cap Homes : ReadVault(p, h)) \/ Proceed(p)
              \/ Environment
<1>1. UNCHANGED scenario
  BY Zenon DEF MCNext
<1>2. \/ \E p \in Procs : (\E h \in scenario.homes \cap Homes : ReadVault(p, h)) \/ Proceed(p)
      \/ Environment
  BY Zenon, ScenariosAssumption DEF MCNext
<1>3. Next
  BY Zenon, <1>2 DEF Next
<1> QED BY Zenon, <1>1, <1>2, <1>3

LEMMA InstancesSpend ==
    ASSUME MCNext, BudgetOK
    PROVE  BudgetOK'
<1>1. scenario \in Scenarios
  BY Zenon DEF BudgetOK
<1>2. UNCHANGED scenario
  BY Zenon, <1>1, InstanceSteps
<1>3. CASE Environment
  <2>1. UNCHANGED budget \/ Spends("moves") \/ Spends("outages")
    BY Zenon, <1>3 DEF Environment, GitMove, FileChange, PowerLoss, ClearLock, WriteBack, Spends
  <2> QED BY Zenon, <1>2, <2>1, BudgetKept
<1>4. ASSUME NEW p \in Procs, (\E h \in scenario.homes \cap Homes : ReadVault(p, h)) \/ Proceed(p) PROVE BudgetOK'
  <2>1. UNCHANGED budget \/ Spends("faults") \/ Spends("kills")
    BY Zenon, <1>4, StepsSpend
  <2> QED BY Zenon, <1>2, <2>1, BudgetKept
<1> QED BY Zenon, <1>1, <1>3, <1>4, InstanceSteps

LEMMA NoFaultCalmly == ASSUME budget \in Budget, UNCHANGED budget PROVE ~Fault /\ ~Spends("kills") /\ ~Spends("faults")
<1>1. ~Spends("kills") /\ ~Spends("faults")
  BY DEF Budget, Spends
<1> QED BY Zenon, <1>1 DEF Fault, Spends

\* What is true of the catalog under the conditions of CoveredBeforeUse.
CatalogSound == Alone => CatalogInvariant /\ (Calm => CalmInvariant)

LEMMA CatalogInductive ==
    ASSUME BudgetOK, CommitInvariant, CatalogSound, MCNext
    PROVE  CatalogSound'
<1>0. scenario \in Scenarios /\ TypeOK /\ budget \in Budget
  BY Zenon DEF BudgetOK, CommitInvariant
<1>1. /\ UNCHANGED scenario /\ BudgetOK'
      /\ \/ \E p \in Procs : (\E h \in scenario.homes \cap Homes : ReadVault(p, h)) \/ Proceed(p)
         \/ Environment
  BY Zenon, <1>0, InstanceSteps, InstancesSpend
<1> SUFFICES ASSUME Alone' PROVE CatalogInvariant' /\ (Calm' => CalmInvariant')
  BY Zenon DEF CatalogSound
<1>2. PICK g \in Homes : scenario.homes = {g}
  BY Zenon, <1>1 DEF Alone
<1>3. ~Spends("moves") /\ ~Spends("outages") /\ Alone
  <2>1. /\ scenario.failures.moves = budget'.moves /\ scenario.failures.outages = budget'.outages
    BY ZenonT(60), <1>1 DEF Alone
  <2>2. /\ budget.moves \in Nat /\ budget'.moves \in Nat /\ scenario.failures.moves \in Nat
        /\ budget.moves <= scenario.failures.moves
    BY <1>1 DEF BudgetOK, Budget
  <2>3. /\ budget.outages \in Nat /\ budget'.outages \in Nat /\ scenario.failures.outages \in Nat
        /\ budget.outages <= scenario.failures.outages
    BY <1>1 DEF BudgetOK, Budget
  <2>4. UNCHANGED budget \/ \E k \in {"moves", "faults", "kills", "outages"} : Spends(k)
    <3>1. CASE Environment
      BY Zenon, <3>1 DEF Environment, GitMove, FileChange, PowerLoss, ClearLock, WriteBack, Spends
    <3> QED BY Zenon, <1>1, <3>1, StepsSpend
  <2>5. /\ budget'.moves <= budget.moves /\ budget'.outages <= budget.outages
        /\ Spends("moves") => budget'.moves < budget.moves
        /\ Spends("outages") => budget'.outages < budget.outages
    <3>1. Spends("moves") => budget'.moves < budget.moves
      BY Zenon, <1>0, SpentOnce
    <3>2. Spends("outages") => budget'.outages < budget.outages
      BY Zenon, <1>0, SpentOnce
    <3>3. CASE UNCHANGED budget
      BY <2>2, <2>3, <3>1, <3>2, <3>3
    <3>4. CASE \E k \in {"moves", "faults", "kills", "outages"} : Spends(k)
      BY Zenon, <1>0, <3>1, <3>2, <3>4, SpentOnce
    <3> QED BY Zenon, <2>4, <3>3, <3>4
  <2>6. budget'.moves = budget.moves /\ ~Spends("moves")
    BY <2>1, <2>2, <2>5
  <2>7. budget'.outages = budget.outages /\ ~Spends("outages")
    BY <2>1, <2>3, <2>5
  <2> QED BY Zenon, <1>2, <2>1, <2>6, <2>7 DEF Alone
<1>4. CatalogInvariant /\ (Calm => CalmInvariant)
  BY Zenon, <1>3 DEF CatalogSound
<1>5. ASSUME NEW p \in Procs, (\E h \in scenario.homes \cap Homes : ReadVault(p, h)) \/ Proceed(p)
      PROVE  CatalogInvariant' /\ (Calm' => CalmInvariant')
  <2>1. CatalogInvariant'
    BY Zenon, <1>0, <1>1, <1>2, <1>4, <1>5, OpeningKnows, PlanningKnows, ComparingKnows, CatalogKnows,
       RenameKnows, PublishingKnows DEF Proceed
  <2>2. ASSUME Calm' PROVE CalmInvariant'
    <3>1. scenario.failures = budget'
      BY Zenon, <1>1, <2>2 DEF Calm
    <3>2. UNCHANGED budget
      <4>1. UNCHANGED budget \/ Spends("faults") \/ Spends("kills")
        BY Zenon, <1>5, StepsSpend
      <4>2. /\ budget.faults \in Nat /\ budget.kills \in Nat
            /\ budget.faults <= budget'.faults /\ budget.kills <= budget'.kills
        BY <3>1 DEF BudgetOK, Budget
      <4>3. Spends("faults") => budget'.faults < budget.faults
        BY Zenon, <1>0, SpentOnce
      <4>4. Spends("kills") => budget'.kills < budget.kills
        BY Zenon, <1>0, SpentOnce
      <4>5. budget'.faults \in Nat /\ budget'.kills \in Nat
        BY <1>1 DEF BudgetOK, Budget
      <4>6. ~Spends("faults") /\ ~Spends("kills")
        BY <4>2, <4>3, <4>4, <4>5
      <4> QED BY Zenon, <4>1, <4>6
    <3>3. CalmInvariant /\ ~Fault /\ ~Spends("kills")
      BY Zenon, <1>0, <1>4, <3>1, <3>2, NoFaultCalmly DEF Calm
    <3>4. ~Crash(p)
      BY Zenon, <3>3 DEF Crash, Spends
    <3> QED BY ZenonT(60), <1>2, <1>4, <1>5, <3>3, <3>4, CalmQuiet, CalmWindow DEF Proceed
  <2> QED BY Zenon, <2>1, <2>2
<1>6. CASE Environment
  <2>1. ClearLock \/ WriteBack
    BY Zenon, <1>3, <1>6 DEF Environment, GitMove, FileChange, PowerLoss, Spends
  <2>2. UNCHANGED <<home, catalog, cmd, revisions, published, budget>>
    BY Zenon, <2>1 DEF ClearLock, WriteBack
  <2>3. CatalogInvariant'
    BY Zenon, <1>1, <1>4, <2>2 DEF CatalogInvariant
  <2>4. Calm' => CalmInvariant'
    BY Zenon, <1>1, <1>4, <2>2 DEF Calm, CalmInvariant
  <2> QED BY Zenon, <2>3, <2>4
<1> QED BY Zenon, <1>1, <1>5, <1>6

-----------------------------------------------------------------------------
(* What a power loss would leave, where no publication fails *)

\* Without a failed sync, a power loss leaves everything as commands see it.
LEMMA SyncedSteps ==
    ASSUME TypeOK, disk.files = files, Next, ~Fault
    PROVE  disk'.files = files'
<1>0. disk \in Disks /\ files \in [Principals -> LocalFiles]
  BY DEF TypeOK, Disks
<1>1. \A k : [disk EXCEPT !.catalog = k].files = disk.files
  BY <1>0 DEF Disks
<1>2. \A h, a : [disk EXCEPT !.art[h] = a].files = disk.files
  BY <1>0 DEF Disks
<1>3. \A q, f : [disk EXCEPT !.files[q] = f].files = [disk.files EXCEPT ![q] = f]
  BY <1>0 DEF Disks
<1>4. ASSUME NEW p \in Procs, (\E h \in Homes : ReadVault(p, h)) \/ Proceed(p)
      PROVE  disk'.files = files'
  <2>1. CASE PublishAudit(p) \/ PublishCheckpoint(p) \/ PublishReceipts(p)
    <3>1. \E k : PublishedAndSynced(p, k)
      BY Zenon, <2>1 DEF PublishAudit, PublishCheckpoint, PublishReceipts, PublishedUnsynced, NotPublished
    <3>2. PICK g : /\ files' = [files EXCEPT ![Me(p)] = g]
                   /\ disk' = [disk EXCEPT !.files[Me(p)] = g]
      BY Zenon, <3>1 DEF PublishedAndSynced
    <3> QED BY Zenon, <1>3, <3>2
  <2>2. CASE PublishCatalog(p) \/ RestoreCatalog(p)
    <3>1. /\ files' = files /\ (disk' = disk \/ \E k : disk' = [disk EXCEPT !.catalog = k])
      BY Zenon, <2>2 DEF PublishCatalog, RestoreCatalog
    <3> QED BY Zenon, <1>1, <3>1
  <2>3. CASE Rename(p)
    <3>1. files' = files /\ disk' = [disk EXCEPT !.art[cmd[p].home] = cmd[p].target]
      BY Zenon, <2>3 DEF Rename
    <3> QED BY Zenon, <1>2, <3>1
  <2>4. CASE \/ \E h \in Homes : ReadVault(p, h)
             \/ Probe(p) \/ StartInitialize(p) \/ Open(p) \/ StartAdvance(p)
             \/ (\E w \in 0 .. MaxRevisions : PlanMutation(p, w)) \/ (\E a \in Known : PlanImport(p, a))
             \/ StartEvent(p) \/ Refuse(p)
    BY Zenon, <2>4 DEF ReadVault, Probe, StartInitialize, Open, StartAdvance, PlanMutation, PlanImport,
       StartEvent, Refuse
  <2>5. CASE \/ Acquire(p) \/ Examine(p) \/ ExamineTarget(p) \/ Abandon(p) \/ GitMoved(p) \/ Validate(p)
             \/ SharedFailed(p) \/ Crash(p)
    BY Zenon, <2>5 DEF Acquire, Examine, ExamineTarget, Abandon, GitMoved, Validate, SharedFailed, Crash
  <2> QED BY Zenon, <1>4, <2>1, <2>2, <2>3, <2>4, <2>5 DEF Proceed
<1>5. CASE Environment
  <2>1. CASE \E h \in Homes : GitMove(h) \/ \E a \in Known : FileChange(h, a)
    <3>1. files' = files /\ (disk' = disk \/ \E h, a : disk' = [disk EXCEPT !.art[h] = a])
      BY Zenon, <2>1 DEF GitMove, FileChange
    <3> QED BY Zenon, <1>2, <3>1
  <2>2. CASE PowerLoss \/ ClearLock
    BY Zenon, <2>2 DEF PowerLoss, ClearLock
  <2>3. CASE WriteBack
    <3>1. /\ files' = files
          /\ \/ \E h, a : disk' = [disk EXCEPT !.art[h] = a]
             \/ \E q \in Principals : disk' = [disk EXCEPT !.files[q] = files[q]]
             \/ \E k : disk' = [disk EXCEPT !.catalog = k]
      BY Zenon, <2>3 DEF WriteBack
    <3>2. \A q \in Principals : [files EXCEPT ![q] = files[q]] = files
      BY <1>0
    <3>3. ASSUME NEW q \in Principals, disk' = [disk EXCEPT !.files[q] = files[q]] PROVE disk'.files = files'
      <4>1. disk'.files = [disk.files EXCEPT ![q] = files[q]]
        BY Zenon, <1>3, <3>3
      <4> QED BY <3>1, <3>2, <4>1
    <3>4. ASSUME NEW h, NEW a, disk' = [disk EXCEPT !.art[h] = a] PROVE disk'.files = files'
      BY Zenon, <1>2, <3>1, <3>4
    <3>5. ASSUME NEW k, disk' = [disk EXCEPT !.catalog = k] PROVE disk'.files = files'
      BY Zenon, <1>1, <3>1, <3>5
    <3> QED BY Zenon, <3>1, <3>3, <3>4, <3>5
  <2> QED BY Zenon, <1>5, <2>1, <2>2, <2>3 DEF Environment
<1> QED BY Zenon, <1>4, <1>5 DEF Next

\* A commit is reported once its checkpoint is published, or when there was
\* nothing left to publish.
LEMMA ReportsGrow ==
    ASSUME Next
    PROVE  \/ UNCHANGED reported
           \/ \E p \in Procs :
                /\ reported' = [reported EXCEPT ![Me(p)] = @ \cup {cmd[p].target}]
                /\ \/ /\ cmd[p].pc = "checkpoint" /\ cmd[p].flow \in {"commit", "reconcile"}
                      /\ PublishedAndSynced(p, "checkpoint")
                   \/ /\ cmd[p].pc = "catalog" /\ cmd[p].flow # "commit" /\ cmd[p].next = files[Me(p)]
                      /\ UNCHANGED files
<1>1. ASSUME NEW p \in Procs, (\E h \in Homes : ReadVault(p, h)) \/ Proceed(p)
      PROVE  \/ UNCHANGED reported
             \/ /\ reported' = [reported EXCEPT ![Me(p)] = @ \cup {cmd[p].target}]
                /\ \/ /\ cmd[p].pc = "checkpoint" /\ cmd[p].flow \in {"commit", "reconcile"}
                      /\ PublishedAndSynced(p, "checkpoint")
                   \/ /\ cmd[p].pc = "catalog" /\ cmd[p].flow # "commit" /\ cmd[p].next = files[Me(p)]
                      /\ UNCHANGED files
  <2>1. CASE PublishCheckpoint(p)
    BY Zenon, <2>1 DEF PublishCheckpoint, At
  <2>2. CASE PublishCatalog(p)
    BY Zenon, <2>2 DEF PublishCatalog, AfterCatalog, At
  <2>3. CASE \/ \E h \in Homes : ReadVault(p, h)
             \/ Probe(p) \/ StartInitialize(p) \/ Open(p) \/ StartAdvance(p)
             \/ (\E w \in 0 .. MaxRevisions : PlanMutation(p, w)) \/ (\E a \in Known : PlanImport(p, a))
             \/ StartEvent(p) \/ Refuse(p)
    BY Zenon, <2>3 DEF ReadVault, Probe, StartInitialize, Open, StartAdvance, PlanMutation, PlanImport,
       StartEvent, Refuse
  <2>4. CASE \/ Acquire(p) \/ Examine(p) \/ ExamineTarget(p) \/ Abandon(p) \/ GitMoved(p) \/ Validate(p)
             \/ SharedFailed(p) \/ Crash(p)
    BY Zenon, <2>4 DEF Acquire, Examine, ExamineTarget, Abandon, GitMoved, Validate, SharedFailed, Crash
  <2>5. CASE PublishAudit(p) \/ RestoreCatalog(p) \/ Rename(p) \/ PublishReceipts(p)
    BY Zenon, <2>5 DEF PublishAudit, RestoreCatalog, Rename, PublishReceipts
  <2> QED BY Zenon, <1>1, <2>1, <2>2, <2>3, <2>4, <2>5 DEF Proceed
<1>2. CASE Environment
  BY Zenon, <1>2 DEF Environment, GitMove, FileChange, PowerLoss, ClearLock, WriteBack
<1> QED BY Zenon, <1>1, <1>2 DEF Next

-----------------------------------------------------------------------------
(* The instances *)

LEMMA InstancesBegin == MCInit => BudgetOK /\ Init
<1> SUFFICES ASSUME MCInit PROVE BudgetOK /\ Init
  OBVIOUS
<1>1. Init /\ scenario \in Scenarios /\ scenario.failures = budget
  BY Zenon DEF MCInit
<1>2. budget \in Budget
  BY Zenon, <1>1, CommitBoundsAssumption DEF Init, Budget
<1>3. \A j \in {"moves", "faults", "kills", "outages"} : budget[j] <= budget[j]
  BY <1>2 DEF Budget
<1> QED BY Zenon, <1>1, <1>2, <1>3 DEF BudgetOK

\* The instances keep their bounds, and what is proved of all behaviours.
LEMMA InstancesSafe == MCSpec => [](BudgetOK /\ CommitInvariant)
<1>1. MCInit => BudgetOK /\ CommitInvariant
  BY Zenon, InstancesBegin, CommitInitially
<1>2. BudgetOK /\ CommitInvariant /\ [MCNext]_<<vars, scenario>> => (BudgetOK /\ CommitInvariant)'
  <2>1. ASSUME BudgetOK, CommitInvariant, MCNext PROVE (BudgetOK /\ CommitInvariant)'
    <3>1. scenario \in Scenarios
      BY Zenon, <2>1 DEF BudgetOK
    <3>2. Next
      BY Zenon, <2>1, <3>1, InstanceSteps
    <3> QED BY Zenon, <2>1, <3>2, InstancesSpend, CommitInductive
  <2>2. ASSUME BudgetOK, CommitInvariant, UNCHANGED <<vars, scenario>> PROVE (BudgetOK /\ CommitInvariant)'
    <3>1. UNCHANGED vars /\ UNCHANGED scenario /\ UNCHANGED budget
      BY Zenon, <2>2 DEF vars
    <3>2. BudgetOK'
      BY Zenon, <2>2, <3>1 DEF BudgetOK
    <3> QED BY Zenon, <2>2, <3>1, <3>2, CommitInductive
  <2> QED BY Zenon, <2>1, <2>2
<1> QED BY <1>1, <1>2, PTL DEF MCSpec

\* With one home, and until another tool changes the artifact or the power is
\* lost: whatever fails or is killed, the catalog has the witness policies that
\* the artifact's own revisions added, because commit_with_before_shared_publish
\* publishes the catalog before the artifact and puts the former one back only
\* while the former artifact is in place; and until a step fails or a command is
\* killed it has every policy a reader asks it for, those a commit found staged
\* and compared with no catalog included.
THEOREM CatalogReady == MCSpec => []CoveredBeforeUse
<1>1. MCInit => CatalogSound
  <2> SUFFICES ASSUME MCInit PROVE CatalogInvariant /\ CalmInvariant
    BY Zenon DEF CatalogSound
  <2>1. Init
    BY Zenon DEF MCInit
  <2>2. /\ revisions = <<>> /\ published = {} /\ catalog = {} /\ \A h \in Homes : home[h].art = <<>>
        /\ \A p \in Procs : cmd[p] = Idle
    BY <2>1 DEF Init
  <2>3. home \in HomeFiles
    BY ZenonT(60), <2>1, CommitInitially DEF CommitInvariant, TypeOK, HomeFiles
  <2>4. /\ \A revs : Within(revs, <<>>) /\ UsesOf(revs, <<>>) = {} /\ BroughtOf(revs, <<>>) = {}
        /\ Named(<<>>)
    BY DEF Within, UsesOf, BroughtOf, Named
  <2>5. HomesCovered(home, catalog, revisions, scenario) /\ UsedCovered(home, catalog, revisions)
    BY Zenon, <2>2, <2>4 DEF HomesCovered, UsedCovered
  <2>6. PublishedOK(published, revisions, home, scenario)
    BY Zenon, <2>2 DEF PublishedOK
  <2>7. \A p \in Procs : CommandCovered(cmd[p], revisions, home, catalog, scenario)
    BY Zenon, <2>2, <2>3, IdleCovered DEF CommandCovered
  <2>8. CalmCommand(Idle, home, catalog, cmd)
    BY Zenon, IdleCovered DEF CalmCommand, InWindow
  <2>9. catalog \subseteq DOMAIN revisions
    BY Zenon, <2>2
  <2> QED BY Zenon, <2>2, <2>4, <2>5, <2>6, <2>7, <2>8, <2>9 DEF CatalogInvariant, CalmInvariant
<1>2. BudgetOK /\ CommitInvariant /\ CatalogSound /\ [MCNext]_<<vars, scenario>> => CatalogSound'
  <2>1. ASSUME CatalogSound, UNCHANGED <<vars, scenario>> PROVE CatalogSound'
    <3>1. UNCHANGED <<home, catalog, cmd, revisions, published, budget, scenario>>
      BY Zenon, <2>1 DEF vars
    <3>2. (Alone' => Alone) /\ (Calm' => Calm)
      BY Zenon, <3>1 DEF Alone, Calm
    <3>3. CatalogInvariant => CatalogInvariant'
      BY Zenon, <3>1 DEF CatalogInvariant
    <3>4. CalmInvariant => CalmInvariant'
      BY Zenon, <3>1 DEF CalmInvariant
    <3> QED BY Zenon, <2>1, <3>2, <3>3, <3>4 DEF CatalogSound
  <2> QED BY Zenon, <2>1, CatalogInductive
<1>3. CatalogSound => CoveredBeforeUse
  <2>1. CatalogInvariant => BroughtCovered
    BY Zenon DEF CatalogInvariant, HomesCovered, BroughtCovered, Brought, BroughtOf
  <2>2. CalmInvariant => CatalogCovers
    BY Zenon DEF CalmInvariant, UsedCovered, CatalogCovers, Uses, UsesOf
  <2> QED BY Zenon, <2>1, <2>2 DEF CatalogSound, Alone, Calm, CoveredBeforeUse
<1> QED BY <1>1, <1>2, <1>3, InstancesSafe, PTL DEF MCSpec

\* What is reported, where no publication fails.
ReportedInvariant ==
  /\ reported \in [Principals -> SUBSET Artifacts]
  /\ disk.files = files
  /\ CommittedRetained

LEMMA ReportedSteps ==
    ASSUME CommitInvariant, ReportedInvariant, Next, ~Fault
    PROVE  ReportedInvariant'
<1>0. TypeOK /\ disk \in Disks /\ disk' \in Disks
  <2>1. CommitInvariant'
    BY Zenon, CommitInductive
  <2> QED BY <2>1 DEF CommitInvariant, TypeOK, Disks
<1>1. disk'.files = files'
  BY Zenon, <1>0, SyncedSteps DEF ReportedInvariant
<1>2. ASSUME NEW q \in Established, NEW a \in reported[q] PROVE Extends(a, disk'.files[q].checkpoint.accepted)
  <2>1. q \in Settled /\ q \in Principals
    BY Zenon, EstablishedAssumption DEF Settled
  <2>2. Extends(disk.files[q].checkpoint.accepted, disk'.files[q].checkpoint.accepted)
    BY Zenon, <2>1, CheckpointRises
  <2>3. Extends(a, disk.files[q].checkpoint.accepted)
    BY Zenon, <1>2 DEF ReportedInvariant, CommittedRetained
  <2>4. disk.files[q] \in LocalFiles /\ disk'.files[q] \in LocalFiles
    BY <1>0, <2>1 DEF Disks
  <2>5. disk.files[q].checkpoint.accepted \in Seq(Nat) /\ disk'.files[q].checkpoint.accepted \in Seq(Nat)
    BY <2>4 DEF LocalFiles, Checkpoints, Artifacts
  <2>6. a \in Seq(Nat)
    BY Zenon, <1>2, <2>1 DEF ReportedInvariant, Artifacts
  <2> QED BY Zenon, <2>2, <2>3, <2>5, <2>6, ExtendsTransitively
<1>3. CASE UNCHANGED reported
  BY Zenon, <1>1, <1>2, <1>3 DEF ReportedInvariant, CommittedRetained
<1>4. ASSUME NEW p \in Procs, reported' = [reported EXCEPT ![Me(p)] = @ \cup {cmd[p].target}],
             \/ /\ cmd[p].pc = "checkpoint" /\ cmd[p].flow \in {"commit", "reconcile"}
                /\ PublishedAndSynced(p, "checkpoint")
             \/ /\ cmd[p].pc = "catalog" /\ cmd[p].flow # "commit" /\ cmd[p].next = files[Me(p)]
                /\ UNCHANGED files
      PROVE  ReportedInvariant'
  <2>1. /\ Me(p) \in Principals /\ cmd[p] \in Commands /\ files[Me(p)] \in LocalFiles
        /\ FlowOK(cmd[p]) /\ (Me(p) \in Settled => NextOK(cmd[p], files[Me(p)]))
    BY ZenonT(60), <1>0, Typed DEF CommitInvariant
  <2>2. cmd[p].target \in Artifacts /\ cmd[p].next \in LocalFiles
    BY ZenonT(60), <2>1 DEF Commands
  <2>3. \A q \in Principals : reported'[q] = IF q = Me(p) THEN reported[q] \cup {cmd[p].target} ELSE reported[q]
    BY ZenonT(60), <1>4 DEF ReportedInvariant
  <2>4. reported' \in [Principals -> SUBSET Artifacts]
    BY Zenon, <1>4, <2>1, <2>2 DEF ReportedInvariant
  <2>5. ASSUME Me(p) \in Settled PROVE files'[Me(p)].checkpoint.accepted = cmd[p].target
    <3>1. cmd[p].next.checkpoint.accepted = cmd[p].target
      BY Zenon, <1>4, <2>1, <2>5 DEF NextOK, FlowOK, Publishing
    <3>2. CASE cmd[p].pc = "catalog"
      BY Zenon, <1>4, <3>1, <3>2
    <3>3. CASE PublishedAndSynced(p, "checkpoint")
      <4>1. PICK g : g = [files[Me(p)] EXCEPT !.checkpoint = cmd[p].next.checkpoint]
        BY Zenon
      <4>2. g.checkpoint = cmd[p].next.checkpoint
        BY <2>1, <4>1 DEF LocalFiles
      <4>3. files' = [files EXCEPT ![Me(p)] = g]
        BY Zenon, <3>3, <4>1 DEF PublishedAndSynced, Replaced
      <4>4. files'[Me(p)] = g
        BY <1>0, <2>1, <4>3 DEF TypeOK
      <4> QED BY Zenon, <3>1, <4>2, <4>4
    <3> QED BY Zenon, <1>4, <3>2, <3>3
  <2>6. Extends(cmd[p].target, cmd[p].target)
    BY Zenon, <2>2, ExtendsItself DEF Artifacts
  <2>7. ASSUME NEW q \in Established, NEW a \in reported'[q] PROVE Extends(a, disk'.files[q].checkpoint.accepted)
    <3>1. q \in Settled /\ q \in Principals
      BY Zenon, EstablishedAssumption DEF Settled
    <3>2. a \in reported[q] \/ (q = Me(p) /\ a = cmd[p].target)
      BY Zenon, <2>3, <2>7, <3>1
    <3> QED BY Zenon, <1>1, <1>2, <2>5, <2>6, <3>1, <3>2
  <2> QED BY Zenon, <1>1, <2>4, <2>7 DEF ReportedInvariant, CommittedRetained
<1> QED BY ZenonT(60), <1>3, <1>4, ReportsGrow

\* Where no publication or sync fails, every artifact that a principal was told
\* is committed stays below the checkpoint that survives a power loss, whatever
\* is killed and whatever other commands and tools do: a commit reports only
\* after its checkpoint is on disk (commit_with_before_shared_publish).
THEOREM CommitsRetained == MCSpec => []CommittedRetainedIfSynced
<1> DEFINE Retained == scenario.failures.faults = 0 => ReportedInvariant
<1>1. MCInit => Retained
  <2> SUFFICES ASSUME MCInit PROVE ReportedInvariant
    OBVIOUS
  <2>1. Init
    BY Zenon DEF MCInit
  <2>2. reported = [q \in Principals |-> {}] /\ disk.files = files
    BY <2>1 DEF Init
  <2> QED BY <2>2, EstablishedAssumption DEF ReportedInvariant, CommittedRetained
<1>2. BudgetOK /\ CommitInvariant /\ Retained /\ [MCNext]_<<vars, scenario>> => Retained'
  <2> SUFFICES ASSUME BudgetOK, CommitInvariant, Retained, [MCNext]_<<vars, scenario>>, (scenario.failures.faults = 0)'
               PROVE  ReportedInvariant'
    BY Zenon
  <2>1. CASE UNCHANGED <<vars, scenario>>
    <3>1. UNCHANGED <<reported, disk, files, scenario>>
      BY Zenon, <2>1 DEF vars
    <3> QED BY Zenon, <3>1 DEF ReportedInvariant, CommittedRetained
  <2>2. CASE MCNext
    <3>1. scenario \in Scenarios
      BY Zenon DEF BudgetOK
    <3>2. Next /\ scenario' = scenario
      BY Zenon, <2>2, <3>1, InstanceSteps
    <3>3. scenario.failures.faults = 0
      BY Zenon, <3>2
    <3>4. budget.faults <= 0 /\ budget.faults \in Nat
      BY <3>3 DEF BudgetOK, Budget
    <3>5. ~Fault
      BY <3>4 DEF Fault
    <3> QED BY Zenon, <3>2, <3>3, <3>5, ReportedSteps
  <2> QED BY Zenon, <2>1, <2>2
<1>3. Retained => CommittedRetainedIfSynced
  BY Zenon DEF ReportedInvariant, CommittedRetainedIfSynced
<1> QED BY <1>1, <1>2, <1>3, InstancesSafe, PTL DEF MCSpec
=============================================================================
