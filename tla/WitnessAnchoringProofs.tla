------------------------- MODULE WitnessAnchoringProofs -------------------------
(***************************************************************************)
(* Proofs about WitnessAnchoring, for any number of processes, database    *)
(* files, operations, generations and backups.                             *)
(*                                                                         *)
(* The inductive invariant says of every stored or loaded state that its   *)
(* candidate is exactly one operation ahead of its published anchor, that  *)
(* published anchors are parts of the external anchor, and that every      *)
(* candidate under way to the anchor is still held by some file or already *)
(* part of what that file knows to be published.                           *)
(***************************************************************************)
EXTENDS WitnessAnchoring, TLAPS

AnchorOK(anchor) ==
    /\ anchor.state_generation = Len(anchor.database_state)
    /\ anchor # None => /\ Len(anchor.database_state) = Len(anchor.predecessor) + 1
                        /\ Prefix(anchor.predecessor, anchor.database_state)

StoredOK(state) ==
    /\ AnchorOK(state.published_anchor)
    /\ AnchorOK(state.pending_anchor)
    /\ state.pending_anchor = None => state.published_anchor.database_state = state.log
    /\ state.pending_anchor # None =>
           /\ state.pending_anchor.database_state = state.log
           /\ state.pending_anchor.predecessor = state.published_anchor.database_state

Anchored(history) == Prefix(history, ext.database_state)

\* Some file still holds the candidate, or knows it to be published.
Held(candidate) ==
    \E c \in files : \/ db[c].pending_anchor = candidate
                     \/ Prefix(candidate.database_state, db[c].published_anchor.database_state)

SwapOK(swap) == /\ swap.candidate # None
                /\ AnchorOK(swap.candidate)
                /\ swap.candidate.predecessor = swap.expected.database_state
                /\ Held(swap.candidate)

ProcOK(p) ==
    /\ StoredOK(st[p])
    /\ Anchored(st[p].published_anchor.database_state)
    /\ Prefix(st[p].log, db[FileOf[p]].log)
    /\ Anchored(since[p])
    /\ pc[p] = "idle" => st[p] = Empty /\ ~committed[p]
    /\ pc[p] # "idle" => FileOf[p] \in files
    /\ pc[p] \in {"read", "cas", "observe", "readback", "mark"} =>
           st[p].pending_anchor # None /\ Held(st[p].pending_anchor)
    /\ pc[p] = "mark" => Anchored(st[p].pending_anchor.database_state)
    /\ pc[p] \in {"ready", "commit"} => st[p].pending_anchor = None
    /\ pc[p] = "commit" => want[p] \in Ops /\ Prefix(since[p], st[p].log)
    /\ committed[p] => Prefix(mine[p], db[FileOf[p]].log) /\ Prefix(since[p], mine[p])
    /\ committed[p] /\ pc[p] = "ready" => Prefix(mine[p], st[p].log)
    /\ pc[p] = "answer" => Anchored(mine[p]) /\ Prefix(since[p], mine[p])

StoreOK ==
    /\ AnchorOK(ext)
    /\ \A c \in Copies : StoredOK(db[c]) /\ Anchored(db[c].published_anchor.database_state)
    /\ \A b \in backups : StoredOK(b) /\ Anchored(b.published_anchor.database_state)
    /\ \A swap \in late : SwapOK(swap)
    /\ ReleasedAnchored
    /\ SomeFileServes

IInv == TypeOK /\ StoreOK /\ \A p \in Procs : ProcOK(p)

-------------------------------------------------------------------------------
(* Lemmas about histories and anchors.                                      *)

(* A history is part of itself.                                             *)
LEMMA PrefixRefl == ASSUME NEW s \in Seq(Ops) PROVE Prefix(s, s)
BY DEF Prefix

(* The empty history is part of every history.                              *)
LEMMA PrefixEmpty == ASSUME NEW s \in Seq(Ops) PROVE Prefix(<<>>, s)
BY DEF Prefix

(* Being part of a history is transitive.                                   *)
LEMMA PrefixTrans ==
    ASSUME NEW s \in Seq(Ops), NEW t \in Seq(Ops), NEW u \in Seq(Ops),
           Prefix(s, t), Prefix(t, u)
    PROVE  Prefix(s, u)
BY DEF Prefix

(* A history is part of its extension by an operation.                      *)
LEMMA PrefixAppend ==
    ASSUME NEW s \in Seq(Ops), NEW op \in Ops
    PROVE  Append(s, op) \in Seq(Ops) /\ Prefix(s, Append(s, op))
BY DEF Prefix

(* A part as long as the whole is the whole.                                *)
LEMMA PrefixEqual ==
    ASSUME NEW s \in Seq(Ops), NEW t \in Seq(Ops), Prefix(s, t), Len(t) <= Len(s)
    PROVE  s = t
BY DEF Prefix

(* A history one operation longer than a part of it is an extension of it.  *)
LEMMA PrefixExtends ==
    ASSUME NEW s \in Seq(Ops), NEW t \in Seq(Ops), Prefix(s, t), Len(t) = Len(s) + 1
    PROVE  \E op \in Ops : t = Append(s, op)
<1> DEFINE op == t[Len(t)]
<1>1. op \in Ops
  OBVIOUS
<1>2. Append(s, op) \in Seq(Ops) /\ Len(Append(s, op)) = Len(t)
  BY <1>1
<1>3. \A i \in 1..Len(t) : Append(s, op)[i] = t[i]
  BY <1>1 DEF Prefix
<1>4. t = Append(s, op)
  BY <1>2, <1>3
<1> QED BY <1>1, <1>4

(* Two parts of one history are comparable.                                 *)
LEMMA PrefixLinear ==
    ASSUME NEW s \in Seq(Ops), NEW t \in Seq(Ops), NEW u \in Seq(Ops),
           Prefix(s, u), Prefix(t, u)
    PROVE  Prefix(s, t) \/ Prefix(t, s)
<1>1. CASE Len(s) <= Len(t)
  BY <1>1 DEF Prefix
<1>2. CASE Len(t) <= Len(s)
  BY <1>2 DEF Prefix
<1> QED BY <1>1, <1>2

(* The zero anchor and the empty state are well formed.                     *)
LEMMA EmptyOK ==
    /\ None \in Anchor /\ AnchorOK(None)
    /\ Empty \in Stored /\ StoredOK(Empty)
BY DEF None, Anchor, AnchorOK, Empty, Stored, StoredOK, Prefix

(* A well-formed anchor is determined by the history it binds.              *)
LEMMA AnchorDetermined ==
    ASSUME NEW x \in Anchor, NEW y \in Anchor, AnchorOK(x), AnchorOK(y),
           x.database_state = y.database_state
    PROVE  x = y
<1>1. x.state_generation = y.state_generation
  BY DEF AnchorOK
<1>2. CASE x = None \/ y = None
  BY <1>2 DEF AnchorOK, None, Anchor
<1>3. CASE x # None /\ y # None
  <2>1. /\ x.predecessor \in Seq(Ops) /\ y.predecessor \in Seq(Ops)
        /\ Len(x.predecessor) = Len(y.predecessor)
    BY <1>3 DEF AnchorOK, Anchor
  <2>2. \A i \in 1..Len(x.predecessor) : x.predecessor[i] = y.predecessor[i]
    BY <1>3, <2>1 DEF AnchorOK, Prefix, Anchor
  <2>3. x.predecessor = y.predecessor
    BY <2>1, <2>2
  <2> QED BY <1>1, <2>3 DEF Anchor
<1> QED BY <1>2, <1>3

-------------------------------------------------------------------------------
(* Type correctness.                                                        *)

(* A call that ends leaves its locals well typed (Finish).                  *)
LEMMA FinishType ==
    ASSUME TypeOK, NEW p \in Procs, Finish(p)
    PROVE  /\ pc' \in [Procs -> Steps] /\ want' \in [Procs -> Ops \cup {Query}]
           /\ st' \in [Procs -> Stored] /\ committed' \in [Procs -> BOOLEAN]
           /\ mine' \in [Procs -> Seq(Ops)] /\ since' \in [Procs -> Seq(Ops)]
BY EmptyOK DEF TypeOK, Finish, Steps

(* A refused call changes nothing but its locals (Refuse).                  *)
LEMMA RefuseType == ASSUME TypeOK, NEW p \in Procs, Refuse(p) PROVE TypeOK'
<1>1. Finish(p)
  BY DEF Refuse
<1> QED BY <1>1, FinishType DEF Refuse, TypeOK

(* The swap a process sends is made of two anchors (SwapOf).                *)
LEMMA SwapType ==
    ASSUME TypeOK, NEW p \in Procs
    PROVE  SwapOf(p) \in [expected : Anchor, candidate : Anchor]
BY DEF TypeOK, SwapOf, Swap, Stored

(* Every step keeps every variable well typed.                              *)
LEMMA TypeStep ==
    ASSUME TypeOK, \A p \in Procs : pc[p] = "commit" => want[p] \in Ops, [Next]_vars
    PROVE  TypeOK'
<1> USE FileOfAssumption
<1>1. ASSUME NEW p \in Procs, NEW op \in Ops \cup {Query}, Begin(p, op) PROVE TypeOK'
  <2>1. ext.database_state \in Seq(Ops)
    BY DEF TypeOK, Anchor
  <2> QED BY <1>1, <2>1 DEF Begin, TypeOK, Steps
<1>2. ASSUME NEW p \in Procs, Load(p) PROVE TypeOK'
  BY <1>2 DEF Load, Goto, TypeOK, Steps
<1>3. ASSUME NEW p \in Procs, RequirePublishedEquality(p) PROVE TypeOK'
  <2>1. CASE PublishedEquality(st[p])
    BY Zenon, <1>3, <2>1, EmptyOK DEF RequirePublishedEquality, Goto, Forget, TypeOK, Steps
  <2> QED BY <1>3, <2>1, RefuseType DEF RequirePublishedEquality
<1>4. ASSUME NEW p \in Procs, NEW step \in Steps, Goto(p, step),
             UNCHANGED <<db, ext, late, st>> PROVE TypeOK'
  BY <1>4 DEF Goto, TypeOK
<1>5. ASSUME NEW p \in Procs, ReadExternal(p) PROVE TypeOK'
  BY <1>5, <1>4, RefuseType DEF ReadExternal, Steps
<1>6. ASSUME NEW p \in Procs, CasAnswered(p) PROVE TypeOK'
  BY <1>6, SwapType DEF CasAnswered, CompareAndSwap, Goto, TypeOK, Steps
<1>7. ASSUME NEW p \in Procs, CasUnanswered(p) PROVE TypeOK'
  BY <1>7, SwapType, FinishType DEF CasUnanswered, TypeOK
<1>8. ASSUME NEW swap \in late, LateCas(swap) PROVE TypeOK'
  BY <1>8 DEF LateCas, CompareAndSwap, TypeOK
<1>9. ASSUME NEW p \in Procs, Observe(p) PROVE TypeOK'
  BY <1>9, <1>4, RefuseType DEF Observe, Steps
<1>10. ASSUME NEW p \in Procs, Readback(p) PROVE TypeOK'
  BY <1>10, <1>4, RefuseType DEF Readback, Steps
<1>11. ASSUME NEW p \in Procs, MarkPublished(p) PROVE TypeOK'
  <2>1. CASE Refuse(p)
    BY <2>1, RefuseType
  <2>2. CASE ~Refuse(p)
    <3> DEFINE file == FileOf[p]
               new == [db[file] EXCEPT !.published_anchor = db[file].pending_anchor,
                                       !.pending_anchor = None]
    <3>1. db' = [db EXCEPT ![file] = new]
      BY Zenon, <1>11, <2>2 DEF MarkPublished, TypeOK, Stored
    <3>2. new \in Stored
      BY Zenon, EmptyOK DEF TypeOK, Stored
    <3>3. db' \in [Copies -> Stored]
      BY <3>1, <3>2 DEF TypeOK
    <3> QED BY Zenon, <1>11, <2>2, <3>3, EmptyOK DEF MarkPublished, Goto, Forget, TypeOK, Steps
  <2> QED BY <2>1, <2>2
<1>12. ASSUME NEW p \in Procs, Reload(p) PROVE TypeOK'
  <2>1. CASE Refuse(p)
    BY <2>1, RefuseType
  <2>2. CASE ~Refuse(p)
    <3>1. /\ st' = [st EXCEPT ![p] = db[FileOf[p]]] /\ pc' = [pc EXCEPT ![p] = "ready"]
          /\ UNCHANGED <<db, files, backups, ext, late, want, committed, mine, since, released>>
      BY <1>12, <2>2 DEF Reload, Goto
    <3>2. st' \in [Procs -> Stored] /\ pc' \in [Procs -> Steps]
      BY <3>1 DEF TypeOK, Steps
    <3> QED BY <3>1, <3>2 DEF TypeOK
  <2> QED BY <2>1, <2>2
<1>13. ASSUME NEW p \in Procs, Ready(p) PROVE TypeOK'
  <2>1. CASE Refuse(p)
    BY <2>1, RefuseType
  <2>2. CASE pc' = [pc EXCEPT ![p] = "answer"] /\ ~Refuse(p)
    <3>1. st[p].log \in Seq(Ops)
      BY DEF TypeOK, Stored
    <3> QED BY Zenon, <1>13, <2>2, <3>1, EmptyOK DEF Ready, Goto, Forget, TypeOK, Steps
  <2> QED BY <1>13, <1>4, <2>1, <2>2 DEF Ready, Steps
<1>14. ASSUME NEW p \in Procs, Commit(p) PROVE TypeOK'
  <2>1. CASE Refuse(p)
    BY <2>1, RefuseType
  <2>2. CASE ~Refuse(p)
    <3> DEFINE new == [log |-> Append(st[p].log, want[p]),
                       published_anchor |-> st[p].published_anchor,
                       pending_anchor |-> BuildAnchor(st[p], want[p])]
    <3>1. Append(st[p].log, want[p]) \in Seq(Ops)
      BY <1>14 DEF Commit, TypeOK, Stored
    <3>2. new \in Stored
      BY SMTT(60), <3>1 DEF TypeOK, Stored, Anchor, BuildAnchor, Digest
    <3>3. db' \in [Copies -> Stored]
      BY Zenon, <1>14, <2>2, <3>2 DEF Commit, TypeOK
    <3>4. st' \in [Procs -> Stored] /\ pc' \in [Procs -> Steps]
      BY Zenon, <1>14, <2>2, EmptyOK DEF Commit, Forget, TypeOK, Steps
    <3>5. committed' \in [Procs -> BOOLEAN] /\ mine' \in [Procs -> Seq(Ops)]
      BY Zenon, <1>14, <2>2, <3>1 DEF Commit, TypeOK
    <3>6. UNCHANGED <<files, backups, ext, late, want, since, released>>
      BY <1>14, <2>2 DEF Commit
    <3> QED BY <3>3, <3>4, <3>5, <3>6 DEF TypeOK
  <2> QED BY <2>1, <2>2
<1>15. ASSUME NEW p \in Procs, Release(p) PROVE TypeOK'
  BY <1>15, FinishType DEF Release, TypeOK
<1>16. ASSUME NEW p \in Procs, Abort(p) PROVE TypeOK'
  BY <1>16, RefuseType DEF Abort
<1>17. ASSUME NEW c \in Copies, Backup(c) PROVE TypeOK'
  BY <1>17 DEF Backup, TypeOK
<1>18. ASSUME NEW c \in Copies, Restore(c) PROVE TypeOK'
  BY <1>18 DEF Restore, TypeOK
<1>19. CASE UNCHANGED vars
  BY <1>19 DEF vars, TypeOK
<1> QED BY <1>1, <1>2, <1>3, <1>5, <1>6, <1>7, <1>8, <1>9, <1>10, <1>11, <1>12, <1>13,
           <1>14, <1>15, <1>16, <1>17, <1>18, <1>19 DEF Next, Advance, Fail

-------------------------------------------------------------------------------
(* What every step does to the shared state.                                *)

\* Histories of files and of the anchor grow, and candidates are not lost.
Grows ==
    /\ Prefix(ext.database_state, ext'.database_state)
    /\ files \subseteq files'
    /\ \A c \in files :
           /\ Prefix(db[c].log, db'[c].log)
           /\ Prefix(db[c].published_anchor.database_state,
                     db'[c].published_anchor.database_state)
           /\ \/ db[c].pending_anchor \in {None, db'[c].pending_anchor}
              \/ Prefix(db[c].pending_anchor.database_state,
                        db'[c].published_anchor.database_state)

\* The locals of q stay as they are.
Same(q) == /\ pc'[q] = pc[q] /\ want'[q] = want[q] /\ st'[q] = st[q]
           /\ committed'[q] = committed[q] /\ mine'[q] = mine[q] /\ since'[q] = since[q]

(* The parts of a well-typed state are well typed.                          *)
LEMMA Types ==
    ASSUME TypeOK
    PROVE  /\ ext.database_state \in Seq(Ops)
           /\ \A s \in Stored : /\ s.log \in Seq(Ops)
                                /\ s.published_anchor \in Anchor
                                /\ s.pending_anchor \in Anchor
           /\ \A x \in Anchor : x.database_state \in Seq(Ops) /\ x.predecessor \in Seq(Ops)
           /\ \A c \in Copies : db[c] \in Stored
           /\ \A p \in Procs : /\ st[p] \in Stored /\ FileOf[p] \in Copies
                               /\ mine[p] \in Seq(Ops) /\ since[p] \in Seq(Ops)
BY SMTT(60), FileOfAssumption DEF TypeOK, Stored, Anchor

(* A candidate some file holds stays held (Held under Grows).               *)
LEMMA HeldGrows ==
    ASSUME TypeOK, TypeOK', Grows, NEW k \in Anchor, k # None, Held(k)
    PROVE  Held(k)'
<1>1. PICK c \in files : \/ db[c].pending_anchor = k
                         \/ Prefix(k.database_state, db[c].published_anchor.database_state)
  BY DEF Held
<1>2. c \in files' /\ c \in Copies
  BY <1>1 DEF Grows, TypeOK
<1>3. CASE db[c].pending_anchor = k
  BY <1>1, <1>2, <1>3 DEF Grows, Held
<1>4. CASE Prefix(k.database_state, db[c].published_anchor.database_state)
  <2>1. /\ k.database_state \in Seq(Ops)
        /\ db[c].published_anchor.database_state \in Seq(Ops)
        /\ db'[c].published_anchor.database_state \in Seq(Ops)
    BY Zenon, <1>2, Types DEF TypeOK, Stored, Anchor
  <2>2. Prefix(db[c].published_anchor.database_state, db'[c].published_anchor.database_state)
    BY <1>1 DEF Grows
  <2> QED BY <1>2, <1>4, <2>1, <2>2, PrefixTrans DEF Held
<1> QED BY <1>1, <1>3, <1>4

(* An anchored history stays anchored when the anchor grows.                *)
LEMMA AnchoredGrows ==
    ASSUME TypeOK, TypeOK', Grows
    PROVE  \A h \in Seq(Ops) : Anchored(h) => Prefix(h, ext'.database_state)
<1>1. ext.database_state \in Seq(Ops) /\ ext'.database_state \in Seq(Ops)
  BY DEF TypeOK, Anchor
<1> QED BY <1>1, PrefixTrans DEF Anchored, Grows

(* A process that does not move keeps its part of the invariant while       *)
(* others make the shared state grow.                                       *)
LEMMA ProcGrows ==
    ASSUME TypeOK, TypeOK', Grows, NEW p \in Procs, ProcOK(p), Same(p)
    PROVE  ProcOK(p)'
<1> USE DEF Same
<1>1. /\ st[p] \in Stored /\ st[p].log \in Seq(Ops) /\ st[p].pending_anchor \in Anchor
      /\ st[p].pending_anchor.database_state \in Seq(Ops)
      /\ st[p].published_anchor.database_state \in Seq(Ops)
      /\ mine[p] \in Seq(Ops) /\ since[p] \in Seq(Ops) /\ FileOf[p] \in Copies
      /\ db[FileOf[p]].log \in Seq(Ops) /\ db'[FileOf[p]].log \in Seq(Ops)
  BY Types, FileOfAssumption DEF TypeOK, Stored
<1>2. /\ Prefix(st[p].published_anchor.database_state, ext'.database_state)
      /\ Prefix(since[p], ext'.database_state)
      /\ pc[p] = "mark" => Prefix(st[p].pending_anchor.database_state, ext'.database_state)
      /\ pc[p] = "answer" => Prefix(mine[p], ext'.database_state)
  BY <1>1, AnchoredGrows DEF ProcOK
<1>3. Prefix(st[p].log, db'[FileOf[p]].log)
  <2>1. CASE FileOf[p] \in files
    <3>1. Prefix(st[p].log, db[FileOf[p]].log) /\ Prefix(db[FileOf[p]].log, db'[FileOf[p]].log)
      BY Zenon, <2>1 DEF ProcOK, Grows
    <3> QED BY Zenon, <1>1, <3>1, PrefixTrans
  <2>2. CASE FileOf[p] \notin files
    <3>1. st[p].log = <<>>
      BY <2>2 DEF ProcOK, Empty
    <3> QED BY <1>1, <3>1, PrefixEmpty
  <2> QED BY <2>1, <2>2
<1>4. committed[p] => Prefix(mine[p], db'[FileOf[p]].log)
  <2>1. committed[p] => FileOf[p] \in files
    BY DEF ProcOK
  <2>2. ASSUME committed[p] PROVE Prefix(mine[p], db'[FileOf[p]].log)
    <3>1. Prefix(mine[p], db[FileOf[p]].log) /\ Prefix(db[FileOf[p]].log, db'[FileOf[p]].log)
      BY Zenon, <2>1, <2>2 DEF ProcOK, Grows
    <3> QED BY Zenon, <1>1, <3>1, PrefixTrans
  <2> QED BY <2>2
<1>5. pc[p] \in {"read", "cas", "observe", "readback", "mark"} => Held(st[p].pending_anchor)'
  <2>1. SUFFICES ASSUME pc[p] \in {"read", "cas", "observe", "readback", "mark"}
                 PROVE  Held(st[p].pending_anchor)'
    OBVIOUS
  <2> DEFINE k == st[p].pending_anchor
  <2>2. k # None /\ Held(k)
    BY <2>1 DEF ProcOK
  <2> QED BY Zenon, <1>1, <2>2, HeldGrows DEF Held
<1>6. pc[p] # "idle" => FileOf[p] \in files'
  BY DEF ProcOK, Grows
<1> QED BY <1>2, <1>3, <1>4, <1>5, <1>6 DEF ProcOK, StoredOK, AnchorOK, Anchored

(* Steps that only move a process leave the shared part alone.              *)
LEMMA QuietStore ==
    ASSUME TypeOK, StoreOK, UNCHANGED <<db, files, backups, ext, late, released>>
    PROVE  StoreOK' /\ Grows
<1>1. StoreOK'
  BY DEF StoreOK, StoredOK, AnchorOK, Anchored, SwapOK, Held, ReleasedAnchored, SomeFileServes
<1>2. \A c \in files : db[c].log \in Seq(Ops) /\ db[c].published_anchor.database_state \in Seq(Ops)
  BY Types DEF TypeOK
<1>3. Grows
  BY <1>2, Types, PrefixRefl DEF Grows
<1> QED BY <1>1, <1>3

(* A call that has ended satisfies its part of the invariant (Finish).      *)
LEMMA FinishedOK ==
    ASSUME TypeOK, TypeOK', Grows, NEW p \in Procs, Finish(p)
    PROVE  ProcOK(p)'
<1>1. /\ st'[p] = Empty /\ pc'[p] = "idle" /\ ~committed'[p] /\ since'[p] = <<>>
  BY DEF Finish, TypeOK
<1>2. /\ db'[FileOf[p]].log \in Seq(Ops) /\ ext'.database_state \in Seq(Ops)
  BY FileOfAssumption DEF TypeOK, Stored, Anchor
<1>3. /\ Empty.log = <<>> /\ Empty.published_anchor.database_state = <<>>
  BY DEF Empty, None
<1>4. StoredOK(Empty)
  BY EmptyOK
<1>5. StoredOK(st[p])'
  BY <1>1, <1>4 DEF StoredOK, AnchorOK
<1> QED BY <1>1, <1>2, <1>3, <1>5, PrefixEmpty DEF ProcOK, Anchored

(* A swap that was sent moves the anchor by one operation or not at all     *)
(* (compare_and_swap_with_deadline).                                        *)
LEMMA SwapAdvances ==
    ASSUME TypeOK, StoreOK, NEW swap \in [expected : Anchor, candidate : Anchor],
           SwapOK(swap), Applies(swap), ext # swap.candidate
    PROVE  /\ \E op \in Ops : swap.candidate.database_state = Append(ext.database_state, op)
           /\ Prefix(ext.database_state, swap.candidate.database_state)
           /\ \E c \in files : db[c].pending_anchor = swap.candidate
<1> DEFINE new == swap.candidate.database_state
<1>1. new \in Seq(Ops) /\ ext.database_state \in Seq(Ops)
  BY Types
<1>2. Prefix(ext.database_state, new) /\ Len(new) = Len(ext.database_state) + 1
  BY DEF SwapOK, Applies, AnchorOK, Digest
<1>3. \E op \in Ops : new = Append(ext.database_state, op)
  BY <1>1, <1>2, PrefixExtends
<1>4. \E c \in files : db[c].pending_anchor = swap.candidate
  <2>1. PICK c \in files : \/ db[c].pending_anchor = swap.candidate
                           \/ Prefix(new, db[c].published_anchor.database_state)
    BY DEF SwapOK, Held
  <2>2. CASE Prefix(new, db[c].published_anchor.database_state)
    <3>1. db[c].published_anchor.database_state \in Seq(Ops)
      BY Types DEF TypeOK
    <3>2. Prefix(db[c].published_anchor.database_state, ext.database_state)
      BY DEF StoreOK, Anchored, TypeOK
    <3>3. Prefix(new, ext.database_state)
      BY <1>1, <2>2, <3>1, <3>2, PrefixTrans
    <3> QED BY <1>1, <1>2, <3>3 DEF Prefix
  <2> QED BY <2>1, <2>2
<1> QED BY <1>2, <1>3, <1>4

(* Serving a swap keeps the shared part of the invariant.                   *)
LEMMA SwapStore ==
    ASSUME TypeOK, TypeOK', StoreOK, NEW swap \in [expected : Anchor, candidate : Anchor],
           SwapOK(swap), CompareAndSwap(swap), late' \subseteq late,
           UNCHANGED <<db, files, backups, released>>
    PROVE  StoreOK' /\ Grows
<1>1. CASE ext' = ext
  <2>1. Grows
    BY <1>1, Types, PrefixRefl DEF Grows, TypeOK
  <2>2. StoreOK'
    BY SMTT(60), <1>1 DEF StoreOK, StoredOK, AnchorOK, Anchored, SwapOK, Held, ReleasedAnchored, SomeFileServes
  <2> QED BY <2>1, <2>2
<1>2. CASE ext' # ext
  <2>1. Applies(swap) /\ ext' = swap.candidate /\ ext # swap.candidate
    BY <1>2 DEF CompareAndSwap
  <2>2. Prefix(ext.database_state, ext'.database_state)
    BY <2>1, SwapAdvances
  <2>3. Grows
    BY <2>2, Types, PrefixRefl DEF Grows, TypeOK
  <2>4. SomeFileServes'
    BY <2>1, SwapAdvances DEF SomeFileServes
  <2>5. ReleasedAnchored'
    BY <2>3, AnchoredGrows DEF StoreOK, ReleasedAnchored, Anchored, TypeOK
  <2>6. \A s \in Stored : Anchored(s.published_anchor.database_state)
                            => Prefix(s.published_anchor.database_state, ext'.database_state)
    BY <2>3, AnchoredGrows, Types
  <2>7. AnchorOK(ext')
    BY <2>1 DEF SwapOK
  <2>8. \A c \in Copies : StoredOK(db[c]) /\ Prefix(db[c].published_anchor.database_state, ext'.database_state)
    BY <2>6 DEF StoreOK, TypeOK
  <2>9. \A b \in backups : StoredOK(b) /\ Prefix(b.published_anchor.database_state, ext'.database_state)
    BY <2>6 DEF StoreOK, TypeOK
  <2>10. \A w \in late' : SwapOK(w)'
    BY Zenon DEF StoreOK, SwapOK, AnchorOK, Held
  <2>11. AnchorOK(ext)'
    BY Zenon, <2>7 DEF AnchorOK
  <2>12. \A c \in Copies : (StoredOK(db[c]) /\ Anchored(db[c].published_anchor.database_state))'
    BY Zenon, <2>8 DEF StoredOK, AnchorOK, Anchored
  <2>13. \A b \in backups' : (StoredOK(b) /\ Anchored(b.published_anchor.database_state))'
    BY Zenon, <2>9 DEF StoredOK, AnchorOK, Anchored
  <2> QED BY Zenon, <2>3, <2>4, <2>5, <2>10, <2>11, <2>12, <2>13 DEF StoreOK
<1> QED BY <1>1, <1>2

(* The candidate a process swaps in fits (SwapOf, sent from "cas" only).    *)
LEMMA SwapOfOK ==
    ASSUME TypeOK, NEW p \in Procs, ProcOK(p), pc[p] = "cas"
    PROVE  SwapOf(p) \in [expected : Anchor, candidate : Anchor] /\ SwapOK(SwapOf(p))
BY SwapType DEF ProcOK, SwapOf, Swap, SwapOK, StoredOK

(* mark_anchor_published keeps the shared part of the invariant: the file   *)
(* now knows to be published what the anchor already binds.                 *)
LEMMA MarkStore ==
    ASSUME TypeOK, TypeOK', StoreOK, NEW p \in Procs, ProcOK(p), MarkPublished(p), ~Refuse(p)
    PROVE  /\ StoreOK' /\ Grows
           /\ pc' = [pc EXCEPT ![p] = "reload"] /\ st' = [st EXCEPT ![p] = Empty]
           /\ UNCHANGED <<want, committed, mine, since, files, ext>>
<1> DEFINE f == FileOf[p]
           k == db[f].pending_anchor
<1>1. /\ pc[p] = "mark" /\ k # None /\ k.database_state = st[p].pending_anchor.database_state
      /\ UNCHANGED <<files, backups, ext, late, want, committed, mine, since, released>>
      /\ pc' = [pc EXCEPT ![p] = "reload"] /\ st' = [st EXCEPT ![p] = Empty]
  BY DEF MarkPublished, Goto, Forget, Digest
<1>2. f \in Copies /\ f \in files /\ k \in Anchor
  BY <1>1, Types DEF ProcOK
<1>3. /\ db' = [db EXCEPT ![f] = db'[f]]
      /\ db'[f].log = db[f].log /\ db'[f].published_anchor = k /\ db'[f].pending_anchor = None
  <2> DEFINE new == [db[f] EXCEPT !.published_anchor = k, !.pending_anchor = None]
  <2>1. db' = [db EXCEPT ![f] = new]
    BY Zenon DEF MarkPublished, TypeOK, Stored
  <2>2. db[f] \in Stored
    BY <1>2, Types
  <2>3. new.log = db[f].log /\ new.published_anchor = k /\ new.pending_anchor = None
    BY <2>2 DEF Stored
  <2>4. db'[f] = new
    BY Zenon, <1>2, <2>1 DEF TypeOK
  <2> HIDE DEF new
  <2> QED BY Zenon, <2>1, <2>3, <2>4
<1>4. StoredOK(db[f]) /\ Prefix(k.database_state, ext.database_state)
  BY <1>1, <1>2 DEF StoreOK, ProcOK, Anchored
<1>5. /\ db[f].published_anchor.database_state = k.predecessor
      /\ Prefix(k.predecessor, k.database_state)
      /\ Len(k.database_state) = Len(k.predecessor) + 1
      /\ k.database_state = db[f].log
  BY Zenon, <1>1, <1>4 DEF StoredOK, AnchorOK
<1>6. \A c \in Copies : c # f => db'[c] = db[c]
  BY <1>3 DEF TypeOK
<1>7. Grows
  <2>1. \A c \in files : c # f =>
           /\ Prefix(db[c].log, db'[c].log)
           /\ Prefix(db[c].published_anchor.database_state, db'[c].published_anchor.database_state)
           /\ db[c].pending_anchor = db'[c].pending_anchor
    BY <1>6, Types, PrefixRefl DEF TypeOK
  <2>2. /\ Prefix(db[f].log, db'[f].log)
        /\ Prefix(db[f].published_anchor.database_state, db'[f].published_anchor.database_state)
        /\ Prefix(k.database_state, db'[f].published_anchor.database_state)
    BY <1>2, <1>3, <1>5, Types, PrefixRefl
  <2>3. Prefix(ext.database_state, ext'.database_state)
    BY <1>1, Types, PrefixRefl
  <2> QED BY <1>1, <2>1, <2>2, <2>3 DEF Grows
<1>8. \A c \in Copies : StoredOK(db'[c]) /\ Prefix(db'[c].published_anchor.database_state, ext.database_state)
  <2>1. StoredOK(db'[f])
    BY <1>3, <1>4, <1>5, EmptyOK DEF StoredOK
  <2> QED BY <1>3, <1>4, <1>6, <2>1 DEF StoreOK, Anchored
<1>9. SomeFileServes'
  <2>1. PICK c \in files : ext \in {db[c].published_anchor, db[c].pending_anchor}
    BY DEF StoreOK, SomeFileServes
  <2>2. CASE c = f
    <3>1. Len(k.database_state) <= Len(ext.database_state)
      BY SMTT(40), <1>4 DEF Prefix
    <3>2. Len(k.predecessor) \in Nat
      BY SMTT(40), <1>2, Types
    <3>3. ext # db[f].published_anchor
      BY SMTT(40), <1>5, <3>1, <3>2
    <3> QED BY <1>1, <1>2, <1>3, <2>1, <2>2, <3>3 DEF SomeFileServes
  <2>3. CASE c # f
    BY <1>1, <1>6, <2>1, <2>3 DEF SomeFileServes, TypeOK
  <2> QED BY <2>2, <2>3
<1>10. \A w \in late : Held(w.candidate)'
  <2>1. SUFFICES ASSUME NEW w \in late PROVE Held(w.candidate)'
    OBVIOUS
  <2>2. w.candidate \in Anchor /\ w.candidate # None /\ Held(w.candidate)
    BY DEF TypeOK, StoreOK, SwapOK
  <2> QED BY <1>7, <2>2, HeldGrows
<1>11. StoreOK'
  <2>1. \A w \in late' : SwapOK(w)'
    BY SMTT(40), <1>1, <1>10 DEF StoreOK, SwapOK, AnchorOK
  <2>2. ReleasedAnchored' /\ AnchorOK(ext)'
    BY <1>1 DEF StoreOK, ReleasedAnchored, AnchorOK
  <2>3. \A b \in backups' : (StoredOK(b) /\ Anchored(b.published_anchor.database_state))'
    BY <1>1 DEF StoreOK, StoredOK, AnchorOK, Anchored
  <2>4. \A c \in Copies : (StoredOK(db[c]) /\ Anchored(db[c].published_anchor.database_state))'
    BY <1>1, <1>8 DEF StoredOK, AnchorOK, Anchored
  <2> QED BY <1>9, <2>1, <2>2, <2>3, <2>4 DEF StoreOK
<1> QED BY <1>1, <1>7, <1>11


-----------------------------------------------------------------------------
(* The invariant is kept *)

(* store.commit keeps the shared part of the invariant: the file it         *)
(* replaces is the very state that was loaded.                              *)
LEMMA CommitStore ==
    ASSUME TypeOK, TypeOK', StoreOK, NEW p \in Procs, ProcOK(p), Commit(p), ~Refuse(p)
    PROVE  /\ StoreOK' /\ Grows
           /\ db'[FileOf[p]].log = Append(st[p].log, want[p])
<1> DEFINE f == FileOf[p]
           new == [log |-> Append(st[p].log, want[p]),
                   published_anchor |-> st[p].published_anchor,
                   pending_anchor |-> BuildAnchor(st[p], want[p])]
<1>1. /\ pc[p] = "commit" /\ want[p] \in Ops /\ st[p].pending_anchor = None
      /\ f \in files /\ f \in Copies /\ st[p] \in Stored /\ db[f] \in Stored
  <2>1. pc[p] = "commit"
    BY Zenon DEF Commit
  <2>2. pc[p] \in {"ready", "commit"} /\ pc[p] # "idle"
    BY <2>1
  <2>3. want[p] \in Ops /\ st[p].pending_anchor = None /\ FileOf[p] \in files
    BY Zenon, <2>1, <2>2 DEF ProcOK
  <2>4. f \in Copies /\ st[p] \in Stored /\ db[f] \in Stored
    BY Zenon, Types
  <2> QED BY Zenon, <2>1, <2>3, <2>4
<1>2. /\ db' = [db EXCEPT ![f] = new]
      /\ UNCHANGED <<files, backups, ext, late, released>>
      /\ Len(db[f].log) = Len(st[p].log) /\ db[f].pending_anchor = None
  BY Zenon DEF Commit, StoreAccepts
<1>3. db'[f] = new /\ \A c \in Copies : c # f => db'[c] = db[c]
  BY <1>1, <1>2 DEF TypeOK
<1>4. st[p].log = db[f].log
  <2>1. st[p].log \in Seq(Ops) /\ db[f].log \in Seq(Ops)
    BY Zenon, <1>1, Types
  <2>2. Prefix(st[p].log, db[f].log) /\ Len(db[f].log) = Len(st[p].log)
    BY Zenon, <1>2 DEF ProcOK
  <2>3. Len(db[f].log) <= Len(st[p].log)
    BY <2>1, <2>2
  <2> QED BY Zenon, <2>1, <2>2, <2>3, PrefixEqual
<1>5. st[p].published_anchor.database_state = st[p].log
  BY <1>1 DEF ProcOK, StoredOK
<1>6. st[p].published_anchor = db[f].published_anchor
  <2>1. StoredOK(db[f]) /\ StoredOK(st[p])
    BY <1>1 DEF StoreOK, ProcOK
  <2>2. db[f].published_anchor.database_state = db[f].log
    BY Zenon, <1>2, <2>1 DEF StoredOK
  <2> QED BY <1>1, <1>4, <1>5, <2>1, <2>2, Types, AnchorDetermined DEF StoredOK
<1>7. st[p].log \in Seq(Ops) /\ Append(st[p].log, want[p]) \in Seq(Ops)
      /\ Prefix(st[p].log, Append(st[p].log, want[p]))
      /\ Len(Append(st[p].log, want[p])) = Len(st[p].log) + 1
  <2>1. st[p].log \in Seq(Ops) /\ want[p] \in Ops
    BY Zenon, <1>1, Types
  <2>2. Prefix(st[p].log, Append(st[p].log, want[p]))
    BY Zenon, <2>1, PrefixAppend
  <2> QED BY <2>1, <2>2
<1>8. StoredOK(new)
  <2>1. AnchorOK(new.pending_anchor) /\ new.pending_anchor # None
    <3>1. /\ new.pending_anchor.state_generation = Len(st[p].log) + 1
          /\ new.pending_anchor.database_state = Append(st[p].log, want[p])
          /\ new.pending_anchor.predecessor = st[p].log
      BY <1>5 DEF BuildAnchor, Digest
    <3>2. new.pending_anchor # None
      <4>1. Append(st[p].log, want[p]) # <<>>
        BY <1>7
      <4>2. None.database_state = <<>>
        BY DEF None
      <4> HIDE DEF new
      <4> QED BY Zenon, <3>1, <4>1, <4>2
    <3> HIDE DEF new
    <3> QED BY <1>7, <3>1, <3>2 DEF AnchorOK
  <2>2. AnchorOK(new.published_anchor)
    BY DEF ProcOK, StoredOK
  <2> QED BY Zenon, <2>1, <2>2 DEF StoredOK, BuildAnchor, Digest
<1>9. Grows
  <2>1. \A c \in files : c # f =>
           /\ Prefix(db[c].log, db'[c].log)
           /\ Prefix(db[c].published_anchor.database_state, db'[c].published_anchor.database_state)
           /\ db[c].pending_anchor = db'[c].pending_anchor
    BY SMTT(60), <1>3, Types, PrefixRefl DEF TypeOK
  <2>2. /\ Prefix(db[f].log, db'[f].log)
        /\ Prefix(db[f].published_anchor.database_state, db'[f].published_anchor.database_state)
    <3>1. db'[f].log = Append(st[p].log, want[p]) /\ db'[f].published_anchor = st[p].published_anchor
      <4>1. db'[f] = new
        BY Zenon, <1>3
      <4>2. new.log = Append(st[p].log, want[p]) /\ new.published_anchor = st[p].published_anchor
        OBVIOUS
      <4> QED BY Zenon, <4>1, <4>2
    <3>2. Prefix(db[f].log, db'[f].log)
      BY Zenon, <1>4, <1>7, <3>1
    <3>3. db[f].published_anchor.database_state \in Seq(Ops)
      BY Zenon, <1>1, Types
    <3> QED BY Zenon, <1>6, <3>1, <3>2, <3>3, PrefixRefl
  <2>3. Prefix(ext.database_state, ext'.database_state)
    BY Zenon, <1>2, Types, PrefixRefl
  <2> QED BY <1>2, <2>1, <2>2, <2>3 DEF Grows
<1>10. SomeFileServes'
  <2>1. PICK c \in files : ext \in {db[c].published_anchor, db[c].pending_anchor}
    BY DEF StoreOK, SomeFileServes
  <2>2. CASE c = f
    <3>1. ext = db[f].published_anchor
      <4>1. CASE ext = None
        <5>1. Prefix(db[f].log, <<>>) /\ db[f].log \in Seq(Ops)
          BY <1>1, <1>4, <1>5, <4>1, Types DEF ProcOK, Anchored, None
        <5>2. db[f].published_anchor.database_state = <<>>
          BY <1>4, <1>5, <1>6, <5>1 DEF Prefix
        <5> QED BY <1>1, <4>1, <5>2, EmptyOK, Types, AnchorDetermined DEF StoreOK, StoredOK, None
      <4> QED BY <1>2, <2>1, <2>2, <4>1
    <3>2. db'[f].published_anchor = db[f].published_anchor /\ files' = files /\ ext' = ext
      <4>1. db'[f] = new
        BY Zenon, <1>3
      <4>2. new.published_anchor = st[p].published_anchor
        OBVIOUS
      <4> HIDE DEF new
      <4> QED BY Zenon, <1>2, <1>6, <4>1, <4>2
    <3>3. f \in files
      BY <1>1
    <3> QED BY Zenon, <3>1, <3>2, <3>3 DEF SomeFileServes
  <2>3. CASE c # f
    BY SMTT(60), <1>2, <1>3, <2>1, <2>3 DEF SomeFileServes, TypeOK
  <2> QED BY <2>2, <2>3
<1>11. \A w \in late : Held(w.candidate)'
  <2>1. SUFFICES ASSUME NEW w \in late PROVE Held(w.candidate)'
    OBVIOUS
  <2>2. w.candidate \in Anchor /\ w.candidate # None /\ Held(w.candidate)
    BY DEF TypeOK, StoreOK, SwapOK
  <2> QED BY <1>9, <2>2, HeldGrows
<1>12. StoreOK'
  <2>1. \A w \in late' : SwapOK(w)'
    BY <1>2, <1>11 DEF StoreOK, SwapOK, AnchorOK
  <2>2. ReleasedAnchored' /\ AnchorOK(ext)'
    BY <1>2 DEF StoreOK, ReleasedAnchored, AnchorOK
  <2>3. \A b \in backups' : (StoredOK(b) /\ Anchored(b.published_anchor.database_state))'
    BY Zenon, <1>2 DEF StoreOK, StoredOK, AnchorOK, Anchored
  <2>4. \A c \in Copies : StoredOK(db'[c]) /\ Prefix(db'[c].published_anchor.database_state, ext.database_state)
    <3>1. \A c \in Copies : StoredOK(db[c]) /\ Prefix(db[c].published_anchor.database_state, ext.database_state)
      BY ZenonT(60) DEF StoreOK, Anchored
    <3>2. db'[f].published_anchor = db[f].published_anchor /\ StoredOK(db'[f])
      <4>1. db'[f] = new
        BY Zenon, <1>3
      <4>2. new.published_anchor = st[p].published_anchor
        OBVIOUS
      <4> HIDE DEF new
      <4> QED BY Zenon, <1>6, <1>8, <4>1, <4>2
    <3>3. \A c \in Copies : c # f => db'[c] = db[c]
      BY ZenonT(60), <1>3
    <3> QED BY Zenon, <1>1, <3>1, <3>2, <3>3
  <2>5. \A c \in Copies : (StoredOK(db[c]) /\ Anchored(db[c].published_anchor.database_state))'
    BY Zenon, <1>2, <2>4 DEF StoredOK, AnchorOK, Anchored
  <2> QED BY <1>10, <2>1, <2>2, <2>3, <2>5 DEF StoreOK
<1> QED BY SMTT(60), <1>3, <1>9, <1>12

(* Every step keeps the shared part of the invariant and only lets the      *)
(* shared histories grow.                                                   *)
LEMMA SharedStep == ASSUME IInv, TypeOK', [Next]_vars PROVE StoreOK' /\ Grows
<1> USE DEF IInv
<1>1. ASSUME UNCHANGED <<db, files, backups, ext, late, released>> PROVE StoreOK' /\ Grows
  BY <1>1, QuietStore
<1>2. ASSUME NEW p \in Procs, Refuse(p) PROVE StoreOK' /\ Grows
  BY <1>1, <1>2 DEF Refuse
<1>3. ASSUME NEW p \in Procs, NEW op \in Ops \cup {Query}, Begin(p, op) PROVE StoreOK' /\ Grows
  BY <1>1, <1>3 DEF Begin
<1>4. ASSUME NEW p \in Procs, \/ Load(p) \/ RequirePublishedEquality(p) \/ ReadExternal(p)
                              \/ Observe(p) \/ Readback(p) \/ Reload(p) \/ Ready(p) \/ Abort(p)
      PROVE StoreOK' /\ Grows
  BY <1>1, <1>2, <1>4 DEF Load, RequirePublishedEquality, ReadExternal, Observe, Readback,
                          Reload, Ready, Abort, Goto
<1>5. ASSUME NEW p \in Procs, CasAnswered(p) PROVE StoreOK' /\ Grows
  <2>1. /\ pc[p] = "cas" /\ CompareAndSwap(SwapOf(p))
        /\ UNCHANGED <<db, files, backups, late, released>>
    BY <1>5 DEF CasAnswered, Goto
  <2> QED BY <2>1, SwapOfOK, SwapStore
<1>6. ASSUME NEW p \in Procs, CasUnanswered(p) PROVE StoreOK' /\ Grows
  <2>1. /\ SwapOK(SwapOf(p)) /\ late' = late \cup {SwapOf(p)}
        /\ UNCHANGED <<db, files, backups, ext, released>>
    BY SMTT(60), <1>6, SwapOfOK DEF CasUnanswered
  <2>2. StoreOK'
    <3>1. \A w \in late' : SwapOK(w)'
      BY Zenon, <2>1 DEF StoreOK, SwapOK, Held, AnchorOK
    <3>2. ReleasedAnchored' /\ SomeFileServes' /\ AnchorOK(ext)'
      BY Zenon, <2>1 DEF StoreOK, ReleasedAnchored, SomeFileServes, AnchorOK
    <3>3. \A c \in Copies : (StoredOK(db[c]) /\ Anchored(db[c].published_anchor.database_state))'
      BY Zenon, <2>1 DEF StoreOK, StoredOK, AnchorOK, Anchored
    <3>4. \A b \in backups' : (StoredOK(b) /\ Anchored(b.published_anchor.database_state))'
      BY Zenon, <2>1 DEF StoreOK, StoredOK, AnchorOK, Anchored
    <3> QED BY Zenon, <3>1, <3>2, <3>3, <3>4 DEF StoreOK
  <2>3. Grows
    BY Zenon, <2>1, Types, PrefixRefl DEF Grows, TypeOK
  <2> QED BY <2>2, <2>3
<1>7. ASSUME NEW swap \in late, LateCas(swap) PROVE StoreOK' /\ Grows
  <2>1. swap \in [expected : Anchor, candidate : Anchor] /\ SwapOK(swap)
    BY DEF TypeOK, StoreOK
  <2> QED BY <1>7, <2>1, SwapStore DEF LateCas
<1>8. ASSUME NEW p \in Procs, MarkPublished(p) PROVE StoreOK' /\ Grows
  BY <1>2, <1>8, MarkStore
<1>9. ASSUME NEW p \in Procs, Commit(p) PROVE StoreOK' /\ Grows
  BY SMTT(60), <1>2, <1>9, CommitStore
<1>10. ASSUME NEW p \in Procs, Release(p) PROVE StoreOK' /\ Grows
  <2>1. /\ Anchored(mine[p]) /\ released' = released \cup {mine[p]}
        /\ UNCHANGED <<db, files, backups, ext, late>>
    <3>1. pc[p] = "answer" /\ released' = released \cup {mine[p]} /\ UNCHANGED <<db, files, backups, ext, late>>
      BY Zenon, <1>10 DEF Release
    <3>2. ProcOK(p)
      OBVIOUS
    <3>3. Anchored(mine[p])
      BY Zenon, <3>1, <3>2 DEF ProcOK
    <3> QED BY Zenon, <3>1, <3>3
  <2>2. StoreOK'
    BY ZenonT(60), <2>1 DEF StoreOK, StoredOK, AnchorOK, Anchored, SwapOK, Held, ReleasedAnchored, SomeFileServes
  <2>3. Grows
    BY Zenon, <2>1, Types, PrefixRefl DEF Grows, TypeOK
  <2> QED BY <2>2, <2>3
<1>11. ASSUME NEW c \in Copies, Backup(c) PROVE StoreOK' /\ Grows
  <2>1. backups' = backups \cup {db[c]} /\ UNCHANGED <<db, files, ext, late, released>>
    BY SMTT(60), <1>11 DEF Backup
  <2>2. StoreOK'
    <3>1. \A w \in late' : SwapOK(w)'
      BY Zenon, <2>1 DEF StoreOK, SwapOK, Held, AnchorOK
    <3>2. ReleasedAnchored' /\ SomeFileServes' /\ AnchorOK(ext)'
      BY Zenon, <2>1 DEF StoreOK, ReleasedAnchored, SomeFileServes, AnchorOK
    <3>3. \A d \in Copies : (StoredOK(db[d]) /\ Anchored(db[d].published_anchor.database_state))'
      BY Zenon, <2>1 DEF StoreOK, StoredOK, AnchorOK, Anchored
    <3>4. \A b \in backups' : (StoredOK(b) /\ Anchored(b.published_anchor.database_state))'
      BY Zenon, <2>1 DEF StoreOK, StoredOK, AnchorOK, Anchored
    <3> QED BY Zenon, <3>1, <3>2, <3>3, <3>4 DEF StoreOK
  <2>3. Grows
    BY <2>1, Types, PrefixRefl DEF Grows, TypeOK
  <2> QED BY <2>2, <2>3
<1>12. ASSUME NEW c \in Copies, Restore(c) PROVE StoreOK' /\ Grows
  <2>1. /\ c \notin files /\ files' = files \cup {c} /\ UNCHANGED <<backups, ext, late, released>>
    BY <1>12 DEF Restore
  <2>2. PICK b \in backups : db' = [db EXCEPT ![c] = b]
    BY Zenon, <1>12 DEF Restore
  <2>3. db'[c] = b /\ \A d \in Copies : d # c => db'[d] = db[d]
    BY <2>2 DEF TypeOK
  <2>4. \A d \in files : db'[d] = db[d]
    BY SMTT(60), <2>1, <2>3 DEF TypeOK
  <2>5. Grows
    BY <2>1, <2>4, Types, PrefixRefl DEF Grows, TypeOK
  <2>6. SomeFileServes'
    BY SMTT(60), <2>1, <2>4 DEF StoreOK, SomeFileServes
  <2>7. \A w \in late' : SwapOK(w)'
    <3>1. ASSUME NEW w \in late PROVE Held(w.candidate)'
      <4>1. PICK d \in files : \/ db[d].pending_anchor = w.candidate
                              \/ Prefix(w.candidate.database_state, db[d].published_anchor.database_state)
        BY Zenon DEF StoreOK, SwapOK, Held
      <4>2. d \in files' /\ db'[d] = db[d]
        BY Zenon, <2>1, <2>4
      <4> QED BY Zenon, <4>1, <4>2 DEF Held
    <3> QED BY Zenon, <2>1, <3>1 DEF StoreOK, SwapOK, AnchorOK
  <2>8. \A d \in Copies : StoredOK(db'[d]) /\ Prefix(db'[d].published_anchor.database_state, ext.database_state)
    BY <2>3 DEF StoreOK, Anchored
  <2>9. \A d \in Copies : (StoredOK(db[d]) /\ Anchored(db[d].published_anchor.database_state))'
    BY Zenon, <2>1, <2>8 DEF StoredOK, AnchorOK, Anchored
  <2>10. \A d \in backups' : (StoredOK(d) /\ Anchored(d.published_anchor.database_state))'
    BY Zenon, <2>1 DEF StoreOK, StoredOK, AnchorOK, Anchored
  <2>11. ReleasedAnchored' /\ AnchorOK(ext)'
    BY Zenon, <2>1 DEF StoreOK, ReleasedAnchored, AnchorOK
  <2> QED BY Zenon, <2>5, <2>6, <2>7, <2>9, <2>10, <2>11 DEF StoreOK
<1>13. CASE UNCHANGED vars
  BY SMTT(60), <1>1, <1>13 DEF vars
<1> QED BY <1>3, <1>4, <1>5, <1>6, <1>7, <1>8, <1>9, <1>10, <1>11, <1>12, <1>13
        DEF Next, Advance, Fail

(* A step that moves p within its call, without touching what it loaded or  *)
(* the shared state, needs to establish only what the new place demands.    *)
LEMMA GotoOK ==
    ASSUME TypeOK, TypeOK', NEW p \in Procs, ProcOK(p), pc[p] # "idle", NEW step \in Steps,
           Goto(p, step), step \notin {"idle", "ready", "answer"},
           UNCHANGED <<db, ext, st>>,
           step \in {"read", "cas", "observe", "readback", "mark"} =>
               st[p].pending_anchor # None /\ Held(st[p].pending_anchor),
           step = "mark" => Anchored(st[p].pending_anchor.database_state),
           step = "commit" => /\ st[p].pending_anchor = None /\ want[p] \in Ops
                              /\ Prefix(since[p], st[p].log)
    PROVE  ProcOK(p)'
<1>1. pc'[p] = step /\ UNCHANGED <<files, want, committed, mine, since>>
  BY SMTT(60) DEF Goto, TypeOK
<1>2. Held(st[p].pending_anchor) => Held(st[p].pending_anchor)'
  BY Zenon, <1>1 DEF Held
<1> QED BY Zenon, <1>1, <1>2 DEF ProcOK, StoredOK, AnchorOK, Anchored

(* A step of p keeps p's part of the invariant.                             *)
LEMMA MoverOK ==
    ASSUME IInv, TypeOK', Grows, NEW p \in Procs,
           (\E op \in Ops \cup {Query} : Begin(p, op)) \/ Advance(p) \/ Fail(p)
    PROVE  ProcOK(p)'
<1> USE DEF IInv
<1>0. ProcOK(p) /\ TypeOK
  OBVIOUS
<1>1. ASSUME Finish(p) PROVE ProcOK(p)'
  BY <1>1, FinishedOK
<1>2. ASSUME Refuse(p) PROVE ProcOK(p)'
  BY SMTT(60), <1>1, <1>2 DEF Refuse
<1>3. ASSUME NEW op \in Ops \cup {Query}, Begin(p, op) PROVE ProcOK(p)'
  <2>1. /\ pc'[p] = "load" /\ since'[p] = ext.database_state /\ FileOf[p] \in files
        /\ UNCHANGED <<db, files, ext, st, committed>> /\ st[p] = Empty /\ ~committed[p]
    BY Zenon, <1>0, <1>3 DEF Begin, ProcOK, TypeOK
  <2>2. Prefix(ext.database_state, ext.database_state)
    BY Zenon, Types, PrefixRefl
  <2> QED BY Zenon, <1>0, <2>1, <2>2 DEF ProcOK, StoredOK, AnchorOK, Anchored
<1>4. ASSUME Load(p) PROVE ProcOK(p)'
  <2> DEFINE s == db[FileOf[p]]
  <2>1. /\ st'[p] = s /\ pc'[p] = (IF s.pending_anchor # None THEN "read" ELSE "equality")
        /\ UNCHANGED <<db, files, ext, committed, mine, since>> /\ FileOf[p] \in files
    BY Zenon, <1>0, <1>4 DEF Load, Goto, ProcOK, TypeOK
  <2>2. /\ s \in Stored /\ s.log \in Seq(Ops) /\ FileOf[p] \in Copies
        /\ StoredOK(s) /\ Anchored(s.published_anchor.database_state)
    BY Zenon, Types DEF StoreOK
  <2>3. Held(s.pending_anchor) /\ Prefix(s.log, s.log)
    BY Zenon, <2>1, <2>2, PrefixRefl DEF Held
  <2>4. Held(st[p].pending_anchor)'
    BY Zenon, <2>1, <2>3 DEF Held
  <2> QED BY Zenon, <1>0, <2>1, <2>2, <2>3, <2>4 DEF ProcOK, StoredOK, AnchorOK, Anchored
<1>5. ASSUME RequirePublishedEquality(p) PROVE ProcOK(p)'
  <2>1. CASE ~Refuse(p)
    <3>1. /\ st'[p] = Empty /\ pc'[p] = "reload" /\ pc[p] = "equality"
          /\ UNCHANGED <<db, files, ext, committed, mine, since>>
      BY <1>5, <2>1 DEF RequirePublishedEquality, Goto, Forget, TypeOK
    <3>2. /\ StoredOK(Empty) /\ Empty.log = <<>> /\ Empty.published_anchor.database_state = <<>>
      BY EmptyOK DEF Empty, None
    <3>3. StoredOK(st[p])'
      BY Zenon, <3>1, <3>2 DEF StoredOK, AnchorOK
    <3>4. Prefix(<<>>, ext.database_state) /\ Prefix(<<>>, db[FileOf[p]].log)
      BY Zenon, PrefixEmpty, Types
    <3> QED BY Zenon, <1>0, <3>1, <3>2, <3>3, <3>4 DEF ProcOK, Anchored
  <2> QED BY SMTT(60), <1>2, <2>1
<1>6. ASSUME ReadExternal(p) PROVE ProcOK(p)'
  <2>1. ext = st[p].pending_anchor => Anchored(st[p].pending_anchor.database_state)
    BY Zenon, Types, PrefixRefl DEF Anchored
  <2>2. pc[p] = "read"
    BY SMTT(60), <1>6 DEF ReadExternal
  <2>3. st[p].pending_anchor # None /\ Held(st[p].pending_anchor)
    BY Zenon, <1>0, <2>2 DEF ProcOK
  <2>4. CASE Goto(p, "mark") /\ UNCHANGED <<db, ext, late, st>> /\ ext = st[p].pending_anchor
    BY Zenon, <1>0, <2>1, <2>2, <2>3, <2>4, GotoOK DEF Steps
  <2>5. CASE Goto(p, "cas") /\ UNCHANGED <<db, ext, late, st>>
    BY Zenon, <1>0, <2>2, <2>3, <2>5, GotoOK DEF Steps
  <2> QED BY Zenon, <1>2, <1>6, <2>4, <2>5 DEF ReadExternal
<1>7. ASSUME CasAnswered(p) PROVE ProcOK(p)'
  <2>1. /\ pc[p] = "cas" /\ pc'[p] \in {"readback", "observe"}
        /\ UNCHANGED <<db, files, st, committed, mine, since>>
    BY SMTT(60), <1>7 DEF CasAnswered, Goto, TypeOK
  <2>2. /\ Prefix(st[p].published_anchor.database_state, ext'.database_state)
        /\ Prefix(since[p], ext'.database_state)
    BY Zenon, <1>0, Types, AnchoredGrows DEF ProcOK
  <2>3. Held(st[p].pending_anchor)' /\ st[p].pending_anchor # None
    BY Zenon, <1>0, <2>1 DEF ProcOK, Held
  <2> QED BY Zenon, <1>0, <2>1, <2>2, <2>3 DEF ProcOK, StoredOK, AnchorOK, Anchored
<1>8. ASSUME Observe(p) PROVE ProcOK(p)'
  <2>1. pc[p] = "observe" /\ st[p].pending_anchor # None /\ Held(st[p].pending_anchor)
    BY Zenon, <1>0, <1>8 DEF Observe, ProcOK
  <2>2. CASE Goto(p, "readback") /\ UNCHANGED <<db, ext, late, st>>
    BY Zenon, <1>0, <2>1, <2>2, GotoOK DEF Steps
  <2> QED BY Zenon, <1>2, <1>8, <2>2 DEF Observe
<1>9. ASSUME Readback(p) PROVE ProcOK(p)'
  <2>1. pc[p] = "readback" /\ st[p].pending_anchor # None /\ Held(st[p].pending_anchor)
    BY Zenon, <1>0, <1>9 DEF Readback, ProcOK
  <2>2. ext = st[p].pending_anchor => Anchored(st[p].pending_anchor.database_state)
    BY SMTT(60), Types, PrefixRefl DEF Anchored
  <2>3. CASE Goto(p, "mark") /\ UNCHANGED <<db, ext, late, st>> /\ ext = st[p].pending_anchor
    BY Zenon, <1>0, <2>1, <2>2, <2>3, GotoOK DEF Steps
  <2> QED BY Zenon, <1>2, <1>9, <2>3 DEF Readback
<1>10. ASSUME MarkPublished(p) PROVE ProcOK(p)'
  <2>1. CASE ~Refuse(p)
    <3> DEFINE f == FileOf[p]
    <3>1. /\ st'[p] = Empty /\ pc'[p] = "reload" /\ pc[p] = "mark"
          /\ UNCHANGED <<files, ext, committed, mine, since>>
      BY ZenonT(60), <1>0, <1>10, <2>1, MarkStore DEF TypeOK, MarkPublished
    <3>2. f \in files /\ db[f].log \in Seq(Ops) /\ db'[f].log \in Seq(Ops) /\ mine[p] \in Seq(Ops)
      BY Zenon, <1>0, <3>1, Types, FileOfAssumption DEF ProcOK, TypeOK, Stored
    <3>3. committed[p] => Prefix(mine[p], db'[f].log)
      BY Zenon, <1>0, <3>2, PrefixTrans DEF ProcOK, Grows
    <3>4. /\ StoredOK(Empty) /\ Empty.log = <<>> /\ Empty.published_anchor.database_state = <<>>
      BY EmptyOK DEF Empty, None
    <3>5. StoredOK(st[p])'
      BY Zenon, <3>1, <3>4 DEF StoredOK, AnchorOK
    <3> QED BY Zenon, <1>0, <3>1, <3>2, <3>3, <3>4, <3>5, PrefixEmpty, Types DEF ProcOK, Anchored
  <2> QED BY Zenon, <1>2, <2>1
<1>11. ASSUME Reload(p) PROVE ProcOK(p)'
  <2>1. CASE ~Refuse(p)
    <3> DEFINE s == db[FileOf[p]]
    <3>1. /\ st'[p] = s /\ pc'[p] = "ready" /\ pc[p] = "reload" /\ s.pending_anchor = None
          /\ UNCHANGED <<db, files, ext, committed, mine, since>>
      BY SMTT(60), <1>11, <2>1 DEF Reload, Goto, TypeOK
    <3>2. /\ s \in Stored /\ s.log \in Seq(Ops)
          /\ StoredOK(s) /\ Anchored(s.published_anchor.database_state)
      BY Zenon, Types DEF StoreOK
    <3>3. Prefix(s.log, s.log)
      BY <3>2, PrefixRefl
    <3> QED BY Zenon, <1>0, <3>1, <3>2, <3>3 DEF ProcOK, StoredOK, AnchorOK, Anchored
  <2> QED BY Zenon, <1>2, <2>1
<1>12. ASSUME Ready(p) PROVE ProcOK(p)'
  <2>1. CASE PublishedEquality(st[p])
    <3>1. /\ pc[p] = "ready" /\ st[p].log = ext.database_state
          /\ FileOf[p] \in files /\ st[p].pending_anchor = None
      <4>1. pc[p] = "ready"
        BY Zenon, <1>12 DEF Ready
      <4>2. pc[p] # "idle" /\ pc[p] \in {"ready", "commit"}
        BY <4>1
      <4>3. FileOf[p] \in files /\ st[p].pending_anchor = None
        BY Zenon, <1>0, <4>2 DEF ProcOK
      <4>4. st[p].log = ext.database_state
        BY Zenon, <2>1 DEF PublishedEquality
      <4> QED BY Zenon, <4>1, <4>3, <4>4
    <3>2. CASE want[p] \in Ops /\ ~committed[p]
      <4>1. Goto(p, "commit") /\ UNCHANGED <<db, ext, st>>
        BY SMTT(60), <1>12, <2>1, <3>2 DEF Ready
      <4>2. Prefix(since[p], st[p].log)
        BY Zenon, <1>0, <3>1 DEF ProcOK, Anchored
      <4> QED BY Zenon, <1>0, <3>1, <3>2, <4>1, <4>2, GotoOK DEF Steps
    <3>3. CASE ~(want[p] \in Ops /\ ~committed[p])
      <4>1. /\ pc'[p] = "answer" /\ st'[p] = Empty
            /\ mine'[p] = IF committed[p] THEN mine[p] ELSE st[p].log
            /\ UNCHANGED <<db, files, ext, committed, since>>
        BY SMTT(60), <1>12, <2>1, <3>3 DEF Ready, Forget, TypeOK
      <4>2. Prefix(mine'[p], ext.database_state) /\ Prefix(since[p], mine'[p])
        BY Zenon, <1>0, <3>1, <4>1, Types, PrefixRefl DEF ProcOK, Anchored
      <4>3. /\ StoredOK(Empty) /\ Empty.log = <<>> /\ Empty.published_anchor.database_state = <<>>
        BY EmptyOK DEF Empty, None
      <4>4. StoredOK(st[p])'
        BY SMTT(60), <4>1, <4>3 DEF StoredOK, AnchorOK
      <4> QED BY Zenon, <1>0, <3>1, <4>1, <4>2, <4>3, <4>4, PrefixEmpty, Types DEF ProcOK, Anchored
    <3> QED BY <3>2, <3>3
  <2> QED BY <1>2, <1>12, <2>1 DEF Ready
<1>13. ASSUME Commit(p) PROVE ProcOK(p)'
  <2>1. CASE ~Refuse(p)
    <3> DEFINE log == Append(st[p].log, want[p])
    <3>1. /\ st'[p] = Empty /\ pc'[p] = "load" /\ pc[p] = "commit" /\ committed'[p] = TRUE
          /\ mine'[p] = log /\ UNCHANGED <<files, ext, since>>
      BY SMTT(60), <1>13, <2>1 DEF Commit, Forget, TypeOK
    <3>2. db'[FileOf[p]].log = log
      <4>1. StoreOK /\ ProcOK(p)
        BY Zenon, <1>0
      <4> QED BY Zenon, <1>13, <2>1, <4>1, CommitStore
    <3>3. /\ log \in Seq(Ops) /\ Prefix(log, log) /\ Prefix(since[p], log)
      <4>1. want[p] \in Ops /\ st[p].log \in Seq(Ops) /\ Prefix(since[p], st[p].log)
            /\ since[p] \in Seq(Ops)
        BY Zenon, <1>0, <3>1, Types DEF ProcOK
      <4>2. log \in Seq(Ops) /\ Prefix(st[p].log, log)
        <5>1. log \in Seq(Ops)
          BY <4>1
        <5>2. Prefix(st[p].log, log)
          BY Zenon, <4>1, PrefixAppend
        <5> QED BY <5>1, <5>2
      <4> QED BY Zenon, <4>1, <4>2, PrefixRefl, PrefixTrans
    <3>4. /\ StoredOK(Empty) /\ Empty.log = <<>> /\ Empty.published_anchor.database_state = <<>>
      BY EmptyOK DEF Empty, None
    <3>5. StoredOK(st[p])'
      BY ZenonT(60), <3>1, <3>4 DEF StoredOK, AnchorOK
    <3> HIDE DEF log
    <3> QED BY Zenon, <1>0, <3>1, <3>2, <3>3, <3>4, <3>5, PrefixEmpty, Types DEF ProcOK, Anchored
  <2> QED BY Zenon, <1>2, <2>1
<1>14. ASSUME Release(p) \/ CasUnanswered(p) \/ Abort(p) PROVE ProcOK(p)'
  BY Zenon, <1>1, <1>2, <1>14 DEF Release, CasUnanswered, Abort
<1> QED BY <1>3, <1>4, <1>5, <1>6, <1>7, <1>8, <1>9, <1>10, <1>11, <1>12, <1>13, <1>14
        DEF Advance, Fail

-------------------------------------------------------------------------------
(* The theorems.                                                            *)

(* The initial state satisfies the inductive invariant.                     *)
LEMMA InitOK == Init => IInv
<1> SUFFICES ASSUME Init PROVE IInv
  OBVIOUS
<1>1. TypeOK
  BY OriginalAssumption, EmptyOK DEF Init, TypeOK, Steps
<1>2. /\ Empty.log = <<>> /\ Empty.published_anchor = None /\ None.database_state = <<>>
      /\ Prefix(<<>>, <<>>)
  BY DEF Empty, None, Prefix
<1>3. StoreOK
  <2>1. \A c \in Copies : db[c] = Empty
    BY DEF Init
  <2>2. SomeFileServes
    BY <1>2, <2>1, OriginalAssumption DEF Init, SomeFileServes
  <2> QED BY <1>2, <2>1, <2>2, EmptyOK DEF Init, StoreOK, Anchored, ReleasedAnchored
<1>4. \A p \in Procs : ProcOK(p)
  BY <1>2, FileOfAssumption, EmptyOK DEF Init, ProcOK, Anchored
<1> QED BY <1>1, <1>3, <1>4 DEF IInv

(* Every step preserves the inductive invariant.                            *)
LEMMA StepOK == IInv /\ [Next]_vars => IInv' /\ Grows
<1> SUFFICES ASSUME IInv, [Next]_vars PROVE IInv' /\ Grows
  OBVIOUS
<1>1. TypeOK'
  BY TypeStep DEF IInv, ProcOK
<1>2. StoreOK' /\ Grows
  BY <1>1, SharedStep
<1>3. ASSUME NEW q \in Procs, Same(q) PROVE ProcOK(q)'
  BY <1>1, <1>2, <1>3, ProcGrows DEF IInv
<1>4. ASSUME NEW p \in Procs, (\E op \in Ops \cup {Query} : Begin(p, op)) \/ Advance(p) \/ Fail(p)
      PROVE  \A q \in Procs : q # p => Same(q)
  <2> SUFFICES ASSUME NEW q \in Procs, q # p PROVE Same(q)
    OBVIOUS
  <2> USE DEF IInv, TypeOK, Same
  <2>1. ASSUME Finish(p) PROVE Same(q)
    BY SMTT(60), <2>1 DEF Finish
  <2>2. ASSUME Refuse(p) PROVE Same(q)
    BY <2>1, <2>2 DEF Refuse
  <2>3. ASSUME \E op \in Ops \cup {Query} : Begin(p, op) PROVE Same(q)
    BY SMTT(60), <2>3 DEF Begin
  <2>4. ASSUME Load(p) \/ RequirePublishedEquality(p) \/ ReadExternal(p) \/ CasAnswered(p)
        PROVE  Same(q)
    BY Zenon, <2>2, <2>4 DEF Load, RequirePublishedEquality, ReadExternal, CasAnswered, Goto, Forget
  <2>5. ASSUME Observe(p) \/ Readback(p) \/ MarkPublished(p) \/ Reload(p) PROVE Same(q)
    BY <2>2, <2>5 DEF Observe, Readback, MarkPublished, Reload, Goto, Forget
  <2>6. ASSUME Ready(p) \/ Commit(p) PROVE Same(q)
    BY SMTT(60), <2>2, <2>6 DEF Ready, Commit, Goto, Forget
  <2>7. ASSUME Release(p) \/ CasUnanswered(p) \/ Abort(p) PROVE Same(q)
    BY Zenon, <2>1, <2>2, <2>7 DEF Release, CasUnanswered, Abort
  <2> HIDE DEF Same
  <2> QED BY <1>4, <2>3, <2>4, <2>5, <2>6, <2>7 DEF Advance, Fail
<1>5. CASE \E p \in Procs : (\E op \in Ops \cup {Query} : Begin(p, op)) \/ Advance(p) \/ Fail(p)
  <2>1. PICK p \in Procs : (\E op \in Ops \cup {Query} : Begin(p, op)) \/ Advance(p) \/ Fail(p)
    BY <1>5
  <2>2. ProcOK(p)'
    BY <1>1, <1>2, <2>1, MoverOK
  <2>3. \A q \in Procs : q # p => Same(q)
    BY <1>4, <2>1
  <2> QED BY <1>1, <1>2, <1>3, <2>2, <2>3 DEF IInv
<1>6. CASE UNCHANGED <<pc, want, st, committed, mine, since>>
  BY <1>1, <1>2, <1>3, <1>6 DEF IInv, Same
<1> QED BY <1>5, <1>6 DEF Next, LateCas, Backup, Restore, vars

(* The inductive invariant always holds, whatever processes crash, calls    *)
(* arrive late or backups are restored.                                     *)
THEOREM Invariance == Spec => []IInv
<1>1. Init => IInv
  BY InitOK
<1>2. IInv /\ [Next]_vars => IInv'
  BY StepOK
<1> QED BY <1>1, <1>2, PTL DEF Spec

(* Type correctness of the store, the anchor and the engine's locals.       *)
THEOREM TypeCorrect == Spec => []TypeOK
<1>1. IInv => TypeOK
  BY DEF IInv
<1> QED BY <1>1, Invariance, PTL

(* No answer leaves ready_state or commit_and_publish before the external   *)
(* anchor binds what it is about, and the anchor never loses it again.      *)
THEOREM AnswersAnchored == Spec => []ReleasedAnchored
<1>1. IInv => ReleasedAnchored
  BY DEF IInv, StoreOK
<1> QED BY <1>1, Invariance, PTL

(* Answers of all copies of a witness tell of one linear history.           *)
THEOREM AnswersLinear == Spec => []ReleasedLinear
<1>1. IInv => ReleasedLinear
  <2> SUFFICES ASSUME IInv, NEW g \in released, NEW h \in released
               PROVE  Prefix(g, h) \/ Prefix(h, g)
    BY DEF ReleasedLinear
  <2>1. g \in Seq(Ops) /\ h \in Seq(Ops) /\ ext.database_state \in Seq(Ops)
    BY SMTT(60), Types DEF IInv, TypeOK
  <2> QED BY <2>1, PrefixLinear DEF IInv, StoreOK, ReleasedAnchored
<1> QED BY <1>1, Invariance, PTL

(* An answer includes everything that was anchored when its call began.     *)
THEOREM AnswersFresh == Spec => []AnswersCurrent
<1>1. IInv => AnswersCurrent
  BY Zenon DEF IInv, ProcOK, AnswersCurrent
<1> QED BY <1>1, Invariance, PTL

(* Some file can always be served or reconciled, whatever crashed: its      *)
(* published anchor or its candidate is the external anchor.                *)
THEOREM Recoverable == Spec => []SomeFileServes
<1>1. IInv => SomeFileServes
  BY DEF IInv, StoreOK
<1> QED BY <1>1, Invariance, PTL

(* store.commit never loses an operation another process committed.         *)
THEOREM CommitsKept == Spec => NoLostUpdate
<1>1. IInv /\ [Next]_vars => [\A c \in files : Prefix(db[c].log, db'[c].log)]_vars
  BY StepOK DEF Grows
<1> QED BY <1>1, Invariance, PTL DEF Spec, NoLostUpdate

(* What a step does to the pair the abstract history is made of.            *)
LEMMA AbstractStep ==
    ASSUME IInv, [Next]_vars
    PROVE  \/ UNCHANGED <<ext, released>>
           \/ /\ \E op \in Ops : ext'.database_state = Append(ext.database_state, op)
              /\ released' = released
           \/ /\ \E h \in Seq(Ops) : Anchored(h) /\ released' = released \cup {h}
              /\ ext' = ext
<1> USE DEF IInv
<1>1. ASSUME NEW swap \in [expected : Anchor, candidate : Anchor], SwapOK(swap),
             CompareAndSwap(swap), ext' # ext
      PROVE  \E op \in Ops : ext'.database_state = Append(ext.database_state, op)
  <2>1. Applies(swap) /\ ext' = swap.candidate /\ ext # swap.candidate
    BY <1>1 DEF CompareAndSwap
  <2> QED BY <1>1, <2>1, SwapAdvances
<1>2. ASSUME NEW p \in Procs, CasAnswered(p), ext' # ext
      PROVE  /\ \E op \in Ops : ext'.database_state = Append(ext.database_state, op)
             /\ released' = released
  <2>1. /\ pc[p] = "cas" /\ CompareAndSwap(SwapOf(p)) /\ released' = released
    BY <1>2 DEF CasAnswered, Goto
  <2> QED BY <1>1, <1>2, <2>1, SwapOfOK
<1>3. ASSUME NEW swap \in late, LateCas(swap), ext' # ext
      PROVE  /\ \E op \in Ops : ext'.database_state = Append(ext.database_state, op)
             /\ released' = released
  <2>1. swap \in [expected : Anchor, candidate : Anchor] /\ SwapOK(swap)
    BY SMTT(60) DEF TypeOK, StoreOK
  <2> QED BY <1>1, <1>3, <2>1 DEF LateCas
<1>4. ASSUME NEW p \in Procs, Release(p)
      PROVE  /\ \E h \in Seq(Ops) : Anchored(h) /\ released' = released \cup {h}
             /\ ext' = ext
  BY Zenon, <1>4, Types DEF Release, ProcOK
<1>5. ASSUME NEW p \in Procs, \/ Load(p) \/ RequirePublishedEquality(p) \/ ReadExternal(p)
                              \/ Observe(p) \/ Readback(p) \/ MarkPublished(p) \/ Reload(p)
                              \/ Ready(p) \/ Commit(p) \/ Fail(p)
                              \/ \E op \in Ops \cup {Query} : Begin(p, op)
      PROVE  UNCHANGED <<ext, released>>
  BY <1>5 DEF Load, RequirePublishedEquality, ReadExternal, Observe, Readback, MarkPublished,
              Reload, Ready, Commit, Fail, CasUnanswered, Abort, Begin, Refuse, Goto
<1>6. ASSUME NEW p \in Procs, CasAnswered(p) PROVE released' = released
  BY <1>6 DEF CasAnswered, Goto
<1>7. ASSUME NEW swap \in late, LateCas(swap) PROVE released' = released
  BY <1>7 DEF LateCas
<1>8. CASE UNCHANGED vars \/ \E c \in Copies : Backup(c) \/ Restore(c)
  BY <1>8 DEF vars, Backup, Restore
<1> QED BY SMTT(60), <1>2, <1>3, <1>4, <1>5, <1>6, <1>7, <1>8 DEF Next, Advance

(* The external anchor moves by exactly one operation at a time, never back *)
(* and never sideways (compare_and_swap_with_deadline).                     *)
THEOREM AnchorMonotone == Spec => AnchorAdvancesByOne
<1>1. IInv /\ [Next]_vars =>
          [ext' # ext => \E op \in Ops : ext'.database_state = Append(ext.database_state, op)]_vars
  BY SMTT(60), AbstractStep
<1> QED BY <1>1, Invariance, PTL DEF Spec, AnchorAdvancesByOne

(* A part of a history, in the sense of Prefix, is one of its Parts.        *)
LEMMA PrefixIsPart ==
    ASSUME NEW s \in Seq(Ops), NEW t \in Seq(Ops), Prefix(s, t)
    PROVE  s \in Abstract!Parts(t)
<1>1. Len(s) \in 0..Len(t)
  BY DEF Prefix
<1>2. SubSeq(t, 1, Len(s)) \in Seq(Ops) /\ Len(SubSeq(t, 1, Len(s))) = Len(s)
  BY <1>1
<1>3. \A i \in 1..Len(s) : SubSeq(t, 1, Len(s))[i] = s[i]
  BY <1>1 DEF Prefix
<1>4. s = SubSeq(t, 1, Len(s))
  BY <1>2, <1>3
<1> QED BY <1>1, <1>4, Zenon DEF Abstract!Parts

(* The protocol implements one growing history with answers about parts of  *)
(* it (AnchoredLog): a served swap extends it, a released response answers. *)
THEOREM Refinement == Spec => ImplementsAnchoredLog
<1>1. Init => Abstract!Init
  BY DEF Init, None, Abstract!Init
<1>2. IInv /\ [Next]_vars => [Abstract!Next]_(Abstract!vars)
  <2> SUFFICES ASSUME IInv, [Next]_vars PROVE [Abstract!Next]_(Abstract!vars)
    OBVIOUS
  <2>1. CASE UNCHANGED <<ext, released>>
    BY <2>1 DEF Abstract!vars
  <2>2. CASE /\ \E op \in Ops : ext'.database_state = Append(ext.database_state, op)
             /\ released' = released
    BY <2>2 DEF Abstract!Next, Abstract!Extend
  <2>3. CASE /\ \E h \in Seq(Ops) : Anchored(h) /\ released' = released \cup {h}
             /\ ext' = ext
    BY <2>3, Types, PrefixIsPart DEF IInv, Anchored, Abstract!Next, Abstract!Answer
  <2> QED BY <2>1, <2>2, <2>3, AbstractStep
<1> QED BY <1>1, <1>2, Invariance, PTL DEF Spec, ImplementsAnchoredLog, Abstract!Spec
=================================================================================
