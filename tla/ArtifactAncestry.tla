---------------------------- MODULE ArtifactAncestry ----------------------------
(***************************************************************************)
(* How two copies of a vault are compared before one may replace the       *)
(* other.  The clones of a lineage commit on their own and import each     *)
(* other's artifacts; an artifact is its signed journal and the envelopes  *)
(* of its items, each with the history of its signed revisions.            *)
(*                                                                         *)
(* compare_artifacts looks at journals and at every envelope; what it must *)
(* find is which commits each copy has behind it.                          *)
(***************************************************************************)
EXTENDS Naturals, Sequences, SequencesExt, FiniteSets

CONSTANTS
    Clones,          \* the homes of one lineage
    AncestryItems,   \* item identifiers
    MaxJournal       \* bound on the revisions of a journal

VARIABLE artifact    \* [Clones -> [journal : Seq(revision), items : item -> envelope]]

---------------------------------------------------------------------------------
(* Envelopes and commits.  A revision is signed and hashed over what came   *)
(* before it, so no two commits are equal: (author, number of the author).  *)

Serial(c) ==
    1 + Cardinality({i \in DOMAIN artifact[c].journal : artifact[c].journal[i].by = c})

Journalled(a) == {a.journal[i].on : i \in {j \in DOMAIN a.journal : a.journal[j].kind = "create"}}

\* prepare_create: a new envelope with its first signed revision.
Created(a, item, id) ==
    [a.items EXCEPT ![item] = [history |-> <<id>>, body |-> id, described |-> 1, epoch |-> 1]]

\* prepare_rekey: the current revision joins the prior ones under a new epoch.
Rekeyed(a, item, id) ==
    [a.items EXCEPT ![item] =
         [history |-> Append(@.history, id), body |-> id, described |-> @.described + 1,
          epoch |-> @.epoch + 1]]

\* ItemRename: the descriptor alone.
Renamed(a, item) == [a.items EXCEPT ![item].described = @ + 1]

\* ItemDelete: the envelope goes, a tombstone keeps the identifier taken.
Deleted(a, item) == [a.items EXCEPT ![item] = <<>>]

Held(a) == {item \in AncestryItems : a.items[item] # <<>>}

Author(c) ==
    /\ Len(artifact[c].journal) < MaxJournal
    /\ \E item \in AncestryItems, kind \in {"create", "rekey", "rename", "delete"} :
           LET a == artifact[c]
               id == <<c, Serial(c)>>
           IN /\ IF kind = "create" THEN item \notin Journalled(a) ELSE item \in Held(a)
              /\ artifact' = [artifact EXCEPT ![c] =
                     [journal |-> Append(a.journal, [by |-> c, id |-> id, kind |-> kind, on |-> item]),
                      items |-> CASE kind = "create" -> Created(a, item, id)
                                  [] kind = "rekey" -> Rekeyed(a, item, id)
                                  [] kind = "rename" -> Renamed(a, item)
                                  [] kind = "delete" -> Deleted(a, item)]]

---------------------------------------------------------------------------------
(* compare_artifacts *)

\* The suffix that deletes an item is searched from the second new revision on.
MutPolicySuffixDeletes(a, start, item) ==
    \E i \in (start + 2)..Len(a.journal) : a.journal[i].kind = "delete" /\ a.journal[i].on = item

PolicySuffixDeletes(a, start, item) ==
    \E i \in (start + 1)..Len(a.journal) : a.journal[i].kind = "delete" /\ a.journal[i].on = item

ItemHistoryIsPrefix(base, candidate) ==
    /\ IsPrefix(base.history, candidate.history)
    /\ \/ Len(candidate.history) > Len(base.history)
       \/ /\ candidate.body = base.body
          /\ candidate.described >= base.described
          /\ candidate.epoch >= base.epoch

IsStrictDescendant(base, candidate) ==
    /\ Len(candidate.journal) > Len(base.journal)
    /\ IsPrefix(base.journal, candidate.journal)
    /\ \A item \in Held(base) :
           IF item \in Held(candidate)
           THEN ItemHistoryIsPrefix(base.items[item], candidate.items[item])
           ELSE PolicySuffixDeletes(candidate, Len(base.journal), item)

CompareArtifacts(local, incoming) ==
    IF local = incoming THEN "Identical"
    ELSE IF IsStrictDescendant(local, incoming) THEN "IncomingStrictDescendant"
    ELSE IF IsStrictDescendant(incoming, local) THEN "LocalStrictDescendant"
    ELSE "Divergent"

\* prepare_transfer_import: the exact incoming artifact or nothing.
ImportArtifact(c) ==
    \E d \in Clones \ {c} :
        /\ CompareArtifacts(artifact[c], artifact[d]) = "IncomingStrictDescendant"
        /\ artifact' = [artifact EXCEPT ![c] = artifact[d]]

AncestryInit == artifact = [c \in Clones |-> [journal |-> <<>>, items |-> [item \in AncestryItems |-> <<>>]]]

AncestryNext == \E c \in Clones : Author(c) \/ ImportArtifact(c)

---------------------------------------------------------------------------------
Commits(a) == {a.journal[i].id : i \in DOMAIN a.journal}

\* What the comparison should say, from the commits alone.
Lineage(local, incoming) ==
    CASE Commits(local) = Commits(incoming) -> "Identical"
      [] Commits(local) \subseteq Commits(incoming) /\ Commits(local) # Commits(incoming) ->
             "IncomingStrictDescendant"
      [] Commits(incoming) \subseteq Commits(local) /\ Commits(local) # Commits(incoming) ->
             "LocalStrictDescendant"
      [] OTHER -> "Divergent"

\* compare_artifacts agrees with the commits behind each copy, whatever was
\* created, rekeyed, renamed or deleted on either side since they parted: no
\* honest descendant is taken for a fork, and no fork for a descendant.
DescendantsRecognised ==
    \A c, d \in Clones : CompareArtifacts(artifact[c], artifact[d]) = Lineage(artifact[c], artifact[d])
=================================================================================
