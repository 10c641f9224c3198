------------------------------ MODULE TrieSync ------------------------------
(***************************************************************************)
(* The trie download scheduler (trie/sync.go) with the leaf callback of    *)
(* the state scheduler (core/state/sync.go), as operators on a scheduler   *)
(* s = [reqs, queue]: the requests by hash and the hashes nobody asked for *)
(* yet.  A request is the references to it of nodes that wait for it, the  *)
(* number of references it waits for itself, and whether its data came.    *)
(*                                                                         *)
(* Refs[n] are the hash nodes among the children of node n, in order and   *)
(* with repetitions; Leaves[n] the storage roots and code hashes the leaf  *)
(* callback finds in n's value nodes.  Raw entries (code) have neither.    *)
(***************************************************************************)
EXTENDS Integers, Sequences, FiniteSets, SequencesExt, FiniteSetsExt

CONSTANTS Nodes, Refs, Leaves

ASSUME TrieAssumption ==
  /\ IsFiniteSet(Nodes)
  /\ Refs \in [Nodes -> Seq(Nodes)]
  /\ Leaves \in [Nodes -> Seq(Nodes)]

Kids(n) == ToSet(Refs[n]) \cup ToSet(Leaves[n])

\* Mutant of schedule: a second reference to a pending request is dropped.
scheduleOnce(s, h, ps) ==
  IF h \in DOMAIN s.reqs THEN s
    ELSE [reqs  |-> s.reqs @@ (h :> [parents |-> ps, deps |-> 0, data |-> FALSE]),
          queue |-> s.queue \cup {h}]

\* Inserts a request for h that the nodes ps wait for, or adds ps to the old one.
schedule(s, h, ps) ==
  IF h \in DOMAIN s.reqs
    THEN [s EXCEPT !.reqs[h].parents = @ \o ps]
    ELSE [reqs  |-> s.reqs @@ (h :> [parents |-> ps, deps |-> 0, data |-> FALSE]),
          queue |-> s.queue \cup {h}]

\* Mutant of AddEntry: the ancestor does not wait for the entry.
AddEntryUncounted(s, db, h, ps) == IF h \in db THEN s ELSE schedule(s, h, <<>>)

\* AddSubTrie and AddRawEntry below the ancestors ps (one, or none for the root).
AddEntry(s, db, h, ps) ==
  IF h \in db THEN s
    ELSE schedule([s EXCEPT !.reqs = [k \in DOMAIN s.reqs |->
                    IF k \in ToSet(ps) THEN [s.reqs[k] EXCEPT !.deps = @ + 1]
                                       ELSE s.reqs[k]]], h, ps)

NewTrieSync(db, root) ==
  AddEntry([reqs |-> << >>, queue |-> {}], db, root, << >>)

\* The leaf callback of NewStateSync, for every leaf of node h.
callback(s, db, h) ==
  FoldLeft(LAMBDA t, e : AddEntry(t, db, e, <<h>>), s, Leaves[h])

\* The children of h that the database does not have.
children(db, h) == SelectSeq(Refs[h], LAMBDA c : c \notin db)

\* The requests without h, with the batch that h is written in.
Finished(s, batch, h) ==
  [reqs  |-> [k \in DOMAIN s.reqs \ {h} |-> s.reqs[k]], queue |-> s.queue,
   batch |-> batch \cup {h}]

\* One reference of the parent p is satisfied.
Notify(t, p) == [t EXCEPT !.reqs[p].deps = @ - 1]

RECURSIVE commit(_, _, _)
\* Writes h to the batch and commits every parent that this completes.
commit(s, batch, h) ==
  FoldLeft(LAMBDA t, p :
             LET u == Notify(t, p)
             IN IF u.reqs[p].deps = 0 THEN commit(u, u.batch, p) ELSE u,
           Finished(s, batch, h), s.reqs[h].parents)

\* Process of one item whose request is pending: the scheduler after it, and the
\* batch that was handed to the database.
Process(s, db, h) ==
  LET t == callback([s EXCEPT !.reqs[h].data = TRUE], db, h)
      missing == children(db, h)
      waiting == [t EXCEPT !.reqs[h].deps = @ + Len(missing)]
  IN IF missing = << >> /\ t.reqs[h].deps = 0
       THEN commit(t, {}, h)
       ELSE FoldLeft(LAMBDA u, c : schedule(u, c, <<h>>), waiting, missing)
              @@ [batch |-> {}]
=============================================================================
