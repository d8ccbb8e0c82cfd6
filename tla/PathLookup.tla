----------------------------- MODULE PathLookup -----------------------------
(***************************************************************************)
(* Path resolution (nfs-mount, path.rs and MountHandle::resolve_path): the *)
(* path is taken apart, one COMPOUND with a LOOKUP per component is sent,  *)
(* and the handle is read off the last result.  The server carries out a   *)
(* COMPOUND one operation at a time, and other clients change the tree     *)
(* between two of them.  The slot and the lock of resolve_path are in      *)
(* NfsClient; here is what is in the request and the reply.                *)
(***************************************************************************)
EXTENDS Integers, Sequences, SequencesExt, FiniteSets, Ordering

CONSTANTS
  Letters,             \* what names are made of
  MaxPath,             \* bound: characters of a path
  Root,                \* the root of the export
  Directories, Files,  \* what there is in it, by filehandle
  Names,               \* names in use in the tree: sequences of letters
  MaxOps,              \* ca_maxoperations of the session
  MaxChanges           \* bound: times the tree is seen to change during a call

Nodes == Directories \cup Files
NoNode == "none"

ASSUME LookupAssumption ==
  /\ Root \in Directories /\ Directories \cap Files = {} /\ NoNode \notin Nodes
  /\ Names \subseteq Seq(Letters) \ {<<>>}
  /\ MaxPath \in Nat /\ MaxOps \in Nat /\ MaxChanges \in Nat

VARIABLES
  tree,     \* per directory and name: what is there, or NoNode
  call,     \* the resolve_path under way: its path, request and reply
  outcome,  \* what it returned
  reach,    \* <<i, n>>: a walk that began with the call has been at n after
            \* i components
  dead,     \* how such walks have ended early: "NOENT", "NOTDIR"
  changes   \* changes of the tree during the call

lookupVars == <<tree, call, outcome, reach, dead, changes>>

Separators == {"\\", "/"}
Characters == Letters \cup Separators
Paths == UNION {[1 .. n -> Characters] : n \in 0 .. MaxPath}

NoCall == [phase |-> "idle"]

-----------------------------------------------------------------------------
(* path.rs *)

\* Mutant: only the Windows separator separates.
CutsAtBackslash(path) ==
  <<0>> \o Ascending({i \in DOMAIN path : path[i] = "\\"}) \o <<Len(path) + 1>>

\* Where str::split cuts: before the path, at every separator, after it.
Cuts(path) ==
  <<0>> \o Ascending({i \in DOMAIN path : path[i] \in Separators}) \o <<Len(path) + 1>>

\* The pieces, some of them empty, from one cut to the next.
Pieces(path) ==
  [k \in 1 .. Len(Cuts(path)) - 1 |-> SubSeq(path, Cuts(path)[k] + 1, Cuts(path)[k + 1] - 1)]

\* The pieces that are not empty.
ToNfsComponents(path) ==
  LET kept == Ascending({k \in DOMAIN Pieces(path) : Pieces(path)[k] # <<>>})
  IN  [i \in DOMAIN kept |-> Pieces(path)[kept[i]]]

ToNfsPath(components) ==
  IF components = <<>> THEN <<"/">>
  ELSE FlattenSeq([i \in DOMAIN components |-> <<"/">> \o components[i]])

\* split_parent_name: NoNode stands for None.
SplitParentName(path) ==
  LET components == ToNfsComponents(path)
  IN  IF components = <<>> THEN NoNode
      ELSE [parent |-> Front(components), name |-> Last(components)]

-----------------------------------------------------------------------------
(* resolve_path *)

\* Mutant: the components are taken from the end of the path.
RequestReversed(path) ==
  <<[op |-> "SEQUENCE"], [op |-> "PUTROOTFH"]>>
  \o [i \in DOMAIN ToNfsComponents(path) |->
        [op |-> "LOOKUP", name |-> Reverse(ToNfsComponents(path))[i]]]
  \o <<[op |-> "GETFH"]>>

Request(path) ==
  <<[op |-> "SEQUENCE"], [op |-> "PUTROOTFH"]>>
  \o [i \in DOMAIN ToNfsComponents(path) |->
        [op |-> "LOOKUP", name |-> ToNfsComponents(path)[i]]]
  \o <<[op |-> "GETFH"]>>

\* The status of the COMPOUND first, then its last result: it must be of GETFH,
\* its own status is looked at again, and it must have a handle.  The decoder
\* reads a handle exactly when that status is OK (filehandle.rs 53-61).
ReadReply(reply) ==
  LET last == Last(reply.results)
  IN  IF reply.status # "OK" THEN [is |-> "status", status |-> reply.status]
      ELSE IF reply.results = <<>> \/ last.op # "GETFH" THEN [is |-> "unexpected"]
      ELSE IF last.status # "OK" THEN [is |-> "status", status |-> last.status]
      ELSE IF last.fh = NoNode THEN [is |-> "unexpected"]
      ELSE [is |-> "handle", fh |-> last.fh]

\* A tree as a server can have it: every directory but the root is at one
\* place at most, not below itself, and is empty when it is at none.
Trees ==
  {t \in [Directories -> [Names -> Nodes \cup {NoNode}]] :
     \A d \in Directories :
       LET places == {p \in Directories \X Names : t[p[1]][p[2]] = d}
       IN  /\ Cardinality(places) <= IF d = Root THEN 0 ELSE 1
           /\ \A p \in places : p[1] # d
           /\ d # Root /\ places = {} => \A n \in Names : t[d][n] = NoNode}

-----------------------------------------------------------------------------
(* What a path means, and which walks it allows *)

\* The components of a path: its longest runs of other characters, in order.
Runs(path) ==
  LET Other(i) == i \in DOMAIN path /\ path[i] \notin Separators
      starts == Ascending({i \in DOMAIN path : Other(i) /\ ~Other(i - 1)})
      ends == Ascending({i \in DOMAIN path : Other(i) /\ ~Other(i + 1)})
  IN  [k \in DOMAIN starts |-> SubSeq(path, starts[k], ends[k])]

\* Where d has a component; a name that is not in use is nowhere.
At(t, d, component) == IF component \in Names THEN t[d][component] ELSE NoNode

\* The walks in known along runs, continued through the tree t as far as it
\* goes: where they are after i components.
Walked(t, runs, known) ==
  LET after[i \in 0 .. Len(runs)] ==
        {n \in Nodes : \/ <<i, n>> \in known
                       \/ i > 0 /\ \E d \in after[i - 1] \cap Directories :
                                      n = At(t, d, runs[i])}
  IN  {w \in (0 .. Len(runs)) \X Nodes : w[2] \in after[w[1]]}

\* How walks end in the tree t before the last component.
Ended(t, runs, known) ==
  LET short == {w \in known : w[1] < Len(runs)}
  IN  {"NOTDIR" : w \in {v \in short : v[2] \in Files}}
      \cup {"NOENT" : w \in {v \in short :
               v[2] \in Directories /\ At(t, v[2], runs[v[1] + 1]) = NoNode}}

-----------------------------------------------------------------------------
LookupInit ==
  /\ tree \in Trees
  /\ call = NoCall /\ outcome = NoCall
  /\ reach = {} /\ dead = {} /\ changes = 0

\* resolve_path is called ...
ResolvePath ==
  /\ call = NoCall
  /\ \E path \in Paths : call' = [phase |-> "asked", path |-> path]
  /\ outcome' = NoCall /\ reach' = {} /\ dead' = {} /\ changes' = 0
  /\ UNCHANGED tree

\* ... and sends its COMPOUND.
SendLookup ==
  /\ call.phase = "asked"
  /\ LET runs == Runs(call.path)
     IN  /\ call' = [phase |-> "sent", runs |-> runs, ops |-> Request(call.path),
                     fh |-> NoNode, results |-> <<>>]
         /\ reach' = Walked(tree, runs, {<<0, Root>>})
         /\ dead' = Ended(tree, runs, reach')
  /\ UNCHANGED <<tree, outcome, changes>>

Reply(status, results, sane) ==
  call' = [phase |-> "answered", runs |-> call.runs, status |-> status,
           results |-> results, sane |-> sane]

\* The server carries out the next operation; the first that fails is the
\* last it looks at, and gives the COMPOUND its status.
ServerStep ==
  /\ call.phase = "sent"
  /\ LET op == call.ops[Len(call.results) + 1]
         status == CASE op.op = "SEQUENCE" /\ Len(call.ops) > MaxOps -> "TOO_MANY_OPS"
                     [] op.op = "LOOKUP" /\ call.fh \in Files -> "NOTDIR"
                     [] op.op = "LOOKUP" /\ call.fh \in Directories
                        /\ At(tree, call.fh, op.name) = NoNode -> "NOENT"
                     [] OTHER -> "OK"
         fh == CASE op.op = "PUTROOTFH" -> Root
                 [] op.op = "LOOKUP" /\ status = "OK" -> At(tree, call.fh, op.name)
                 [] OTHER -> call.fh
         results == Append(call.results,
           [op |-> op.op, status |-> status,
            fh |-> IF op.op = "GETFH" THEN fh ELSE NoNode])
     IN  IF status # "OK" \/ Len(results) = Len(call.ops)
         THEN Reply(status, results, TRUE)
         ELSE call' = [call EXCEPT !.fh = fh, !.results = results]
  /\ UNCHANGED <<tree, outcome, reach, dead, changes>>

\* A server that answers OK with results missing, or with a GETFH that failed.
ServerMisanswers ==
  /\ call.phase = "sent"
  /\ \/ Reply("OK", call.results, FALSE)
     \/ LET failed == [op |-> "GETFH", status |-> "SERVERFAULT", fh |-> NoNode]
        IN  Reply("OK", Append(call.results, failed), FALSE)
  /\ UNCHANGED <<tree, outcome, reach, dead, changes>>

\* Other clients link, unlink and rename, as often as they like.
TreeChanges ==
  /\ call.phase = "sent"
  /\ changes < MaxChanges /\ changes' = changes + 1
  /\ tree' \in Trees \ {tree}
  /\ reach' = Walked(tree', call.runs, reach)
  /\ dead' = dead \cup Ended(tree', call.runs, reach')
  /\ UNCHANGED <<call, outcome>>

\* resolve_path returns.
Return ==
  /\ call.phase = "answered"
  /\ outcome' = [runs |-> call.runs, sane |-> call.sane, answer |-> ReadReply(call)]
  /\ call' = NoCall
  /\ UNCHANGED <<tree, reach, dead, changes>>

LookupNext ==
  \/ ResolvePath \/ SendLookup
  \/ ServerStep \/ ServerMisanswers
  \/ TreeChanges
  \/ Return

LookupSpec == LookupInit /\ [][LookupNext]_lookupVars

-----------------------------------------------------------------------------
(* Properties *)

\* Whatever other clients do to the tree between the operations of the
\* COMPOUND, a handle that resolve_path returns is the end of a walk along
\* the whole path, each component looked up at a moment of the call and none
\* before the one it is in; never the handle of a prefix, or of a walk in
\* another order.  NOENT and NOTDIR are what some such walk met, and only a path
\* too deep for the session gets TOO_MANY_OPS.  No result that falls short is
\* taken for a handle: a reply that ends before GETFH is unexpected, and a GETFH
\* that failed in a COMPOUND that did not returns its own status; neither comes
\* of a server that answers as it should (mount.rs 81-132).
Explained ==
  outcome # NoCall =>
    LET depth == Len(outcome.runs)
        answer == outcome.answer
    IN  /\ answer.is = "handle" => <<depth, answer.fh>> \in reach
        /\ answer.is = "unexpected" => ~outcome.sane
        /\ answer.is = "status" =>
             CASE answer.status = "TOO_MANY_OPS" -> depth + 3 > MaxOps
               [] answer.status = "SERVERFAULT" -> ~outcome.sane
               [] OTHER -> answer.status \in dead

\* The components of every path are its runs of characters that are not
\* separators, in order; written as an NFS path they are read back as the
\* same components, with one separator before each; parent and name are all
\* but the last component and the last, and only the root has none
\* (path.rs 1-23).
PathForms ==
  call.phase = "asked" =>
    LET runs == Runs(call.path)
        nfs == ToNfsPath(runs)
        split == SplitParentName(call.path)
    IN  /\ ToNfsComponents(call.path) = runs
        /\ ToNfsComponents(nfs) = runs
        /\ Cardinality({i \in DOMAIN nfs : nfs[i] \in Separators}) =
             IF runs = <<>> THEN 1 ELSE Len(runs)
        /\ Head(nfs) = "/"
        /\ IF runs = <<>> THEN split = NoNode
           ELSE Append(split.parent, split.name) = runs
=============================================================================
