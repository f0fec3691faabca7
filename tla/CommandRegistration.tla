------------------------ MODULE CommandRegistration -------------------------
(***************************************************************************)
(* The command tree of CommandRegistry and who may take a command out of   *)
(* it (src/ESPressio_Command.hpp): find-or-create, aliases, scoped         *)
(* registration by CommandRegistrationHandle, removal by path, and the     *)
(* notifications an ICommandRegistryObserver (such as the                  *)
(* CommandRegistryEventBridge) receives.                                   *)
(*                                                                         *)
(* A handle remembers a path, not a node.  What it takes out of the tree   *)
(* when it is reset is whatever the path leads to by then.                 *)
(*                                                                         *)
(* The registry has no lock: every operation is one step of one thread.    *)
(* Observers are told inside the step; they are taken not to call back.    *)
(***************************************************************************)
EXTENDS Integers, SequencesExt

CONSTANTS
  Names,        \* tokens used as names and as aliases
  Handles,      \* CommandRegistrationHandle objects of the application
  PathRemoval,  \* whether the application calls UnregisterCommand itself
  Aliasing,     \* whether it adds aliases
  MaxNodes,     \* bound: number of nodes created in a behaviour
  MaxDepth      \* bound: depth of the tree

ASSUME RegistrationAssumption ==
  /\ PathRemoval \in BOOLEAN
  /\ Aliasing \in BOOLEAN
  /\ MaxNodes \in Nat
  /\ MaxDepth \in Nat \ {0}

VARIABLES
  tree,     \* the nodes that exist, each with its name, aliases and ancestors
  created,  \* number of nodes created; they are numbered in that order
  handles,  \* per handle: its path, <<>> when it is inactive
  holds,    \* history, per handle: the node its RegisterCommand created
  aliased,  \* history: whether any alias was given
  note,     \* the last notification
  mirror    \* the paths an observer believes to be registered

vars == <<tree, created, handles, holds, aliased, note, mirror>>

Root    == 0
NoNode  == -1
NodeIds == 1 .. MaxNodes
Nodes   == DOMAIN tree
Paths   == UNION {[1 .. n -> Names] : n \in 1 .. MaxDepth}
Quiet   == [kind |-> "none", path |-> <<>>]

-----------------------------------------------------------------------------
(* Looking nodes up.  Children are appended and erased, so the children of *)
(* a node stand in the order of their creation.                            *)

\* Mutant: once a node has aliases, its own name is not compared any more.
Matches_AliasesOnly(n, token) ==
  IF tree[n].aliases = {} THEN token = tree[n].name ELSE token \in tree[n].aliases

Matches(n, token) == token = tree[n].name \/ token \in tree[n].aliases

Children(n) == {m \in Nodes : tree[m].parent = n}

\* The first child a scan meets that answers to the token.
FindChild(n, token) ==
  LET found == {m \in Children(n) : Matches(m, token)}
  IN  IF found = {} THEN NoNode ELSE Min(found)

\* Mutant: the name is given out again.
NameIsFree_NotAsked(name) == TRUE

\* Neither Command nor RegisterCommand adds a second child for a token.
NameIsFree(name) == FindChild(Root, name) = NoNode

\* The node a path leads to, each token taken by the first child that matches.
Resolve(path) ==
  LET reached[i \in 0 .. Len(path)] ==
        IF i = 0 THEN Root
        ELSE IF reached[i - 1] = NoNode THEN NoNode
        ELSE FindChild(reached[i - 1], path[i])
  IN  reached[Len(path)]

Depth(n) == IF n = Root THEN 0 ELSE Cardinality(tree[n].ancestors)

Subtree(n) == {m \in Nodes : m = n \/ n \in tree[m].ancestors}

-----------------------------------------------------------------------------
(* Changing the tree and telling the observers.                            *)

NewNode(parent, name) ==
  [name      |-> name,
   aliases   |-> {},
   parent    |-> parent,
   ancestors |-> {parent} \cup (IF parent = Root THEN {} ELSE tree[parent].ancestors)]

Create(parent, name) ==
  /\ created < MaxNodes
  /\ created' = created + 1
  /\ tree' = [n \in Nodes \cup {created'} |->
                IF n = created' THEN NewNode(parent, name) ELSE tree[n]]

\* Mutant: the children of an erased node stay in the table.
TreeWithout_KeepsChildren(n) == [m \in Nodes \ {n} |-> tree[m]]

TreeWithout(n) == [m \in Nodes \ Subtree(n) |-> tree[m]]

Registered(path) ==
  /\ note' = [kind |-> "registered", path |-> path]
  /\ mirror' = mirror \cup {path}

Unregistered(path) ==
  /\ note' = [kind |-> "unregistered", path |-> path]
  /\ mirror' = mirror \ {path}

Silent == note' = Quiet /\ UNCHANGED mirror

\* Mutant: observers are told of every call, also of one that finds the node.
NoteOfFound_Announced(name) == Registered(<<name>>)

NoteOfFound(name) == Silent

-----------------------------------------------------------------------------
Init ==
  /\ tree = <<>>
  /\ created = 0
  /\ handles = [h \in Handles |-> <<>>]
  /\ holds = [h \in Handles |-> NoNode]
  /\ aliased = FALSE
  /\ note = Quiet
  /\ mirror = {}

\* CommandRegistry::Command.
CommandFound(name) ==
  /\ ~NameIsFree(name)
  /\ NoteOfFound(name)
  /\ UNCHANGED <<tree, created, handles, holds, aliased>>

CommandCreated(name) ==
  /\ NameIsFree(name)
  /\ Create(Root, name)
  /\ Registered(<<name>>)
  /\ UNCHANGED <<handles, holds, aliased>>

\* CommandNode::Command: a subcommand, which no observer hears of.
Subcommand(n, name) ==
  /\ Depth(n) < MaxDepth
  /\ FindChild(n, name) = NoNode
  /\ Create(n, name)
  /\ Silent
  /\ UNCHANGED <<handles, holds, aliased>>

\* CommandNode::Alias: nothing asks whether a sibling has the name.
Alias(n, alias) ==
  /\ Aliasing
  /\ alias \notin tree[n].aliases
  /\ tree' = [tree EXCEPT ![n].aliases = @ \cup {alias}]
  /\ aliased' = TRUE
  /\ Silent
  /\ UNCHANGED <<created, handles, holds>>

\* RegisterCommand into an inactive handle.  (When a command answers to the
\* name already, the result is an inactive handle and nothing changes.)
RegisterCommand(h, name) ==
  /\ handles[h] = <<>>
  /\ NameIsFree(name)
  /\ Create(Root, name)
  /\ handles' = [handles EXCEPT ![h] = <<name>>]
  /\ holds' = [holds EXCEPT ![h] = created']
  /\ UNCHANGED aliased
  /\ Registered(<<name>>)

\* UnregisterCommand: the node a path leads to goes with all below it, and
\* observers are told the path that was asked for.
UnregisterCommand(path) ==
  LET n == Resolve(path)
  IN  IF n = NoNode
      THEN UNCHANGED tree /\ Silent
      ELSE tree' = TreeWithout(n) /\ Unregistered(path)

UnregisterByPath(path) ==
  /\ PathRemoval
  /\ UnregisterCommand(path)
  /\ UNCHANGED <<created, handles, holds, aliased>>

\* CommandNode::RemoveCommand on a node the application can reach; the root
\* is not one.
RemoveSubcommand(n, name) ==
  /\ FindChild(n, name) # NoNode
  /\ tree' = TreeWithout(FindChild(n, name))
  /\ Silent
  /\ UNCHANGED <<created, handles, holds, aliased>>

\* Reset of an active handle, by name, by destruction or by assignment.
Reset(h) ==
  /\ handles[h] # <<>>
  /\ UnregisterCommand(handles[h])
  /\ handles' = [handles EXCEPT ![h] = <<>>]
  /\ holds' = [holds EXCEPT ![h] = NoNode]
  /\ UNCHANGED <<created, aliased>>

\* Mutant: move assignment erases the node and tells no observer.
ResetTarget_Silently(from, to) ==
  IF handles[to] = <<>> THEN UNCHANGED tree /\ Silent
                        ELSE tree' = TreeWithout(Resolve(handles[to])) /\ Silent

\* Mutant: the path is moved before the target is reset.
ResetTarget_AfterMove(from, to) ==
  IF handles[to] = <<>> THEN UNCHANGED tree /\ Silent
                        ELSE UnregisterCommand(handles[from])

\* What the target had registered is removed first.
ResetTarget(from, to) ==
  IF handles[to] = <<>> THEN UNCHANGED tree /\ Silent
                        ELSE UnregisterCommand(handles[to])

\* Move assignment between two handles.
MoveHandle(from, to) ==
  /\ from # to
  /\ ResetTarget(from, to)
  /\ handles' = [handles EXCEPT ![to] = handles[from], ![from] = <<>>]
  /\ holds' = [holds EXCEPT ![to] = holds[from], ![from] = NoNode]
  /\ UNCHANGED <<created, aliased>>

-----------------------------------------------------------------------------
Next ==
  \/ \E name \in Names :
       \/ CommandFound(name)
       \/ CommandCreated(name)
       \/ \E n \in Nodes :
            Subcommand(n, name) \/ Alias(n, name) \/ RemoveSubcommand(n, name)
       \/ \E h \in Handles : RegisterCommand(h, name)
  \/ \E path \in Paths : UnregisterByPath(path)
  \/ \E h \in Handles : Reset(h)
  \/ \E from, to \in Handles : MoveHandle(from, to)

Spec == Init /\ [][Next]_vars

-----------------------------------------------------------------------------
\* Every variable holds a value of its type, and the nodes form a tree: the
\* ancestors of a node that exists exist.
TypeOK ==
  /\ created \in 0 .. MaxNodes
  /\ Nodes \subseteq 1 .. created
  /\ \A n \in Nodes :
       /\ tree[n].name \in Names
       /\ tree[n].aliases \subseteq Names
       /\ tree[n].parent \in tree[n].ancestors
       /\ tree[n].ancestors \subseteq Nodes \cup {Root}
  /\ handles \in [Handles -> Paths \cup {<<>>}]
  /\ holds \in [Handles -> NodeIds \cup {NoNode}]
  /\ aliased \in BOOLEAN
  /\ note \in [kind : {"none", "registered", "unregistered"}, path : Paths \cup {<<>>}]
  /\ mirror \subseteq Paths

\* Two commands below one node never have the same name, however aliases are
\* spread over their siblings.
SiblingNamesDistinct ==
  \A m, n \in Nodes :
    tree[m].parent = tree[n].parent /\ tree[m].name = tree[n].name => m = n

TopLevel == Children(Root)

\* Observers are told of a change of the tree when there was one: a command is
\* announced as registered exactly when a top-level node appears, and as
\* unregistered only when one disappears, at whatever depth.
NotifiedAsChanged ==
  [][/\ TopLevel' \ TopLevel # {}
          <=> note'.kind = "registered"
     /\ note'.kind = "unregistered" => Nodes' # Nodes]_vars

\* As long as no alias was ever given, an observer that adds and removes the
\* paths it is told of knows exactly the top-level commands.
MirrorIsExact == ~aliased => mirror = {<<tree[n].name>> : n \in TopLevel}

\* What can go wrong with a handle: its node is gone, or an older sibling has
\* its name as an alias.
Stale(h) == holds[h] \notin Nodes

Shadowed(h) ==
  \E n \in TopLevel : n < holds[h] /\ handles[h][1] \in tree[n].aliases

\* The path of an active handle leads to the node the handle registered,
\* whatever else has been registered, moved or removed, unless the application
\* took the node out itself or gave its name to an older command.
HandleOwnsItsNode ==
  \A h \in Handles :
    handles[h] # <<>> /\ ~Stale(h) /\ ~Shadowed(h) => Resolve(handles[h]) = holds[h]

\* The registration of a handle ends with this step; it is not moved on.
Ends(h) == handles[h] # <<>> /\ \A g \in Handles : holds'[g] # holds[h]

\* A handle that is reset or assigned to removes what it has registered and
\* nothing else, unless it is stale or shadowed; moving a registration from
\* one handle to another removes nothing of it.
HandlesRemoveTheirOwn ==
  [][handles' # handles =>
       \A n \in Nodes \ Nodes' :
         \E h \in Handles :
           /\ Ends(h)
           /\ n \in Subtree(holds[h]) \/ Stale(h) \/ Shadowed(h)]_vars

\* "ownership-safe scoped dynamic registration": no handle removes what another
\* owner has registered.
HandlesAreOwnershipSafe ==
  [][handles' # handles =>
       \A n \in Nodes \ Nodes' :
         \E h \in Handles : Ends(h) /\ n \in Subtree(holds[h])]_vars

=============================================================================
