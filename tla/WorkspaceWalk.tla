---------------------------- MODULE WorkspaceWalk ----------------------------
(***************************************************************************)
(* The walk of Glob and Grep over the workspace (workspace_walk.py,        *)
(* walk_support.py, windows_walk.py, the two tools in tools.py): a stack   *)
(* of open directories, a glob pattern run as an automaton along the path, *)
(* budgets that truncate, and entries whose identity is compared between   *)
(* the call that inspects them and the call that opens them.  Entries that *)
(* belong to version control or to agents are passed over without a word.  *)
(*                                                                         *)
(* Other processes move, remove and replace entries between any two system *)
(* calls.  On POSIX the walk works below descriptors and skips what has    *)
(* changed; on Windows it works with paths, guards the directories on its  *)
(* stack against being moved, and fails when one has changed.              *)
(***************************************************************************)
EXTENDS Integers, Sequences, FiniteSets

CONSTANTS Objects,   \* directories, files and links
          Root,      \* the directory the walk starts in
          Subdirs,   \* the other directories
          Links,     \* links, junctions and what else is not real
          None,      \* nothing under a name
          Names,     \* names of entries
          Hidden,    \* those that begin with a dot
          Control,   \* those of version control, agents and credentials
          Unsafe,    \* those that Windows reads as something else
          Deep,      \* "**", a part of a pattern; the others are sets of names
          Patterns,  \* the patterns asked for
          Trees,     \* the workspaces at the beginning
          MaxEntries, MaxDirectories, MaxDepth,  \* MAX_WALK_*
          MaxResults,\* MAX_GLOB_RESULTS, MAX_GREP_FILES
          MaxMoves   \* changes by other processes (a bound of the model)

Dirs  == {Root} \cup Subdirs
Plain == Objects \ (Dirs \cup Links)
Slots == Dirs \X Names

VARIABLES
  tree,        \* what is under a name of a directory
  moves,       \* changes so far
  touched,     \* directory and name pairs that were changed
  was,         \* directory, name and object triples there ever were
  system,      \* os.name
  tool,        \* Glob or Grep
  pattern,     \* _GlobPattern.parts
  pc,          \* the next call of the walk
  stack,       \* the frames
  name,        \* the entry that is looked at
  info,        \* the object that was inspected under it
  states,      \* the automaton after it
  yielded,     \* the WalkEntry on its way to the tool
  found,       \* paths the tool lists or has searched
  entries, directories,  \* counted against the budgets
  truncated,   \* the walk says that it stopped early
  incomplete,  \* the tool says so
  open,        \* descriptors and handles that are open
  result

treeVars == <<tree, moves, touched, was>>
asked    == <<system, tool, pattern>>
entryVars == <<name, info, states, yielded>>
countVars == <<entries, directories, truncated>>
walkVars == <<pc, stack, entryVars, found, countVars, incomplete, open, result>>
vars == <<treeVars, asked, walkVars>>

-------------------------------------------------------------------------------
(* _GlobPattern: the automaton is in several of the pattern's gaps at once *)

(* _closure: "**" may stand for nothing.                                   *)
Closure(gaps) ==
  {j \in 1..(Len(pattern) + 1) :
     \E i \in gaps : i <= j /\ \A k \in i..(j - 1) : pattern[k] = Deep}

(* _segment_matches, of a part that is a set of names with its dots        *)
Advance(gaps, n) ==
  Closure({i \in gaps : i <= Len(pattern) /\ pattern[i] = Deep /\ n \notin Hidden}
          \cup {i + 1 : i \in {i \in gaps : /\ i <= Len(pattern)
                                           /\ pattern[i] # Deep
                                           /\ n \in pattern[i]}})

IsMatch(gaps)    == Len(pattern) + 1 \in gaps
CanDescend(gaps) == \E i \in gaps : i <= Len(pattern)

-------------------------------------------------------------------------------
(* A chain of directories leads from the root along the path.              *)
Leads(triples, path, last) ==
  \E c \in [0..Len(path) -> Objects] :
    /\ c[0] = Root
    /\ \A k \in 1..Len(path) : <<c[k - 1], path[k], c[k]>> \in triples
    /\ \A k \in 1..(Len(path) - 1) : c[k] \in Subdirs
    /\ c[Len(path)] \in last

(* A link stands on the path.                                              *)
Linked(triples, path) ==
  \E k \in 1..Len(path) : Leads(triples, SubSeq(path, 1, k), Links)

(* Names that the walk keeps to itself: a protected one, wherever it is on *)
(* the path (in the code four of them, of files, count at its end only,    *)
(* and credentials by their place), and on Windows an unsafe one.          *)
Protected(path)  == \E k \in 1..Len(path) : path[k] \in Control
UnsafePart(path) == system = "nt" /\ \E k \in 1..Len(path) : path[k] \in Unsafe

-------------------------------------------------------------------------------
Top == stack[Len(stack)]
Under(d, n) == tree[<<d, n>>]
Real(o) == o \notin Links \cup {None}
Listing(d)  == {n \in Names : Under(d, n) # None}
Frame(d, path, gaps) ==
  [dir |-> d, path |-> path, states |-> gaps, left |-> Listing(d)]
NoEntry == [path |-> <<>>, file |-> FALSE]

(* Each object but the root is in one place at most, and no directory in   *)
(* itself (MaxDepth of the instance is 2).                                 *)
Tree(t) ==
  \A p \in Slots : t[p] # None =>
    /\ t[p] \notin {Root, p[1]}
    /\ \A q \in Slots : t[q] = t[p] => q = p
    /\ t[p] \in Dirs => \A n \in Names : t[<<t[p], n>>] # p[1]

Init ==
  /\ tree \in Trees
  /\ moves = 0 /\ touched = {}
  /\ was = {<<p[1], p[2], tree[p]>> : p \in Slots}
  /\ system \in {"posix", "nt"} /\ tool \in {"glob", "grep"}
  /\ pattern \in Patterns
  /\ pc = "base" /\ stack = <<>>
  /\ name = None /\ info = None /\ states = {} /\ yielded = NoEntry
  /\ found = {} /\ entries = 0 /\ directories = 0
  /\ truncated = FALSE /\ incomplete = FALSE
  /\ open = 0 /\ result = "none"

-------------------------------------------------------------------------------
(* The walk.                                                               *)

(* _open_base: the root is opened, compared with the workspace's identity, *)
(* and listed.                                                             *)
OpenBase ==
  /\ pc = "base"
  /\ stack' = <<Frame(Root, <<>>, Closure({1}))>>
  /\ directories' = 1 /\ open' = 1
  /\ pc' = "loop"
  /\ UNCHANGED <<treeVars, asked, entryVars, found, entries, truncated,
                 incomplete, result>>

(* The base is not there, or not the workspace; in the second case the     *)
(* refusal passes the handler that would have closed the descriptor.       *)
BaseRefused ==
  /\ pc = "base"
  /\ pc' = "done" /\ result' = "refused"
  /\ open' \in IF system = "posix" THEN {0, 1} ELSE {0}
  /\ UNCHANGED <<treeVars, asked, stack, entryVars, found, countVars, incomplete>>

(* close_frames, and the descriptor of an entry that is being yielded      *)
CloseAll(r) ==
  /\ open' = open - Len(stack) - (IF yielded.file THEN 1 ELSE 0)
  /\ stack' = <<>> /\ yielded' = NoEntry
  /\ result' = r /\ pc' = "done"

(* A system call fails in a way that is not a race: the tool says ERROR.   *)
Fails ==
  /\ pc \in {"loop", "stat", "guard", "match", "descend", "yield"}
  /\ CloseAll("error")
  /\ UNCHANGED <<treeVars, asked, name, info, states, found, countVars,
                 incomplete>>

(* The deadline passes, or the budget of entries is spent.                 *)
Exhausted ==
  /\ pc = "loop" /\ stack # <<>>
  /\ truncated' = TRUE
  /\ CloseAll("ok")
  /\ UNCHANGED <<treeVars, asked, name, info, states, found, entries,
                 directories, incomplete>>

(* The stack is empty: the walk has seen everything.                       *)
Finished ==
  /\ pc = "loop" /\ stack = <<>>
  /\ CloseAll("ok")
  /\ UNCHANGED <<treeVars, asked, name, info, states, found, countVars,
                 incomplete>>

(* _next_entry: the next name of the innermost directory, in any order, or *)
(* its end.                                                                *)
NextEntry ==
  /\ pc = "loop" /\ stack # <<>> /\ entries < MaxEntries
  /\ IF Top.left = {}
     THEN /\ stack' = SubSeq(stack, 1, Len(stack) - 1)
          /\ open' = open - 1
          /\ UNCHANGED <<name, entries, pc>>
     ELSE /\ name' \in Top.left
          /\ stack' = [stack EXCEPT ![Len(stack)].left = @ \ {name'}]
          /\ entries' = entries + 1
          /\ pc' = "stat"
          /\ UNCHANGED open
  /\ UNCHANGED <<treeVars, asked, info, states, yielded, found, directories,
                 truncated, incomplete, result>>

(* safe_part, _entry_stat and the first half of _inspect_entry             *)
Inspect ==
  /\ pc = "stat"
  /\ LET o == Under(Top.dir, name)
         s == Advance(Top.states, name)
     IN IF (system = "nt" => name \notin Unsafe) /\ Real(o) /\ s # {}
        THEN pc' = "guard" /\ info' = o /\ states' = s
        ELSE pc' = "loop" /\ UNCHANGED <<info, states>>
  /\ UNCHANGED <<treeVars, asked, stack, name, yielded, found, countVars,
                 incomplete, open, result>>

(* Fault: only what is in the root of the workspace is protected.          *)
Verdicts_RootOnly(path) == {Len(path) = 1 /\ Protected(path)}

(* is_protected_host_path resolves the path again: a link that has come to *)
(* stand on it may lead to a protected place or away from one.             *)
Verdicts(path) ==
  IF Linked({<<p[1], p[2], tree[p]>> : p \in Slots}, path) THEN BOOLEAN
  ELSE {Protected(path)}

(* A protected entry is passed over, and nothing is said of it.            *)
Guard ==
  /\ pc = "guard"
  /\ \E protected \in Verdicts(Append(Top.path, name)) :
       pc' = IF protected THEN "loop" ELSE "match"
  /\ UNCHANGED <<treeVars, asked, stack, entryVars, found, countVars,
                 incomplete, open, result>>

(* What is opened under the name is what was inspected.                    *)
StillThere == Under(Top.dir, name) = info

(* _matched_entry: Grep's files are opened and compared with the inspected *)
(* object.                                                                 *)
MatchEntry ==
  /\ pc = "match"
  /\ LET path == Append(Top.path, name)
         needs == info \in Plain /\ tool = "grep"
     IN IF IsMatch(states) /\ (needs => StillThere)
        THEN /\ yielded' = [path |-> path, file |-> needs]
             /\ open' = IF needs THEN open + 1 ELSE open
        ELSE UNCHANGED <<yielded, open>>
  /\ pc' = "descend"
  /\ UNCHANGED <<treeVars, asked, stack, name, info, states, found, countVars,
                 incomplete, result>>

Resume == IF yielded = NoEntry THEN "loop" ELSE "yield"

(* Nothing to descend into.                                                *)
StayHere ==
  /\ pc = "descend"
  /\ ~(info \in Dirs /\ CanDescend(states))
  /\ pc' = Resume
  /\ UNCHANGED <<treeVars, asked, stack, entryVars, found, countVars,
                 incomplete, open, result>>

AtLimit == Len(stack) > MaxDepth \/ directories >= MaxDirectories

(* _child_frame at a limit                                                 *)
LimitReached ==
  /\ pc = "descend"
  /\ info \in Dirs /\ CanDescend(states) /\ AtLimit
  /\ truncated' = TRUE
  /\ pc' = Resume
  /\ UNCHANGED <<treeVars, asked, stack, entryVars, found, entries, directories,
                 incomplete, open, result>>

(* Fault: what was inspected is opened unseen, through a link.             *)
OpenChild_Follows ==
  /\ pc = "descend"
  /\ info \in Dirs /\ CanDescend(states) /\ ~AtLimit
  /\ LET now == Under(Top.dir, name)
         led == IF now \in Links THEN Root ELSE now
     IN IF led \in Dirs
        THEN /\ stack' = Append(stack, Frame(led, Append(Top.path, name), states))
             /\ directories' = directories + 1 /\ open' = open + 1
        ELSE UNCHANGED <<stack, directories, open>>
  /\ pc' = Resume
  /\ UNCHANGED <<treeVars, asked, entryVars, found, entries, truncated,
                 incomplete, result>>

(* _child_frame: the directory is opened, compared with the inspected one  *)
(* and listed.  On POSIX a changed one is skipped.                         *)
OpenChild ==
  /\ pc = "descend"
  /\ info \in Dirs /\ CanDescend(states) /\ ~AtLimit
  /\ system = "nt" => StillThere
  /\ IF StillThere
     THEN /\ stack' = Append(stack, Frame(info, Append(Top.path, name), states))
          /\ directories' = directories + 1 /\ open' = open + 1
     ELSE UNCHANGED <<stack, directories, open>>
  /\ pc' = Resume
  /\ UNCHANGED <<treeVars, asked, entryVars, found, entries, truncated,
                 incomplete, result>>

(* _open_fallback_iterator: a changed one fails the walk.                  *)
ChildChanged ==
  /\ pc = "descend" /\ system = "nt"
  /\ info \in Dirs /\ CanDescend(states) /\ ~AtLimit
  /\ ~StillThere
  /\ CloseAll("error")
  /\ UNCHANGED <<treeVars, asked, name, info, states, found, countVars,
                 incomplete>>

-------------------------------------------------------------------------------
(* The tools.                                                              *)
Full == Cardinality(found) >= MaxResults

(* _scan_glob_matches and _scan_grep stop with their own limit: one entry  *)
(* more than it, and the with statement closes the walk.                   *)
ResultLimit ==
  /\ pc = "yield" /\ Full
  /\ tool = "grep" => yielded.file
  /\ incomplete' = TRUE
  /\ CloseAll("ok")
  /\ UNCHANGED <<treeVars, asked, name, info, states, found, countVars>>

(* The tool is done with an entry, whose descriptor is closed.             *)
Taken ==
  /\ pc = "yield"
  /\ open' = IF yielded.file THEN open - 1 ELSE open
  /\ yielded' = NoEntry
  /\ pc' = "loop"
  /\ UNCHANGED <<treeVars, asked, stack, name, info, states, countVars, result>>

(* Glob lists the entry.                                                   *)
ListEntry ==
  /\ Taken
  /\ tool = "glob" /\ ~Full
  /\ found' = found \cup {yielded.path}
  /\ UNCHANGED incomplete

(* read_open_entry reads no more of a file than the limit.                 *)
TooLarge == incomplete' = TRUE /\ UNCHANGED found

(* Grep passes over a directory, and searches a file below the limit       *)
(* unless it is too large to be read.                                      *)
SearchFile ==
  /\ Taken
  /\ tool = "grep" /\ (yielded.file => ~Full)
  /\ \/ ~yielded.file /\ UNCHANGED <<found, incomplete>>
     \/ yielded.file /\ found' = found \cup {yielded.path} /\ UNCHANGED incomplete
     \/ yielded.file /\ TooLarge

(* What the answer says: "at least", "results incomplete"                  *)
SaysIncomplete == truncated \/ incomplete

Walk == \/ OpenBase \/ BaseRefused \/ Fails \/ Exhausted \/ Finished \/ NextEntry
        \/ Inspect \/ Guard \/ MatchEntry \/ StayHere \/ LimitReached \/ OpenChild
        \/ ChildChanged \/ ResultLimit \/ ListEntry \/ SearchFile

-------------------------------------------------------------------------------
(* Other processes.                                                        *)
Guarded(o) == system = "nt" /\ \E i \in 1..Len(stack) : stack[i].dir = o

Changed(t, slots) ==
  /\ Tree(t)
  /\ tree' = t
  /\ moves' = moves + 1
  /\ touched' = touched \cup slots
  /\ was' = was \cup {<<p[1], p[2], t[p]>> : p \in slots}
  /\ UNCHANGED <<asked, walkVars>>

(* An entry is moved to another place, over what is there or not.          *)
Move ==
  /\ moves < MaxMoves /\ pc # "done"
  /\ \E p, q \in Slots :
       /\ p # q /\ tree[p] # None /\ tree[p] # q[1]
       /\ ~Guarded(tree[p]) /\ ~Guarded(tree[q])
       /\ Changed([tree EXCEPT ![p] = None, ![q] = tree[p]], {p, q})

(* An entry is removed, or something new comes in its place.               *)
Replace ==
  /\ moves < MaxMoves /\ pc # "done"
  /\ \E p \in Slots, o \in (Objects \cup {None}) \ {Root} :
       /\ o # tree[p] /\ ~Guarded(tree[p])
       /\ \A q \in Slots : tree[q] # o \/ o = None
       /\ Changed([tree EXCEPT ![p] = o], {p})

Next == Walk \/ Move \/ Replace

Spec == Init /\ [][Next]_vars

-------------------------------------------------------------------------------
TypeOK ==
  /\ tree \in [Slots -> Objects \cup {None}]
  /\ moves \in 0..MaxMoves /\ touched \in SUBSET Slots
  /\ system \in {"posix", "nt"} /\ tool \in {"glob", "grep"}
  /\ pc \in {"base", "loop", "stat", "guard", "match", "descend", "yield", "done"}
  /\ states \in SUBSET (1..(Len(pattern) + 1))
  /\ entries \in 0..MaxEntries /\ directories \in 0..MaxDirectories
  /\ truncated \in BOOLEAN /\ incomplete \in BOOLEAN
  /\ open \in Nat
  /\ result \in {"none", "ok", "error", "refused"}

(* What a pattern means: its parts cut the path into pieces, one name for  *)
(* a part that is a set of names, any number of visible ones for "**".     *)
Matches(path) ==
  \E cut \in [0..Len(pattern) -> 0..Len(path)] :
    /\ cut[0] = 0 /\ cut[Len(pattern)] = Len(path)
    /\ \A i \in 1..Len(pattern) :
         IF pattern[i] = Deep
         THEN /\ cut[i - 1] <= cut[i]
              /\ \A k \in (cut[i - 1] + 1)..cut[i] : path[k] \notin Hidden
         ELSE /\ cut[i] = cut[i - 1] + 1
              /\ path[cut[i]] \in pattern[i]

(* Nothing that is there is below more directories than there are.         *)
Paths == UNION {[1..k -> Names] : k \in 1..(Cardinality(Subdirs) + 1)}

Wanted == IF tool = "grep" THEN Plain ELSE Plain \cup Subdirs

(* What is listed or searched matches the pattern and was there, below     *)
(* real directories only: no link is followed, whatever changes under the  *)
(* walk (workspace_walk.py:164, 348).  It has no unsafe name, and, unless  *)
(* a link came to stand on its path, none that is protected.               *)
Sound ==
  \A path \in found :
    /\ Matches(path) /\ Leads(was, path, Wanted)
    /\ ~UnsafePart(path) /\ (Protected(path) => Linked(was, path))

(* An answer that does not say it is incomplete has everything that nobody *)
(* touched meanwhile, but for what the walk keeps to itself                *)
(* (workspace_walk.py:167, 177, 213, 252; tools.py:194).                   *)
Complete ==
  result = "ok" /\ ~SaysIncomplete =>
    LET still == {x \in was : <<x[1], x[2]>> \notin touched}
    IN \A path \in Paths :
         /\ Matches(path) /\ Leads(still, path, Wanted)
         /\ ~UnsafePart(path) /\ ~Protected(path)
         => path \in found

(* However the walk ends, its descriptors are closed; only a root that is  *)
(* not the workspace any more keeps one (walk_support.py:87).              *)
AllClosed == result \in {"ok", "error"} => open = 0
================================================================================
