------------------------------- MODULE GoteBook -------------------------------
(***************************************************************************)
(* The generator of the Gote exit book (src/tools/gote_book_generator.cc): *)
(* it checks a source book, resolves the moves of its positions with       *)
(* several threads, solves the graph, selects a move for every position of *)
(* Gote and puts the new book in the place of the old one, which it keeps. *)
(* The output is a book that the engine opens.                             *)
(***************************************************************************)
EXTENDS GoteExitSolver, OpeningBook, Functions

CONSTANTS Workers,   \* the threads
          Tasks,     \* records [book, gote, bad, options, disk]
          Keys       \* the positions the engine asks a book for

(* The disk: the book at the output path, the backups of this second by    *)
(* their suffix, and the temporary file.  A file is a book, a part of one, *)
(* nothing, or the book of another run.                                    *)
Nothing == <<>>
Part == <<"part">>
Other(name) == <<name>>
File(content) == <<"book", content>>
Content(file) == file[2]
BackupNames == 0..2

(* Books are files with the records of the format; an illegal move is one  *)
(* of a source that is validated.  Not all names of backups are taken.     *)
Books == [index : Seq([key : Int, off : Nat, count : Nat]),
          moves : Seq([move : Int, eval : Int, to : Int, kind : {"legal", "illegal", "garbage"}])]
Disk(files) ==
    {d \in [output : files \ {Part}, backup : [BackupNames -> files], temporary : files, kept : {{}}] :
        \E s \in BackupNames : d.backup[s] = Nothing}

ASSUME BookAssumption ==
    /\ IsFiniteSet(Workers) /\ Workers # {} /\ Keys \subseteq Int
    /\ \A t \in Tasks :
        /\ t.book \in Books /\ t.gote \subseteq Int
        /\ t.options \in [margin : Nat, maxPositions : Nat, validate : BOOLEAN, force : BOOLEAN]
        /\ ~t.options.validate => \A m \in DOMAIN t.book.moves : t.book.moves[m].kind # "illegal"
        /\ t.disk \in Disk({t.disk.output, t.disk.temporary} \cup {t.disk.backup[s] : s \in BackupNames})

VARIABLES
    task, pc,
    nextNode, completed, failed,    \* of ResolveChildren
    worker,                         \* each thread: its next step and its node
    children,                       \* for each move record, the node it leads to
    disk                            \* output, backup[suffix], temporary

resolving == <<nextNode, completed, failed, worker, children>>
vars == <<task, pc, resolving, disk, graph, solverVars>>

book == task.book
options == task.options
NodeCount == IF options.maxPositions = 0 THEN Len(book.index)
             ELSE Min({options.maxPositions, Len(book.index)})
MoveCount == SumFunctionOnSet([i \in 1..NodeCount |-> book.index[i].count], 1..NodeCount)
Key(n) == book.index[n].key
GoteToMove(n) == Key(n) \in task.gote
MoveAt(n, i) == ReadMove(book, book.index[n], i)
Plausible(n) == {i \in 1..book.index[n].count : MoveAt(n, i).kind # "garbage"}

Init ==
    /\ task \in Tasks
    /\ disk = task.disk
    /\ pc = "start"
    /\ nextNode = 1 /\ completed = 0 /\ failed = FALSE
    /\ worker = [w \in Workers |-> [pc |-> "test", node |-> 0]]
    /\ children = <<>>
    /\ graph = [gote |-> <<>>, edges |-> <<>>]
    /\ InitSolver

Goto(next) == pc' = next /\ UNCHANGED task
Throw == Goto("error")
KeepSolver == UNCHANGED <<graph, solverVars>>

-----------------------------------------------------------------------------
(* Run: the output must not exist unless it may be replaced; then          *)
(* ValidateAndIndex.                                                       *)
Contiguous ==
    \A i \in DOMAIN book.index :
        book.index[i].off = IF i = 1 THEN 0 ELSE book.index[i - 1].off + book.index[i - 1].count
Complete == LET last == Last(book.index)
            IN  Len(book.moves) = IF book.index = <<>> THEN 0 ELSE last.off + last.count
Valid == StrictlySorted(book) /\ Contiguous /\ Complete

Validate ==
    /\ pc = "start"
    /\ IF (disk.output # Nothing /\ ~options.force) \/ Len(book.index) >= kExitDisallowed \/ ~Valid
       THEN Throw /\ UNCHANGED children
       ELSE /\ Goto("resolve")
            /\ children' = [m \in 1..MoveCount |-> kExitDisallowed]
    /\ UNCHANGED <<nextNode, completed, failed, worker, disk>> /\ KeepSolver

-----------------------------------------------------------------------------
(* ResolveChildren.  A thread tests `failed`, takes a node and resolves    *)
(* its moves; the threads write different ranges of `children`.            *)
Become(w, step, n) == worker' = [worker EXCEPT ![w] = [pc |-> step, node |-> n]]

TestFailed(w) ==
    /\ pc \in {"resolve", "join"} /\ worker[w].pc = "test"
    /\ Become(w, IF failed THEN "end" ELSE "take", 0)
    /\ UNCHANGED <<task, pc, nextNode, completed, failed, children, disk>> /\ KeepSolver

Take(w) ==
    /\ worker[w].pc = "take"
    /\ nextNode' = nextNode + 1
    /\ Become(w, IF nextNode > NodeCount THEN "end" ELSE "resolve", nextNode)
    /\ UNCHANGED <<task, pc, completed, failed, children, disk>> /\ KeepSolver

(* The moves of Gote that lose no more than the margin are allowed, and    *)
(* all of Sente's; a move leads to a node of the book or out of it.        *)
BestEval(n) == Max({-40000} \cup {MoveAt(n, i).eval : i \in Plausible(n)})
Disallowed(n, i) ==
    \/ i \notin Plausible(n)
    \/ GoteToMove(n) /\ MoveAt(n, i).eval < BestEval(n) - options.margin
ChildOf(n, i) ==
    LET at == {c \in 1..NodeCount : Key(c) = MoveAt(n, i).to}
    IN  IF Disallowed(n, i) THEN kExitDisallowed
        ELSE IF at = {} THEN kExitLeaf ELSE CHOOSE c \in at : TRUE

(* A record that cannot be decoded, or an illegal move where moves are     *)
(* validated, ends the work of all threads.                                *)
Raises(n) ==
    \/ Key(n) \in task.bad
    \/ options.validate /\ \E i \in Plausible(n) : ~Disallowed(n, i) /\ MoveAt(n, i).kind = "illegal"

\* Mutant: the exception stays in the thread.
Unnoticed(n) == failed

Noticed(n) == TRUE

Resolve(w) ==
    LET n == worker[w].node
        first == book.index[n].off
    IN  /\ worker[w].pc = "resolve"
        /\ Become(w, "test", 0)
        /\ IF Raises(n)
           THEN failed' = Noticed(n) /\ UNCHANGED <<completed, children>>
           ELSE /\ children' = [m \in DOMAIN children |->
                                    IF m - first \in 1..book.index[n].count THEN ChildOf(n, m - first)
                                    ELSE children[m]]
                /\ completed' = completed + 1
                /\ UNCHANGED failed
        /\ UNCHANGED <<task, pc, nextNode, disk>> /\ KeepSolver

(* The main thread polls `failed` and the progress, then joins.            *)
Poll ==
    /\ pc = "resolve" /\ (failed \/ completed >= NodeCount)
    /\ Goto("join")
    /\ UNCHANGED <<resolving, disk>> /\ KeepSolver

Join ==
    /\ pc = "join" /\ \A w \in Workers : worker[w].pc = "end"
    /\ IF failed THEN Throw /\ UNCHANGED graph
       ELSE /\ Goto("seed")
            /\ graph' = [gote |-> [n \in 1..NodeCount |-> GoteToMove(n)],
                         edges |-> [n \in 1..NodeCount |->
                            [i \in 1..book.index[n].count |-> children[book.index[n].off + i]]]]
    /\ UNCHANGED <<resolving, disk, solverVars>>

StartSolver ==
    /\ pc = "seed" /\ Seed
    /\ Goto("solve") /\ UNCHANGED <<resolving, disk>>
PopNode ==
    /\ pc = "solve" /\ Pop
    /\ UNCHANGED <<task, pc, resolving, disk>>
Solved ==
    /\ pc = "solve" /\ ~Solving
    /\ Goto("write") /\ UNCHANGED <<resolving, disk>> /\ KeepSolver

-----------------------------------------------------------------------------
(* SelectGoteMove: the quickest way out of the book, of those the best     *)
(* value; where there is none, the best value.                             *)
ExitDistance(n, i) ==
    LET child == graph.edges[n][i]
    IN  IF child = kExitLeaf THEN 1
        ELSE IF distance[child] = kExitDistanceInfinite THEN kExitDistanceInfinite
        ELSE distance[child] + 1
Better(n, i, j) ==
    \/ MoveAt(n, i).eval > MoveAt(n, j).eval
    \/ MoveAt(n, i).eval = MoveAt(n, j).eval /\ MoveAt(n, i).move <= MoveAt(n, j).move

\* Mutant: any way out of the book, the best value first.
AnyExit(n, i, j) == ExitDistance(n, j) < kExitDistanceInfinite => Better(n, i, j)

Quicker(n, i, j) ==
    \/ ExitDistance(n, i) < ExitDistance(n, j)
    \/ ExitDistance(n, i) = ExitDistance(n, j) /\ Better(n, i, j)

ExitMoves(n) == {i \in Allowed(n) : i \in Plausible(n)}
SelectGoteMove(n) ==
    IF distance[n] # kExitDistanceInfinite
    THEN CHOOSE i \in ExitMoves(n) : ExitDistance(n, i) < kExitDistanceInfinite /\ \A j \in ExitMoves(n) : Quicker(n, i, j)
    ELSE CHOOSE i \in Plausible(n) : \A j \in Plausible(n) : Better(n, i, j)

(* The new book: one move for every position of Gote that has any.         *)
NewBook ==
    LET chosen == Sorted({n \in Nodes : IsGote(n) /\ Plausible(n) # {}})
    IN  [index |-> [i \in DOMAIN chosen |-> IndexEntry(Key(chosen[i]), i - 1, 1)],
         moves |-> [i \in DOMAIN chosen |-> MoveAt(chosen[i], SelectGoteMove(chosen[i]))]]

(* WriteOutput, a step for each call of the file system; all may fail.     *)
OnDisk(change) == disk' = change /\ UNCHANGED resolving /\ KeepSolver

CreateTemporary ==
    /\ pc = "write"
    /\ \/ disk.temporary = Nothing /\ Goto("fill") /\ OnDisk([disk EXCEPT !.temporary = Part])
       \/ Throw /\ OnDisk(disk)

FillTemporary ==
    /\ pc = "fill"
    /\ \/ Goto("keep") /\ OnDisk([disk EXCEPT !.temporary = File(NewBook)])
       \/ Throw /\ OnDisk(disk)

\* Mutant: two runs in one second have one backup.
SameBackup == 0

BackupPath == Min({s \in BackupNames : disk.backup[s] = Nothing})

KeepOld ==
    /\ pc = "keep"
    /\ \/ disk.output = Nothing /\ Goto("replace") /\ OnDisk(disk)
       \/ disk.output # Nothing /\ ~options.force
            /\ Throw /\ OnDisk([disk EXCEPT !.temporary = Nothing])
       \/ disk.output # Nothing /\ options.force
            /\ \/ Throw /\ OnDisk(disk)
               \/ Goto("replace")
                  /\ OnDisk([disk EXCEPT !.backup[BackupPath] = disk.output, !.output = Nothing,
                                         !.kept = {BackupPath}])

Replace ==
    /\ pc = "replace"
    /\ \/ Goto("finished") /\ OnDisk([disk EXCEPT !.output = disk.temporary, !.temporary = Nothing])
       \/ Goto("restore") /\ OnDisk(disk)

Restore ==
    /\ pc = "restore"
    /\ Throw
    /\ \/ OnDisk(disk)      \* no backup, an output again, or the second renaming fails as well
       \/ \E s \in disk.kept :
            /\ disk.output = Nothing
            /\ OnDisk([disk EXCEPT !.output = disk.backup[s], !.backup[s] = Nothing, !.kept = {}])

(* Another run has written the output meanwhile, or the process dies.      *)
OtherRun ==
    /\ pc \in {"resolve", "join", "seed", "solve", "write", "fill", "keep"} /\ disk.output = Nothing
    /\ OnDisk([disk EXCEPT !.output = Other("other")]) /\ UNCHANGED <<task, pc>>

Running == pc \notin {"finished", "error", "crashed"}
Crash == Running /\ Goto("crashed") /\ UNCHANGED <<resolving, disk>> /\ KeepSolver

Main == Validate \/ Poll \/ Join \/ StartSolver \/ PopNode \/ Solved \/ CreateTemporary
        \/ FillTemporary \/ KeepOld \/ Replace \/ Restore
Thread(w) == Running /\ (TestFailed(w) \/ Take(w) \/ Resolve(w))

Next == Main \/ (\E w \in Workers : Thread(w)) \/ OtherRun \/ Crash

Spec == Init /\ [][Next]_vars
(* The scheduler runs every thread; file system calls return.              *)
FairSpec == Spec /\ WF_vars(Main) /\ \A w \in Workers : WF_vars(Thread(w))

-----------------------------------------------------------------------------
(* Properties. *)

(* A distance that is set is the number of plies in which Gote forces an   *)
(* exit against every defence, and at the end all of them are set: no node *)
(* is fixed too early or forgotten, whatever cycles the book has.          *)
DistancesExact ==
    /\ pc \in {"solve", "write"} =>
        \A n \in Nodes : distance[n] # kExitDistanceInfinite => distance[n] = Distance(n)
    /\ pc = "write" => \A n \in Nodes : distance[n] = Distance(n)

(* The engine that follows the new book, through OpeningBook, leaves the   *)
(* source book from every position from which it can be left by force, in  *)
(* the least number of plies, with moves within the margin.                *)
Out(r) == \A n \in 1..NodeCount : Key(n) # r.to
NodeOf(r) == CHOOSE n \in 1..NodeCount : Key(n) = r.to
PolicyLeaves ==
    LET leaves[k \in 0..NodeCount] ==
            LET After(r) == Out(r) \/ NodeOf(r) \in leaves[k - 1]
                Follows(n, reply) ==
                    reply # NoMove /\ reply.eval >= BestEval(n) - options.margin /\ After(reply)
            IN  IF k = 0 THEN {}
                ELSE {n \in 1..NodeCount :
                        IF GoteToMove(n) THEN Follows(n, Probe(Content(disk.output), Key(n)))
                        ELSE \A i \in Plausible(n) : After(MoveAt(n, i))}
    IN  leaves
PolicyExits ==
    pc = "finished" =>
        /\ Loads(Content(disk.output))
        /\ \A n \in Nodes : Distance(n) # kExitDistanceInfinite => n \in PolicyLeaves[Distance(n)]

(* A probe of a book that was loaded and is sorted answers as a search of  *)
(* the whole file would: the best legal move of the position, if its       *)
(* record has one and its moves are all there.                             *)
ProbedFiles == IF pc = "start" THEN {book} ELSE IF pc = "finished" THEN {Content(disk.output)} ELSE {}
ProbeExact ==
    \A file \in ProbedFiles : Loads(file) /\ StrictlySorted(file) =>
        \A key \in Keys :
            LET answer == Probe(file, key)
                entries == {e \in ToSet(file.index) : e.key = key}
                whole == {e \in entries : e.off + e.count <= Len(file.moves)}
                own == UNION {{r \in {file.moves[e.off + i] : i \in 1..e.count} : r.kind = "legal"} : e \in whole}
            IN  IF own = {} THEN answer = NoMove
                ELSE answer \in own /\ \A r \in own : r.eval <= answer.eval

(* No step, and no failure of one, destroys a book: what was at the output *)
(* or in a backup is still at one of them, and the output is never a part  *)
(* of a book.                                                              *)
Kept(d) == ({d.output} \cup {d.backup[s] : s \in BackupNames}) \ {Nothing}
NothingLost == [][Kept(disk) \subseteq Kept(disk') /\ disk'.output # Part]_vars

(* The generator ends: its main thread does not wait for a thread that has *)
(* failed, nor for one that has nothing to do.                             *)
GeneratorEnds == <>~Running
=============================================================================
