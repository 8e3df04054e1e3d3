----------------------------- MODULE Workspace ------------------------------
(***************************************************************************)
(* The tools of a run and the workspace they work on: write_file, with its *)
(* temporary file and rename and the row recordFileWrite makes of it,      *)
(* read_file, and the commands of Shell.  Several runs share one workspace *)
(* and one database; nothing keeps them apart.                             *)
(*                                                                         *)
(* A name leads to an inode and an inode to a content, so that what two    *)
(* writers do to one temporary file, and what a reader that has opened a   *)
(* file gets after a rename, come out as on a file system.  A content is   *)
(* told apart by the call that wrote it.  A process may die at any point;  *)
(* what it wrote stays.  Paths are taken not to be a temporary name of     *)
(* another path, and commands not to change files.                         *)
(***************************************************************************)
EXTENDS Shell, Sequences

CONSTANTS Files,      \* the paths the tools are called with
          MaxCalls,   \* bound: tool calls of all runs
          MaxCommands,  \* bound: commands that are under way at once
          MaxFaults,  \* bound: system calls and inserts that fail
          MaxDeaths,  \* bound: processes that die
          None, Empty, Torn

Calls  == Runs \X (1..MaxCalls)
Inodes == Files \cup Calls     \* a path's first inode, or the call that made it

\* What an inode holds: what was there at first, what a call wrote, nothing, or
\* a mixture or a part.
Contents == Files \cup Calls \cup {Empty, Torn}

ASSUME WorkspaceAssumption ==
  /\ MaxCalls \in Nat /\ MaxCommands \in Nat /\ MaxFaults \in Nat /\ MaxDeaths \in Nat
  /\ None \notin Inodes /\ {Empty, Torn} \cap Inodes = {} /\ Files \cap Calls = {}

VARIABLES
  file,       \* path |-> the inode it names
  tmp,        \* path |-> the inode of path.tmp, or None
  content,    \* inode |-> the content of it
  call,       \* run |-> [at, path, n, fd, before]: the tool call it is making
  seen,       \* run |-> what it last read
  rows,       \* the file_changes rows in the order of their insertion
  dead,       \* runs whose process has ended
  made,       \* tool calls made so far
  faults,
  overlapped, \* history: paths written by two calls at once
  lost,       \* history: paths whose last write has no row
  refused     \* history: writes that were reported as failed

disk    == <<file, tmp, content>>
history == <<overlapped, lost, refused>>
vars    == <<shell, disk, call, made, seen, rows, dead, faults, history>>

\* The call r is making.
Id(r) == <<r, call[r].n>>

NoCall == [at |-> "idle", path |-> None, n |-> 0, fd |-> None, before |-> None]

Init ==
  /\ ShellInit
  /\ file = [f \in Files |-> f]
  /\ tmp = [f \in Files |-> None]
  /\ content = [i \in Inodes |-> IF i \in Files THEN i ELSE Empty]
  /\ call = [r \in Runs |-> NoCall]
  /\ seen = [r \in Runs |-> None]
  /\ rows = <<>> /\ dead = {} /\ made = 0 /\ faults = 0
  /\ overlapped = {} /\ lost = {} /\ refused = {}

-----------------------------------------------------------------------------
At(r, l)   == r \notin dead /\ call[r].at = l
Goto(r, l) == call' = [call EXCEPT ![r].at = l]

\* A system call or an insert that succeeds, and one that fails.
Works == UNCHANGED faults
Fails == faults < MaxFaults /\ faults' = faults + 1

\* A write is in progress from its first step to its row.
Writing(r, f) ==
  call[r].path = f
    /\ call[r].at \in {"open", "fill", "rename", "remove", "hash", "insert"}

\* The run's next tool call, of at most MaxCalls.
Dispatch(r, f, l, fd) ==
  /\ At(r, "idle") /\ made < MaxCalls /\ made' = made + 1
  /\ call' = [call EXCEPT ![r] = [at |-> l, path |-> f, n |-> @.n + 1, fd |-> fd,
                                  before |-> None]]

\* The arguments are valid, the parent directory is there or is made.
WriteFile(r) ==
  /\ \E f \in Files :
       /\ Dispatch(r, f, "open", None)
       /\ overlapped' = IF \E q \in Runs : Writing(q, f)
                          THEN overlapped \cup {f} ELSE overlapped
  /\ UNCHANGED <<shell, disk, seen, rows, dead, faults, lost, refused>>

\* A path outside the workspace, .git or .aetronyx, a missing argument: an error
\* before anything is touched.
RefuseWrite(r) ==
  /\ Dispatch(r, None, "idle", None)
  /\ UNCHANGED <<shell, disk, seen, rows, dead, faults, history>>

\* The tool's result is an error; nothing is recorded.
ReportError(r) == Goto(r, "idle") /\ refused' = refused \cup {Id(r)}

-----------------------------------------------------------------------------
(* os.WriteFile to the temporary name                                      *)

\* Mutant of OpenTmp: the file itself is opened.
OpenFile(r) ==
  LET f == call[r].path
  IN  /\ At(r, "open")
      /\ content' = [content EXCEPT ![file[f]] = Empty]
      /\ call' = [call EXCEPT ![r].at = "fill", ![r].fd = file[f]]
      /\ UNCHANGED <<file, tmp, refused>> /\ Works
      /\ UNCHANGED <<shell, seen, rows, dead, made, overlapped, lost>>

\* O_TRUNC | O_CREATE: a temporary file that is there is emptied, not replaced.
OpenTmp(r) ==
  LET f == call[r].path
      i == IF tmp[f] = None THEN Id(r) ELSE tmp[f]
  IN  /\ At(r, "open")
      /\ \/ /\ tmp' = [tmp EXCEPT ![f] = i]
            /\ content' = [content EXCEPT ![i] = Empty]
            /\ call' = [call EXCEPT ![r].at = "fill", ![r].fd = i]
            /\ UNCHANGED <<file, refused>> /\ Works
         \/ ReportError(r) /\ UNCHANGED disk /\ Fails
      /\ UNCHANGED <<shell, seen, rows, dead, made, overlapped, lost>>

\* Over what another writer has put there since, the longer content shows
\* through.  An error leaves the temporary file as it is.
Fill(r) ==
  LET i == call[r].fd
  IN  /\ At(r, "fill")
      /\ \/ /\ content' = [content EXCEPT ![i] = Id(r)]
            /\ Goto(r, "rename") /\ UNCHANGED refused /\ Works
         \/ /\ content[i] # Empty
            /\ content' = [content EXCEPT ![i] = Torn]
            /\ Goto(r, "rename") /\ UNCHANGED refused /\ Works
         \/ /\ content' = [content EXCEPT ![i] = Torn]
            /\ ReportError(r) /\ Fails
      /\ UNCHANGED <<shell, file, tmp, seen, rows, dead, made, overlapped, lost>>

\* os.Rename, of whatever has the temporary name by now.
Rename(r) ==
  LET f == call[r].path
  IN  /\ At(r, "rename")
      /\ \/ /\ tmp[f] # None
            /\ file' = [file EXCEPT ![f] = tmp[f]]
            /\ tmp' = [tmp EXCEPT ![f] = None]
            /\ Goto(r, "hash") /\ Works
         \/ /\ tmp[f] = None /\ Goto(r, "remove")
            /\ UNCHANGED <<file, tmp>> /\ Works
         \/ /\ Goto(r, "remove")
            /\ UNCHANGED <<file, tmp>> /\ Fails
      /\ UNCHANGED <<shell, content, seen, rows, dead, made, history>>

\* Mutant of RemoveTmp: the error of the rename is not returned.
RemoveUnreported(r) ==
  /\ At(r, "remove") /\ Goto(r, "hash")
  /\ tmp' = [tmp EXCEPT ![call[r].path] = None]
  /\ UNCHANGED <<shell, file, content, seen, rows, dead, made, faults, history>>

\* The rename failed: the temporary name goes, whoever's it is.
RemoveTmp(r) ==
  /\ At(r, "remove") /\ ReportError(r)
  /\ tmp' = [tmp EXCEPT ![call[r].path] = None]
  /\ UNCHANGED <<shell, file, content, seen, rows, dead, made, faults, overlapped, lost>>

-----------------------------------------------------------------------------
(* recordFileWrite, and read_file                                          *)

\* before_hash is taken here, when the write is over.
HashBefore(r) ==
  /\ At(r, "hash")
  /\ call' = [call EXCEPT ![r].at = "insert", ![r].before = content[file[call[r].path]]]
  /\ UNCHANGED <<shell, disk, seen, rows, dead, made, faults, history>>

\* The row has the hash of the content that was asked for.
Insert(r) ==
  LET f == call[r].path
  IN  /\ At(r, "insert") /\ Goto(r, "idle")
      /\ \/ /\ rows' = Append(rows, [path |-> f, before |-> call[r].before,
                                      after |-> Id(r)])
            /\ lost' = lost \ {f} /\ Works
         \/ lost' = lost \cup {f} /\ UNCHANGED rows /\ Fails
      /\ UNCHANGED <<shell, disk, seen, dead, made, overlapped, refused>>

\* os.ReadFile opens the file, and then reads what it has opened.
ReadFile(r) ==
  /\ \E f \in Files : Dispatch(r, f, "read", file[f])
  /\ UNCHANGED <<shell, disk, seen, rows, dead, faults, history>>

ReadOpened(r) ==
  /\ At(r, "read") /\ Goto(r, "idle")
  /\ seen' = [seen EXCEPT ![r] = [path |-> call[r].path, content |-> content[call[r].fd]]]
  /\ UNCHANGED <<shell, disk, rows, dead, made, faults, history>>

-----------------------------------------------------------------------------
(* Commands                                                                *)

AloneShell == UNCHANGED <<disk, seen, rows, dead, faults, history>>

RunCommand(r) ==
  /\ Cardinality({q \in Runs : sh[q].at # "idle"}) < MaxCommands
  /\ Dispatch(r, None, "command", None)
  /\ RunShell(r) \/ RunTestCommand(r)
  /\ AloneShell

\* What the run does to a command, and what only the world does.
Drive(r) ==
  /\ At(r, "command") /\ sh[r].at # "done"
  /\ Start(r) \/ Kill(r) \/ Reap(r) \/ PipesClosed(r) \/ Judge(r)
  /\ UNCHANGED <<call, made>> /\ AloneShell

CommandDone(r) ==
  /\ At(r, "command") /\ sh[r].at = "done" /\ Goto(r, "idle")
  /\ sh' = [sh EXCEPT ![r] = NoCommand] /\ UNCHANGED <<signalled, made>> /\ AloneShell

Outside(r) ==
  /\ r \notin dead
  /\ Exit(r) \/ Expire(r) \/ Signal(r) \/ BackgroundEnds(r)
  /\ UNCHANGED <<call, made>> /\ AloneShell

\* The process ends; a row it owed is never made.
Die(r) ==
  /\ r \notin dead /\ Cardinality(dead) < MaxDeaths
  /\ dead' = dead \cup {r}
  /\ lost' = IF call[r].at \in {"hash", "insert"} THEN lost \cup {call[r].path}
                                                 ELSE lost
  /\ sh' = [sh EXCEPT ![r] = NoCommand]
  /\ call' = [call EXCEPT ![r] = [NoCall EXCEPT !.n = call[r].n]]
  /\ UNCHANGED <<signalled, disk, made, seen, rows, faults, overlapped, refused>>

-----------------------------------------------------------------------------
Write(r) == OpenTmp(r) \/ Fill(r) \/ Rename(r) \/ RemoveTmp(r)
              \/ HashBefore(r) \/ Insert(r)

Next == \E r \in Runs :
  \/ WriteFile(r) \/ RefuseWrite(r) \/ Write(r)
  \/ ReadFile(r) \/ ReadOpened(r)
  \/ RunCommand(r) \/ Drive(r) \/ CommandDone(r)
  \/ Outside(r) \/ Die(r)

Spec == Init /\ [][Next]_vars

\* A process that is alive goes on, its context's watcher included, and the
\* clock reaches every deadline.  Commands need not end.
Fairness ==
  \A r \in Runs :
    /\ WF_vars(Write(r) \/ ReadOpened(r) \/ CommandDone(r))
    /\ WF_vars(Drive(r))
    /\ WF_vars(Expire(r) /\ r \notin dead /\ UNCHANGED <<call, made>> /\ AloneShell)

FairSpec == Spec /\ Fairness

-----------------------------------------------------------------------------
ToolCall ==
  [at : {"idle", "open", "fill", "rename", "remove", "hash", "insert", "read",
         "command"},
   path : Files \cup {None}, n : 0..MaxCalls,
   fd : Inodes \cup {None}, before : Contents \cup {None}]
Reading == [path : Files, content : Contents]
Row     == [path : Files, before : Contents, after : Calls]

TypeOK ==
  /\ sh \in [Runs -> Command] /\ signalled \subseteq Runs
  /\ file \in [Files -> Inodes]
  /\ tmp \in [Files -> Inodes \cup {None}]
  /\ content \in [Inodes -> Contents]
  /\ call \in [Runs -> ToolCall]
  /\ seen \in [Runs -> Reading \cup {None}]
  /\ rows \in Seq(Row)
  /\ dead \subseteq Runs /\ made \in 0..MaxCalls /\ faults \in 0..MaxFaults
  /\ overlapped \subseteq Files /\ lost \subseteq Files /\ refused \subseteq Calls

Whole(f, c) == c = f \/ c \in Calls \ refused

\* A file that no two calls write at once is at every moment, and for whoever
\* has it open, a whole version: the first one or one asked for by a write that
\* was not reported as failed.  Neither a death nor an error in the middle of a
\* write nor a temporary file left behind shows in it (writeFile: "Atomic
\* write: write to temp file, then rename").
WholeVersions ==
  /\ \A f \in Files \ overlapped : Whole(f, content[file[f]])
  /\ \A r \in Runs : seen[r] # None /\ seen[r].path \notin overlapped =>
       Whole(seen[r].path, seen[r].content)

\* The newest row of f has the hash of c, or f has no row and c is what was there
\* at first.
Recorded(f, c) ==
  \/ c = f /\ \A i \in DOMAIN rows : rows[i].path # f
  \/ \E i \in DOMAIN rows :
       /\ rows[i].path = f /\ rows[i].after = c
       /\ \A j \in DOMAIN rows : j > i => rows[j].path # f

\* When no write of a file is in progress, was lost or overlapped another, the
\* newest file_changes row of it, of whatever run, has the hash of what the file
\* holds, and a file without rows holds what it did at first.
HistoryReplays ==
  \A f \in Files \ (overlapped \cup lost) :
    (\A r \in Runs : ~Writing(r, f)) => Recorded(f, content[file[f]])

\* What is returned of a command, and logged of a tool's, is what happened:
\* success only of one that exited with 0, or, as a tool, was never started;
\* failure only of one that failed, was killed or, as a test, was interrupted or
\* never started; and one killed at its deadline is reported as timed out.  The
\* model hears of the timeout, and of every test that did not succeed; but of a
\* tool's command that failed before its deadline it gets the output alone, as
\* of one that succeeded (runShell, runTestCommand, dispatchToolUse).
ShellResultIsTrue ==
  \A r \in Runs : sh[r].at = "done" =>
    LET c == sh[r]
    IN  /\ c.result = "ok" => c.child = "exit0" \/ (c.child = "none" /\ c.kind = "tool")
        /\ c.result = "failed" => \/ c.child \in {"exit1", "killed"}
                                  \/ c.kind = "test" /\ (c.child = "none" \/ c.watch # "none")
        /\ c.result = "timeout" => c.kind = "tool" /\ c.ctx = "deadline"
        /\ c.child = "killed" /\ c.ctx = "deadline" => c.result = "timeout" /\ c.told = "error"
        /\ c.kind = "test" /\ c.child # "exit0" => c.told = "error"
        /\ c.kind = "tool" /\ c.child # "none" /\ c.ctx # "deadline" => c.told = "output"

\* A tool call ends by its deadline, and a test contract once its run is
\* interrupted, however long the command would go on; unless a process left in
\* the background keeps the output open, and then when that ends.
Over(r) == r \in dead \/ sh[r].at = "done"
CommandsReturn ==
  \A r \in Runs :
    /\ (Busy(r) /\ (sh[r].kind = "tool" \/ r \in signalled)) ~> (Over(r) \/ sh[r].held)
    /\ (sh[r].at = "pipes" /\ ~sh[r].held) ~> Over(r)
=============================================================================
