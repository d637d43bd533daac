---------------------------- MODULE DaemonStart ----------------------------
(***************************************************************************)
(* Daemon::main() up to the main loop (src/JsCPPUtils/Daemon.cpp:79-311):  *)
(* the options, the fork, the pid file, the groups of /etc/group, the log  *)
(* file and the change of user.  After the fork the parent writes the pid  *)
(* file while the child goes on; either may be ahead.  Hardly any result   *)
(* is looked at.  The service is started again when it has ended, and the  *)
(* pid file is still there then.                                           *)
(*                                                                         *)
(* A user's name stands for its uid and for its primary gid, too.          *)
(***************************************************************************)
EXTENDS Integers, Sequences, Functions

CONSTANTS
  CommandLines,  \* the command lines to look at: sequences of words
  GroupFiles,    \* the contents of /etc/group to look at: sequences of lines
  Known,         \* the users that getpwnam_r() finds
  Starters,      \* the users that may start the program
  Root,          \* the one of them that may change its identity
  NoValue,       \* a null pointer, an absent value, and the uid -1
  MaxGroups,     \* the length of grouplist[]: 64
  MaxStarts      \* bound: how often the service is started

ASSUME LimitsAssumption == MaxGroups \in Nat /\ MaxStarts \in Nat \ {0}
ASSUME NoValueAssumption == NoValue \notin Known
ASSUME InputsAssumption == /\ \A words \in CommandLines : Len(words) \in Nat
                           /\ \A lines \in GroupFiles : Len(lines) \in Nat
                           /\ Root \in Starters

VARIABLES
  argv,      \* the words after the program's name
  index,     \* the option loop's index into it
  opts,      \* daemon, pidfile, user, uid, logfile as the loop has set them
  etcgroup,  \* /etc/group
  line,      \* the next line of it
  grouplist, \* the groups found
  starter,   \* the user that has started the program
  id,        \* the identity of the process: uid, gid, groups
  pc,        \* where the process is that goes on: the child, after a fork
  parent,    \* where the parent is, if there is one
  started,   \* how often the service has been started; stands for a pid
  pidfile,   \* what the pid file holds
  pidfailed, \* history: this start's parent could not open or write the pid file
  logowner   \* the owner of the log file

options == <<argv, index, opts>>
identity == <<etcgroup, line, grouplist, starter, id, logowner>>
files == <<started, pidfile, pidfailed>>
vars == <<options, identity, pc, parent, files>>

NoFile == 0
Emptied == -1

NoOptions == [daemon |-> FALSE, pidfile |-> NoValue, user |-> NoValue,
              uid |-> NoValue, logfile |-> NoValue]

Identity(u) == [uid |-> u, gid |-> u, groups |-> <<>>]

\* A start of the program, with any command line and as any user.
Begin(n) == /\ argv' \in CommandLines
            /\ index' = 1
            /\ opts' = NoOptions
            /\ etcgroup' \in GroupFiles
            /\ line' = 1
            /\ grouplist' = <<>>
            /\ starter' \in Starters
            /\ id' = Identity(starter')
            /\ pc' = "options"
            /\ parent' = "none"
            /\ started' = n
            /\ pidfailed' = FALSE
            /\ logowner' = NoValue

Init == /\ argv = <<>> /\ index = 1 /\ opts = NoOptions
        /\ etcgroup = <<>> /\ line = 1 /\ grouplist = <<>>
        /\ starter = Root /\ id = Identity(Root)
        /\ pc = "ended" /\ parent = "none"
        /\ started = 0 /\ pidfile = NoFile /\ pidfailed = FALSE
        /\ logowner = NoValue

Start == /\ pc \in {"ended", "crashed"}
         /\ parent \in {"none", "exited"}
         /\ started < MaxStarts
         /\ Begin(started + 1)
         /\ UNCHANGED pidfile

-----------------------------------------------------------------------------
\* A word of the command line is "name" or "name=value"; as the value of the
\* option before it, it is its name, or a text that names nobody.
Word == argv[index]
TextOf(word) == IF word.value = NoValue THEN word.name ELSE "text"

ValueOptions == {"--pidfile", "--user", "--logfile"}

AtWord == pc = "options" /\ index <= Len(argv)

\* -D
DaemonOption == /\ AtWord
                /\ Word.name = "-D" /\ Word.value = NoValue
                /\ opts' = [opts EXCEPT !.daemon = TRUE]
                /\ index' = index + 1
                /\ UNCHANGED <<argv, identity, pc, parent, files>>

\* What a value option leaves in the local variables.  An unknown user's name
\* is kept, but the uid stays what it was.
With(o, name, value) ==
  CASE name = "--pidfile" -> [o EXCEPT !.pidfile = value]
    [] name = "--logfile" -> [o EXCEPT !.logfile = value]
    [] name = "--user" /\ value \in Known -> [o EXCEPT !.user = value, !.uid = value]
    [] name = "--user" /\ value \notin Known -> [o EXCEPT !.user = value]

\* --name=value, or --name and the next word.
ValueOption ==
  /\ AtWord
  /\ Word.name \in ValueOptions
  /\ \/ /\ Word.value # NoValue
        /\ opts' = With(opts, Word.name, Word.value)
        /\ index' = index + 1
     \/ /\ Word.value = NoValue
        /\ index < Len(argv)
        /\ opts' = With(opts, Word.name, TextOf(argv[index + 1]))
        /\ index' = index + 2
  /\ UNCHANGED <<argv, identity, pc, parent, files>>

\* A value option as the last word takes the null pointer behind argv.  argc2
\* is counted down past 0, so the loop goes on through the environment to the
\* next null pointer and compares it.
ValueMissing == /\ AtWord
                /\ Word.name \in ValueOptions /\ Word.value = NoValue
                /\ index = Len(argv)
                /\ pc' = "crashed"
                /\ UNCHANGED <<options, identity, parent, files>>

HelpOption == /\ AtWord
              /\ Word.name = "--help" /\ Word.value = NoValue
              /\ pc' = "ended"
              /\ UNCHANGED <<options, identity, parent, files>>

OtherWord == /\ AtWord
             /\ Word.name \notin ValueOptions
             /\ Word.name \notin {"-D", "--help"} \/ Word.value # NoValue
             /\ index' = index + 1
             /\ UNCHANGED <<argv, opts, identity, pc, parent, files>>

EndOfOptions == /\ pc = "options"
                /\ index > Len(argv)
                /\ pc' = IF opts.daemon THEN "fork" ELSE "log"
                /\ UNCHANGED <<options, identity, parent, files>>

-----------------------------------------------------------------------------
Fork == /\ pc = "fork"
        /\ pc' = "log"
        /\ parent' = "forked"
        /\ UNCHANGED <<options, identity, files>>

ForkFails == /\ pc = "fork"
             /\ pc' = "ended"
             /\ UNCHANGED <<options, identity, parent, files>>

\* Mutant: the parent leaves the pid file to the child.
ParentLeavesAtOnce == /\ parent = "forked"
                      /\ parent' = "exited"
                      /\ UNCHANGED <<options, identity, pc, files>>

\* The parent: fopen(arg_pidfile, "wt") empties the file, or fails.
OpenPidFile == /\ parent = "forked"
               /\ \/ /\ opts.pidfile = NoValue
                     /\ parent' = "exited"
                     /\ UNCHANGED <<pidfile, pidfailed>>
                  \/ /\ opts.pidfile # NoValue
                     /\ parent' = "exited"
                     /\ pidfailed' = TRUE
                     /\ UNCHANGED pidfile
                  \/ /\ opts.pidfile # NoValue
                     /\ parent' = "writing"
                     /\ pidfile' = Emptied
                     /\ UNCHANGED pidfailed
               /\ UNCHANGED <<options, identity, pc, started>>

\* fprintf() of the child's pid, fclose(), return 0; whether the file could be
\* written is not looked at.
WritePidFile == /\ parent = "writing"
                /\ \/ pidfile' = started /\ UNCHANGED pidfailed
                   \/ pidfailed' = TRUE /\ UNCHANGED pidfile
                /\ parent' = "exited"
                /\ UNCHANGED <<options, identity, pc, started>>

-----------------------------------------------------------------------------
\* new Logger(TYPE_FILE, ...): the file is created by whoever the process is.
OpenLog == /\ pc = "log"
           /\ logowner' = IF opts.logfile = NoValue THEN NoValue ELSE id.uid
           /\ pc' = IF opts.uid = NoValue THEN "startup" ELSE "group"
           /\ UNCHANGED <<options, etcgroup, line, grouplist, starter, id, parent, files>>

OpenGroupFile == /\ pc = "group"
                 /\ pc' \in {"lines", "ended"}
                 /\ UNCHANGED <<options, identity, parent, files>>

AtLine == pc = "lines" /\ line <= Len(etcgroup)

\* Mutant: the limit is tested with > instead of >=.
GroupLineOneMore ==
  /\ AtLine
  /\ etcgroup[line].plain
  /\ grouplist' = IF opts.user \in etcgroup[line].members /\ Len(grouplist) <= MaxGroups
                  THEN Append(grouplist, etcgroup[line].gid) ELSE grouplist
  /\ line' = line + 1
  /\ UNCHANGED <<options, etcgroup, starter, id, logowner, pc, parent, files>>

\* A line that lists the user adds its group, up to the limit.
GroupLine ==
  /\ AtLine
  /\ etcgroup[line].plain
  /\ grouplist' = IF opts.user \in etcgroup[line].members /\ Len(grouplist) < MaxGroups
                  THEN Append(grouplist, etcgroup[line].gid) ELSE grouplist
  /\ line' = line + 1
  /\ UNCHANGED <<options, etcgroup, starter, id, logowner, pc, parent, files>>

\* A line that has not its four fields in strbuf[256] makes strtok_r() return a
\* null pointer, which is then read.
GroupLineUnreadable == /\ AtLine
                       /\ ~etcgroup[line].plain
                       /\ pc' = "crashed"
                       /\ UNCHANGED <<options, identity, parent, files>>

\* The kernel's part: only the superuser may change groups, gid or uid.
SetGroups(i, groups) == IF i.uid = Root THEN [i EXCEPT !.groups = groups] ELSE i
SetGid(i, gid) == IF i.uid = Root THEN [i EXCEPT !.gid = gid] ELSE i
SetUid(i, uid) == IF i.uid = Root THEN [i EXCEPT !.uid = uid] ELSE i

\* At the end of the file: chown() of the log file, and setgroups().
TakeGroups == /\ pc = "lines"
              /\ line > Len(etcgroup)
              /\ logowner' = IF opts.logfile # NoValue /\ id.uid = Root THEN opts.uid
                             ELSE logowner
              /\ id' = SetGroups(id, grouplist)
              /\ pc' = "startup"
              /\ UNCHANGED <<options, etcgroup, line, grouplist, starter, parent, files>>

\* Mutant: setuid() before setgid().
EnterMainLoopUidFirst ==
  /\ pc = "startup"
  /\ id' = IF opts.uid = NoValue THEN id ELSE SetGid(SetUid(id, opts.uid), opts.uid)
  /\ pc' = "running"
  /\ UNCHANGED <<options, etcgroup, line, grouplist, starter, logowner, parent, files>>

\* The startup callback, which returns 0, then setgid() and setuid(), and on
\* into the main loop; RunStatus has what follows.
EnterMainLoop ==
  /\ pc = "startup"
  /\ id' = IF opts.uid = NoValue THEN id ELSE SetUid(SetGid(id, opts.uid), opts.uid)
  /\ pc' = "running"
  /\ UNCHANGED <<options, etcgroup, line, grouplist, starter, logowner, parent, files>>

\* The daemon ends, or is killed at any time after the fork.
End == /\ pc = "running" \/ (parent # "none" /\ pc \notin {"ended", "crashed"})
       /\ pc' = "ended"
       /\ UNCHANGED <<options, identity, parent, files>>

Options == \/ DaemonOption \/ ValueOption \/ ValueMissing \/ HelpOption
           \/ OtherWord \/ EndOfOptions

Next == \/ Start \/ Options \/ Fork \/ ForkFails \/ OpenPidFile \/ WritePidFile
        \/ OpenLog \/ OpenGroupFile \/ GroupLine \/ GroupLineUnreadable
        \/ TakeGroups \/ EnterMainLoop \/ End

Spec == Init /\ [][Next]_vars

-----------------------------------------------------------------------------
TypeOK == /\ index \in 1 .. Len(argv) + 1
          /\ opts.daemon \in BOOLEAN /\ opts.uid \in Known \cup {NoValue}
          /\ line \in 1 .. Len(etcgroup) + 1 /\ Len(grouplist) <= MaxGroups
          /\ id.uid \in Known \cup Starters /\ id.gid \in Known \cup Starters
          /\ pc \in {"options", "fork", "log", "group", "lines", "startup", "running",
                    "ended", "crashed"}
          /\ parent \in {"none", "forked", "writing", "exited"}
          /\ started \in 0..MaxStarts /\ pidfile \in Emptied..MaxStarts
          /\ pidfailed \in BOOLEAN
          /\ logowner \in Known \cup Starters \cup {NoValue}

\* groups holds what the first n lines of /etc/group list for the user, or as
\* many of these groups as there is room for.
HoldsGroups(groups, n) ==
  LET listed == {etcgroup[l].gid : l \in {l \in 1..n : opts.user \in etcgroup[l].members}}
  IN \/ Range(groups) = listed
     \/ Range(groups) \subseteq listed /\ Len(groups) = MaxGroups

\* The main loop runs with the uid, the gid and the log file of one known user
\* that was asked for, and with all the groups that are listed for the name that
\* was asked for last, among them the one that may open the bus; these are one
\* and the same user if the last name is known.  Where nobody known was asked for
\* or the starter may not change its identity, it runs wholly as its starter.
\* That holds for every command line, in whatever order and form the options
\* come: with an unknown name after a known one, too, nothing of the starter is
\* left, but the groups are those listed for the unknown name.  A program that
\* dies of its command line or of /etc/group on the way has not begun to change.
IdentityIsWhole ==
  /\ pc = "running" =>
       /\ starter = Root /\ opts.uid # NoValue =>
            /\ id.uid = opts.uid /\ id.gid = opts.uid
            /\ HoldsGroups(id.groups, Len(etcgroup))
            /\ opts.logfile # NoValue => logowner = opts.uid
       /\ opts.user \in Known => opts.uid = opts.user
       /\ starter # Root \/ opts.uid = NoValue => id = Identity(starter)
  /\ pc = "crashed" => id = Identity(starter)

\* When the parent has ended, which is when the service counts as started, the
\* pid file names the child of this start and no earlier one, however far the
\* child has got, unless the file could not be opened or written.
PidFileIsCurrent ==
  parent = "exited" /\ opts.pidfile # NoValue => pidfile = started \/ pidfailed
=============================================================================
