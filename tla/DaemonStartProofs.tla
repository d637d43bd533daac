------------------------- MODULE DaemonStartProofs -------------------------
(***************************************************************************)
(* Proofs about DaemonStart for any command lines, users and files, and    *)
(* any number of starts.                                                   *)
(***************************************************************************)
EXTENDS DaemonStart, TLAPS

\* There is no parent while the options are still being read, so they are the
\* same for parent and child.
ForkedAfterOptions == pc \in {"options", "fork"} => parent = "none"

\* The inductive invariant.
IInv == ForkedAfterOptions /\ PidFileIsCurrent

-----------------------------------------------------------------------------
LEMMA NextKeepsIInv == IInv /\ [Next]_vars => IInv'
<1> SUFFICES ASSUME IInv, [Next]_vars PROVE IInv'
  OBVIOUS
<1> USE DEF IInv, ForkedAfterOptions, PidFileIsCurrent
<1>1. CASE UNCHANGED vars
  BY <1>1 DEF vars, options, identity, files
<1>2. CASE Start
  BY <1>2 DEF Start, Begin
<1>3. CASE Options
  BY <1>3 DEF Options, DaemonOption, ValueOption, ValueMissing, HelpOption, OtherWord,
              EndOfOptions, AtWord, options, identity, files
<1>4. CASE Fork \/ ForkFails
  BY <1>4 DEF Fork, ForkFails, options, identity, files
<1>5. CASE OpenPidFile
  BY <1>5 DEF OpenPidFile, options, identity, files
<1>6. CASE WritePidFile
  BY <1>6 DEF WritePidFile, options, identity, files
<1>7. CASE OpenLog \/ OpenGroupFile
  BY <1>7 DEF OpenLog, OpenGroupFile, options, identity, files
<1>8. CASE GroupLine \/ GroupLineUnreadable \/ TakeGroups
  BY <1>8 DEF GroupLine, GroupLineUnreadable, TakeGroups, AtLine, options, identity, files
<1>9. CASE EnterMainLoop \/ End
  BY <1>9 DEF EnterMainLoop, End, options, identity, files
<1> QED
  BY <1>1, <1>2, <1>3, <1>4, <1>5, <1>6, <1>7, <1>8, <1>9 DEF Next

\* When the parent has ended the pid file names the child of this start, for any
\* number of starts and however they ended.
THEOREM PidFileIsCurrentHolds == Spec => []PidFileIsCurrent
<1>1. Init => IInv
  BY DEF Init, IInv, ForkedAfterOptions, PidFileIsCurrent
<1>2. IInv => PidFileIsCurrent
  BY DEF IInv
<1> QED BY <1>1, <1>2, NextKeepsIInv, PTL DEF Spec

-----------------------------------------------------------------------------
Before == {"options", "fork", "log", "group", "lines", "crashed"}

\* The fields that every record of the options, or of an identity, has.
Records ==
  /\ opts = [daemon |-> opts.daemon, pidfile |-> opts.pidfile, user |-> opts.user,
             uid |-> opts.uid, logfile |-> opts.logfile]
  /\ id = [uid |-> id.uid, gid |-> id.gid, groups |-> id.groups]

Gids == {etcgroup[l].gid : l \in 1 .. Len(etcgroup)}

Shapes == /\ Len(argv) \in Nat /\ Len(etcgroup) \in Nat
          /\ grouplist \in Seq(Gids)
          /\ Records
          /\ starter \in Starters

\* The user's name and its uid are of one user, when the name is known.
NameAgrees == opts.user \in Known => opts.uid = opts.user

\* The groups found so far, in a process that has still its starter's identity.
Unchanged ==
  /\ pc \in Before => id = Identity(starter)
  /\ pc \in {"options", "fork", "log", "group"} => line = 1 /\ grouplist = <<>>
  /\ pc \in {"group", "lines"} => opts.uid # NoValue
  /\ pc = "lines" => HoldsGroups(grouplist, line - 1)

\* Before the callback: the groups are the user's, the rest the starter's.
GroupsTaken ==
  pc = "startup" =>
    /\ starter # Root \/ opts.uid = NoValue => id = Identity(starter)
    /\ starter = Root /\ opts.uid # NoValue =>
         /\ id.uid = Root /\ id.gid = Root
         /\ HoldsGroups(id.groups, Len(etcgroup))
         /\ opts.logfile # NoValue => logowner = opts.uid

\* The inductive invariant for types and identity.
IdInv == TypeOK /\ Shapes /\ NameAgrees /\ Unchanged /\ GroupsTaken /\ IdentityIsWhole

LEMMA RangeOfAppend ==
  ASSUME NEW S, NEW s \in Seq(S), NEW x PROVE Range(Append(s, x)) = Range(s) \cup {x}
<1> DEFINE t == Append(s, x)
<1>1. /\ DOMAIN s = 1 .. Len(s) /\ Len(s) \in Nat
      /\ DOMAIN t = 1 .. Len(s) + 1
      /\ t[Len(s) + 1] = x /\ \A n \in 1 .. Len(s) : t[n] = s[n]
  OBVIOUS
<1> HIDE DEF t
<1>2. 1 .. Len(s) + 1 = (1 .. Len(s)) \cup {Len(s) + 1} BY <1>1
<1>3. Range(t) = Range(s) \cup {x} BY <1>1, <1>2 DEF Range
<1> QED BY <1>3 DEF t

\* What the first n + 1 lines list.
LEMMA OneMoreLine ==
  ASSUME NEW n \in Nat, NEW u
  PROVE LET Groups(k) == {etcgroup[l].gid : l \in {l \in 1..k : u \in etcgroup[l].members}}
        IN Groups(n + 1) = Groups(n) \cup
             (IF u \in etcgroup[n + 1].members THEN {etcgroup[n + 1].gid} ELSE {})
<1>1. 1 .. n + 1 = (1..n) \cup {n + 1} OBVIOUS
<1> QED BY <1>1

LEMMA GroupLineKeeps ==
  ASSUME IdInv, GroupLine
  PROVE HoldsGroups(grouplist, line - 1)' /\ grouplist' \in Seq(Gids)
        /\ Len(grouplist') <= MaxGroups
<1> DEFINE G == Gids
<1> DEFINE g == etcgroup[line].gid
<1> DEFINE Groups(k) ==
      {etcgroup[l].gid : l \in {l \in 1..k : opts.user \in etcgroup[l].members}}
<1>1. /\ line \in 1 .. Len(etcgroup) /\ Len(etcgroup) \in Nat /\ grouplist \in Seq(G)
      /\ HoldsGroups(grouplist, line - 1) /\ Len(grouplist) <= MaxGroups
      /\ line' = line + 1 /\ etcgroup' = etcgroup /\ opts' = opts /\ g \in G
  BY DEF IdInv, TypeOK, Shapes, Unchanged, GroupLine, AtLine, options, Gids
<1>2. Groups(line) = Groups(line - 1) \cup
        (IF opts.user \in etcgroup[line].members THEN {g} ELSE {})
  <2>1. line - 1 \in Nat /\ line - 1 + 1 = line BY <1>1
  <2> QED BY <2>1, OneMoreLine
<1>3. \/ Range(grouplist) = Groups(line - 1)
      \/ Range(grouplist) \subseteq Groups(line - 1) /\ Len(grouplist) = MaxGroups
  BY <1>1 DEF HoldsGroups
<1>4. HoldsGroups(grouplist, line - 1)' =
        \/ Range(grouplist') = Groups(line)
        \/ Range(grouplist') \subseteq Groups(line) /\ Len(grouplist') = MaxGroups
  <2>1. line' - 1 = line BY <1>1
  <2> QED BY <1>1, <2>1 DEF HoldsGroups, Range
<1> HIDE DEF Groups, g, G
<1>5. CASE opts.user \in etcgroup[line].members /\ Len(grouplist) < MaxGroups
  <2>1. grouplist' = Append(grouplist, g) BY <1>5 DEF GroupLine, g
  <2>2. Range(grouplist') = Range(grouplist) \cup {g} BY <1>1, <2>1, RangeOfAppend
  <2>3. Len(grouplist') = Len(grouplist) + 1 /\ grouplist' \in Seq(G) /\ Len(grouplist) \in Nat
    BY <1>1, <2>1
  <2>4. Range(grouplist) = Groups(line - 1) BY <1>3, <1>5, LimitsAssumption, <2>3
  <2>5. HoldsGroups(grouplist, line - 1)' BY <1>2, <1>4, <1>5, <2>2, <2>4
  <2> QED BY <1>5, <2>3, <2>5, LimitsAssumption DEF G
<1>6. CASE ~(opts.user \in etcgroup[line].members /\ Len(grouplist) < MaxGroups)
  <2>1. grouplist' = grouplist BY <1>6 DEF GroupLine
  <2>2. Len(grouplist) \in Nat BY <1>1
  <2>3. opts.user \in etcgroup[line].members => Len(grouplist) = MaxGroups
    BY <1>1, <1>6, <2>2, LimitsAssumption
  <2>4. HoldsGroups(grouplist, line - 1)' BY <1>2, <1>3, <1>4, <2>1, <2>3
  <2> QED BY <1>1, <2>1, <2>4 DEF G
<1> QED BY <1>5, <1>6

LEMMA IdInitially == Init => IdInv
<1> SUFFICES ASSUME Init PROVE IdInv OBVIOUS
<1> USE LimitsAssumption, InputsAssumption, NoValueAssumption
<1>1. TypeOK
  <2>1. index \in 1 .. Len(argv) + 1 /\ line \in 1 .. Len(etcgroup) + 1
    BY DEF Init
  <2>2. Len(grouplist) <= MaxGroups BY DEF Init
  <2>3. started \in 0..MaxStarts /\ pidfile \in Emptied..MaxStarts
    BY DEF Init, NoFile, Emptied
  <2>4. opts.daemon \in BOOLEAN /\ opts.uid \in Known \cup {NoValue} BY DEF Init, NoOptions
  <2>5. id.uid \in Known \cup Starters /\ id.gid \in Known \cup Starters
    BY DEF Init, Identity
  <2> QED BY <2>1, <2>2, <2>3, <2>4, <2>5 DEF Init, TypeOK
<1>2. Shapes BY DEF Init, Shapes, Records, NoOptions, Identity
<1>3. NameAgrees BY DEF Init, NameAgrees, NoOptions
<1>4. Unchanged /\ GroupsTaken /\ IdentityIsWhole
  BY DEF Init, Unchanged, Before, GroupsTaken, IdentityIsWhole
<1> QED BY <1>1, <1>2, <1>3, <1>4 DEF IdInv

\* A step that leaves the files, the options and the identity alone.
LEMMA OnlyPlaceChanges ==
  ASSUME IdInv, UNCHANGED <<options, identity>>
  PROVE Shapes' /\ NameAgrees'
BY DEF IdInv, Shapes, Records, NameAgrees, Gids, options, identity

\* The loop over the options changes them, but nothing else.
LEMMA OptionsKeep == ASSUME IdInv, Options PROVE IdInv'
<1> USE DEF IdInv, TypeOK
<1>1. UNCHANGED <<identity, parent, files, argv>> /\ pc = "options"
  BY DEF Options, DaemonOption, ValueOption, ValueMissing, HelpOption, OtherWord,
         EndOfOptions, AtWord, options
<1>2. opts.daemon \in BOOLEAN /\ opts.uid \in Known \cup {NoValue} /\ Records /\ NameAgrees
  BY DEF Shapes
<1>3. /\ opts'.daemon \in BOOLEAN /\ opts'.uid \in Known \cup {NoValue}
      /\ opts' = [daemon |-> opts'.daemon, pidfile |-> opts'.pidfile, user |-> opts'.user,
                  uid |-> opts'.uid, logfile |-> opts'.logfile]
      /\ NameAgrees'
  <2>1. CASE UNCHANGED opts BY <1>2, <2>1 DEF Records, NameAgrees
  <2>2. CASE DaemonOption BY <1>2, <2>2 DEF DaemonOption, Records, NameAgrees
  <2>3. ASSUME NEW v, AtWord, Word.name \in ValueOptions, opts' = With(opts, Word.name, v)
        PROVE <1>3!:
    <3>1. CASE Word.name = "--user" /\ v \in Known
      BY <1>2, <2>3, <3>1 DEF With, Records, NameAgrees
    <3>2. CASE Word.name = "--user" /\ v \notin Known
      BY <1>2, <2>3, <3>2 DEF With, Records, NameAgrees
    <3>3. CASE Word.name = "--pidfile" \/ Word.name = "--logfile"
      BY <1>2, <2>3, <3>3 DEF With, Records, NameAgrees
    <3> QED BY <2>3, <3>1, <3>2, <3>3 DEF ValueOptions
  <2>4. CASE ValueOption BY <2>3, <2>4 DEF ValueOption
  <2> QED BY <2>1, <2>2, <2>4 DEF Options, ValueMissing, HelpOption, OtherWord,
         EndOfOptions, options
<1>4. index' \in 1 .. Len(argv) + 1
  BY DEF Options, DaemonOption, ValueOption, ValueMissing, HelpOption, OtherWord,
         EndOfOptions, AtWord, options, Shapes
<1>5. pc' \in {"options", "fork", "log", "ended", "crashed"}
  BY <1>1 DEF Options, DaemonOption, ValueOption, ValueMissing, HelpOption, OtherWord,
         EndOfOptions
<1>6. TypeOK' BY <1>1, <1>3, <1>4, <1>5 DEF identity, files
<1>7. Shapes' BY <1>1, <1>3 DEF Shapes, Records, Gids, identity
<1>8. Unchanged' BY <1>1, <1>5 DEF Unchanged, Before, Identity, identity
<1>9. GroupsTaken' /\ IdentityIsWhole'
  BY <1>1, <1>5 DEF GroupsTaken, IdentityIsWhole, Unchanged, Before, Identity, identity
<1> QED BY <1>3, <1>6, <1>7, <1>8, <1>9

\* A start begins everything anew but the count of starts and the pid file.
LEMMA StartKeeps == ASSUME IdInv, Start PROVE IdInv'
<1> USE LimitsAssumption, InputsAssumption, NoValueAssumption
<1>1. /\ argv' \in CommandLines /\ index' = 1 /\ opts' = NoOptions
      /\ etcgroup' \in GroupFiles /\ line' = 1 /\ grouplist' = <<>>
      /\ starter' \in Starters /\ id' = Identity(starter') /\ pc' = "options"
      /\ parent' = "none" /\ pidfailed' = FALSE /\ logowner' = NoValue
      /\ pidfile' = pidfile /\ started' = started + 1 /\ started < MaxStarts
  BY DEF Start, Begin
<1>2. TypeOK'
  <2>1. (index \in 1 .. Len(argv) + 1)' /\ (line \in 1 .. Len(etcgroup) + 1)'
    BY <1>1
  <2>2. Len(grouplist') <= MaxGroups BY <1>1
  <2>3. started' \in 0..MaxStarts /\ pidfile' \in Emptied..MaxStarts
    BY <1>1 DEF IdInv, TypeOK
  <2>4. opts'.daemon \in BOOLEAN /\ opts'.uid \in Known \cup {NoValue}
    BY <1>1 DEF NoOptions
  <2>5. id'.uid \in Known \cup Starters /\ id'.gid \in Known \cup Starters
    BY <1>1 DEF Identity
  <2> QED BY <1>1, <2>1, <2>2, <2>3, <2>4, <2>5 DEF TypeOK
<1>3. Shapes'
  <2>1. Len(argv') \in Nat /\ Len(etcgroup') \in Nat BY <1>1
  <2>2. (grouplist \in Seq(Gids))' BY <1>1
  <2>3. Records' BY <1>1 DEF Records, NoOptions, Identity
  <2> QED BY <1>1, <2>1, <2>2, <2>3 DEF Shapes
<1>4. NameAgrees' BY <1>1 DEF NameAgrees, NoOptions
<1>5. Unchanged' /\ GroupsTaken' /\ IdentityIsWhole'
  BY <1>1 DEF Unchanged, Before, GroupsTaken, IdentityIsWhole
<1> QED BY <1>2, <1>3, <1>4, <1>5 DEF IdInv

\* The forks, the pid file, the opening of a file and the end change the places.
LEMMA PlacesKeep ==
  ASSUME IdInv,
         Fork \/ ForkFails \/ OpenPidFile \/ WritePidFile \/ OpenGroupFile
           \/ GroupLineUnreadable \/ End
  PROVE IdInv'
<1> USE LimitsAssumption DEF IdInv, TypeOK
<1>1. /\ UNCHANGED <<options, identity>>
      /\ \/ UNCHANGED pc
         \/ pc \in {"fork", "group", "lines"} /\ pc' = "crashed"
         \/ pc = "fork" /\ pc' = "log"
         \/ pc = "group" /\ pc' = "lines"
         \/ pc' = "ended"
  BY DEF Fork, ForkFails, OpenPidFile, WritePidFile, OpenGroupFile, GroupLineUnreadable,
         AtLine, End
<1>2. /\ parent' \in {"none", "forked", "writing", "exited"} /\ started' \in 0..MaxStarts
      /\ pidfile' \in Emptied..MaxStarts /\ pidfailed' \in BOOLEAN
  <2>0. -1 \in Emptied..MaxStarts /\ Emptied = -1 BY DEF Emptied
  <2>1. CASE OpenPidFile BY <2>0, <2>1 DEF OpenPidFile
  <2>2. CASE WritePidFile
    <3>1. started \in Emptied..MaxStarts BY DEF Emptied
    <3> QED BY <2>2, <3>1 DEF WritePidFile
  <2>3. CASE Fork \/ ForkFails \/ OpenGroupFile \/ GroupLineUnreadable \/ End
    BY <2>3 DEF Fork, ForkFails, OpenGroupFile, GroupLineUnreadable, AtLine, End, files
  <2> QED BY <2>1, <2>2, <2>3
<1>3. TypeOK' BY <1>1, <1>2 DEF options, identity
<1>4. Shapes' /\ NameAgrees' BY <1>1, OnlyPlaceChanges
<1>5. Unchanged'
  <2>1. pc = "group" => HoldsGroups(grouplist, line - 1)
    BY DEF Unchanged, HoldsGroups, Range
  <2> QED BY <1>1, <2>1 DEF Unchanged, Before, Identity, HoldsGroups, options, identity
<1>6. GroupsTaken' /\ IdentityIsWhole'
  BY <1>1 DEF GroupsTaken, IdentityIsWhole, Unchanged, Before, Identity, HoldsGroups,
              options, identity
<1> QED BY <1>3, <1>4, <1>5, <1>6

LEMMA OpenLogKeeps == ASSUME IdInv, OpenLog PROVE IdInv'
<1> USE DEF IdInv, TypeOK
<1>1. /\ UNCHANGED <<options, etcgroup, line, grouplist, starter, id, parent, files>>
      /\ pc = "log" /\ logowner' \in {NoValue, id.uid}
      /\ pc' = IF opts.uid = NoValue THEN "startup" ELSE "group"
  BY DEF OpenLog
<1>2. TypeOK' BY <1>1 DEF options, files
<1>3. Shapes' /\ NameAgrees' BY <1>1 DEF Shapes, Records, NameAgrees, Gids, options
<1>4. Unchanged' BY <1>1 DEF Unchanged, Before, Identity, options
<1>5. GroupsTaken' /\ IdentityIsWhole'
  BY <1>1 DEF GroupsTaken, IdentityIsWhole, Unchanged, Before, Identity, options
<1> QED BY <1>2, <1>3, <1>4, <1>5

LEMMA TakeGroupsKeeps == ASSUME IdInv, TakeGroups PROVE IdInv'
<1> USE DEF IdInv, TypeOK
<1>1. /\ UNCHANGED <<options, etcgroup, line, grouplist, starter, parent, files>>
      /\ pc = "lines" /\ pc' = "startup"
      /\ opts.uid # NoValue /\ opts.uid \in Known
      /\ line - 1 = Len(etcgroup)
      /\ id = Identity(starter) /\ id.uid = starter /\ id.gid = starter
      /\ id' = SetGroups(id, grouplist)
  <2>1. id = Identity(starter) BY DEF TakeGroups, Unchanged, Before
  <2> QED BY <2>1 DEF TakeGroups, Unchanged, Identity, Shapes
<1>2. HoldsGroups(grouplist, Len(etcgroup)) BY <1>1 DEF Unchanged
<1>3. CASE starter = Root
  <2>1. id' = [uid |-> Root, gid |-> Root, groups |-> grouplist]
    BY <1>1, <1>3 DEF SetGroups, Identity
  <2>2. logowner' = IF opts.logfile # NoValue THEN opts.uid ELSE logowner
    BY <1>1, <1>3 DEF TakeGroups
  <2>3. HoldsGroups(id.groups, Len(etcgroup))' BY <1>1, <1>2, <2>1 DEF HoldsGroups, options
  <2>4. TypeOK' BY <1>1, <1>3, <2>1, <2>2, InputsAssumption DEF options, files
  <2>5. Shapes' /\ NameAgrees'
    BY <1>1, <2>1 DEF Shapes, Records, NameAgrees, Gids, options
  <2>6. GroupsTaken' BY <1>1, <1>3, <2>1, <2>2, <2>3 DEF GroupsTaken, options
  <2>7. Unchanged' /\ IdentityIsWhole' BY <1>1 DEF Unchanged, Before, IdentityIsWhole
  <2> QED BY <2>4, <2>5, <2>6, <2>7
<1>4. CASE starter # Root
  <2>1. id' = id /\ logowner' = logowner
    BY <1>1, <1>4 DEF SetGroups, Identity, TakeGroups
  <2>2. TypeOK' BY <1>1, <2>1 DEF options, files
  <2>3. Shapes' /\ NameAgrees'
    BY <1>1, <2>1 DEF Shapes, Records, NameAgrees, Gids, options
  <2>4. GroupsTaken' BY <1>1, <1>4, <2>1 DEF GroupsTaken, Identity, options
  <2>5. Unchanged' /\ IdentityIsWhole' BY <1>1 DEF Unchanged, Before, IdentityIsWhole
  <2> QED BY <2>2, <2>3, <2>4, <2>5
<1> QED BY <1>3, <1>4

LEMMA EnterMainLoopKeeps == ASSUME IdInv, EnterMainLoop PROVE IdInv'
<1> USE DEF IdInv, TypeOK
<1>1. /\ UNCHANGED <<options, etcgroup, line, grouplist, starter, logowner, parent, files>>
      /\ pc = "startup" /\ pc' = "running"
      /\ id' = IF opts.uid = NoValue THEN id ELSE SetUid(SetGid(id, opts.uid), opts.uid)
      /\ starter \in Starters
      /\ id = [uid |-> id.uid, gid |-> id.gid, groups |-> id.groups]
  BY DEF EnterMainLoop, Shapes, Records
<1>2. CASE opts.uid = NoValue
  <2>1. id' = id /\ id = Identity(starter) BY <1>1, <1>2 DEF GroupsTaken
  <2>2. opts.user \notin Known BY <1>2, NoValueAssumption DEF NameAgrees
  <2>3. TypeOK' BY <1>1, <2>1 DEF options, files
  <2>4. Shapes' /\ NameAgrees'
    BY <1>1, <2>1 DEF Shapes, Records, NameAgrees, Gids, options
  <2>5. IdentityIsWhole'
    BY <1>1, <1>2, <2>1, <2>2 DEF IdentityIsWhole, Identity, options
  <2>6. Unchanged' /\ GroupsTaken' BY <1>1 DEF Unchanged, Before, GroupsTaken
  <2> QED BY <2>3, <2>4, <2>5, <2>6
<1>3. CASE opts.uid # NoValue /\ starter = Root
  <2>1. /\ id.uid = Root /\ HoldsGroups(id.groups, Len(etcgroup))
        /\ opts.logfile # NoValue => logowner = opts.uid
    BY <1>1, <1>3 DEF GroupsTaken
  <2>2. id' = [uid |-> opts.uid, gid |-> opts.uid, groups |-> id.groups]
    <3>1. SetGid(id, opts.uid) = [uid |-> Root, gid |-> opts.uid, groups |-> id.groups]
      BY <1>1, <2>1 DEF SetGid
    <3> QED BY <1>1, <1>3, <3>1 DEF SetUid
  <2>3. HoldsGroups(id.groups, Len(etcgroup))'
    BY <1>1, <2>1, <2>2 DEF HoldsGroups, options
  <2>4. opts.uid \in Known BY <1>3
  <2>5. TypeOK' BY <1>1, <2>2, <2>4 DEF options, files
  <2>6. Shapes' /\ NameAgrees'
    BY <1>1, <2>2 DEF Shapes, Records, NameAgrees, Gids, options
  <2>7. IdentityIsWhole'
    BY <1>1, <1>3, <2>1, <2>2, <2>3 DEF IdentityIsWhole, NameAgrees, options
  <2>8. Unchanged' /\ GroupsTaken' BY <1>1 DEF Unchanged, Before, GroupsTaken
  <2> QED BY <2>5, <2>6, <2>7, <2>8
<1>4. CASE opts.uid # NoValue /\ starter # Root
  <2>1. id = Identity(starter) BY <1>1, <1>4 DEF GroupsTaken
  <2>2. id' = id BY <1>1, <1>4, <2>1 DEF SetUid, SetGid, Identity
  <2>3. TypeOK' BY <1>1, <2>2 DEF options, files
  <2>4. Shapes' /\ NameAgrees'
    BY <1>1, <2>2 DEF Shapes, Records, NameAgrees, Gids, options
  <2>5. IdentityIsWhole'
    BY <1>1, <1>4, <2>1, <2>2 DEF IdentityIsWhole, Identity, NameAgrees, options
  <2>6. Unchanged' /\ GroupsTaken' BY <1>1 DEF Unchanged, Before, GroupsTaken
  <2> QED BY <2>3, <2>4, <2>5, <2>6
<1> QED BY <1>2, <1>3, <1>4

LEMMA NextKeepsIdInv == IdInv /\ [Next]_vars => IdInv'
<1> SUFFICES ASSUME IdInv, [Next]_vars PROVE IdInv' OBVIOUS
<1>1. CASE UNCHANGED vars
  <2>1. UNCHANGED <<argv, index, opts, etcgroup, line, grouplist, starter, id, logowner,
                    pc, parent, started, pidfile, pidfailed>>
    BY <1>1 DEF vars, options, identity, files
  <2>2. TypeOK' BY <2>1 DEF IdInv, TypeOK
  <2>3. Shapes' /\ NameAgrees' BY <2>1 DEF IdInv, Shapes, Records, NameAgrees, Gids
  <2>4. Unchanged' /\ GroupsTaken' /\ IdentityIsWhole'
    BY <2>1 DEF IdInv, Unchanged, Before, GroupsTaken, IdentityIsWhole, Identity, HoldsGroups
  <2> QED BY <2>2, <2>3, <2>4 DEF IdInv
<1>2. CASE GroupLine
  <2>1. /\ HoldsGroups(grouplist, line - 1)' /\ grouplist' \in Seq(Gids)
        /\ Len(grouplist') <= MaxGroups
    BY <1>2, GroupLineKeeps
  <2>2. /\ UNCHANGED <<options, etcgroup, starter, id, logowner, pc, parent, files>>
        /\ pc = "lines" /\ line' \in 1 .. Len(etcgroup) + 1
    BY <1>2 DEF GroupLine, AtLine, IdInv, TypeOK, Shapes
  <2>3. TypeOK' BY <2>1, <2>2 DEF IdInv, TypeOK, options, files
  <2>4. Shapes' /\ NameAgrees'
    BY <2>1, <2>2 DEF IdInv, Shapes, Records, NameAgrees, Gids, options
  <2>5. Unchanged' /\ GroupsTaken' /\ IdentityIsWhole'
    BY <2>1, <2>2 DEF IdInv, Unchanged, Before, GroupsTaken, IdentityIsWhole, Identity, options
  <2> QED BY <2>3, <2>4, <2>5 DEF IdInv
<1> QED BY <1>1, <1>2, StartKeeps, OptionsKeep, PlacesKeep, OpenLogKeeps, TakeGroupsKeeps,
           EnterMainLoopKeeps DEF Next

LEMMA IdInvariant == Spec => []IdInv
BY IdInitially, NextKeepsIdInv, PTL DEF Spec

\* Type correctness: no more groups than grouplist[] takes, for any /etc/group
\* and any limit (Daemon.cpp:226-270).
THEOREM TypeCorrect == Spec => []TypeOK
<1>1. IdInv => TypeOK BY DEF IdInv
<1> QED BY <1>1, IdInvariant, PTL

\* For every command line, any users and any lines of /etc/group
\* (Daemon.cpp:109-303): the main loop has the uid, the gid and the log file of
\* one known user that was asked for and the groups listed for the name asked for
\* last, the same user if that name is known, or it is wholly its starter; a
\* program that dies before has not begun to change.
THEOREM IdentityIsWholeHolds == Spec => []IdentityIsWhole
<1>1. IdInv => IdentityIsWhole BY DEF IdInv
<1> QED BY <1>1, IdInvariant, PTL
=============================================================================
