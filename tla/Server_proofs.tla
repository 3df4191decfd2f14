--------------------------- MODULE Server_proofs ---------------------------
(***************************************************************************)
(* The process and the manager that starts it.                             *)
(*                                                                         *)
(* Server: what openStore promises, for any number of servers and resets   *)
(* on one database, any number of statements, and crashes anywhere; and    *)
(* that a server that is to end can.  Service: what "install" and          *)
(* "uninstall" have done when they say so.  The two modules share no state *)
(* and no names, so that both can be extended here.                        *)
(***************************************************************************)
EXTENDS Server, Service, TLAPS

PCs == {"down", "version", "schema", "migrate1", "migrate2", "reset", "owner",
        "token", "create", "write", "serving", "closing"}

\* The version says which columns there are, and that the tables are.
DiskInv ==
    /\ disk \in Disks
    /\ disk.kinds <=> disk.ver >= 1
    /\ disk.layouts <=> disk.ver >= 2
    /\ disk.ver >= 1 => disk.file /\ disk.made = Statements

\* What a process at c with the version v and the statement i knows of disk d.
Knows(c, i, v, d) ==
    /\ c \notin {"down", "version"} => d.file /\ v <= d.ver /\ d.ver <= 2
    /\ c = "schema" => d.made >= i - 1
    /\ c \notin {"down", "version", "schema"} => d.made = Statements
    /\ c = "migrate2" => d.ver >= 1
    /\ c \in {"reset", "owner", "token", "create", "write", "serving", "closing"} => d.ver = 2

ServerInv ==
    /\ TypeOK
    /\ DiskInv
    /\ \A p \in Procs : Knows(pc[p], at[p], ver[p], disk)

\* What a disk may become: tables are added, versions and columns too.
Grows(d, e) ==
    /\ e.ver >= d.ver /\ e.made >= d.made
    /\ d.file => e.file
    /\ d.ver <= 2 => e.ver <= 2

LEMMA KnowsStill ==
    ASSUME NEW d \in Disks, NEW e \in Disks, Grows(d, e), NEW c \in PCs,
           NEW i \in 1..Statements, NEW v \in 0..2, Knows(c, i, v, d)
    PROVE  Knows(c, i, v, e)
<1>1. /\ d.ver \in 0..3 /\ e.ver \in 0..3 /\ d.made \in 0..Statements /\ e.made \in 0..Statements
      /\ Statements \in Nat
  BY ServerAssumption DEF Disks
<1> QED BY <1>1 DEF Knows, Grows, PCs

\* A step of one process that goes on, with what the others know of the disk.
LEMMA OneMoves ==
    ASSUME ServerInv, NEW p \in Procs, NEW c \in PCs, NEW i \in 1..Statements, NEW v \in 0..2,
           pc' = [pc EXCEPT ![p] = c],
           at' = [at EXCEPT ![p] = i],
           ver' = [ver EXCEPT ![p] = v],
           DiskInv', Grows(disk, disk'), Knows(c, i, v, disk'),
           token' \in Tokens \cup {Absent, Empty}, owner' \in BOOLEAN,
           tok' \in [Servers -> Tokens \cup {Empty}],
           cancelled' \in [Servers -> BOOLEAN], scheduler' \in [Servers -> BOOLEAN],
           shutdown' \in [Servers -> {"waiting", "draining", "done"}],
           exits' \in 0..MaxExits
    PROVE  ServerInv'
<1>1. /\ pc \in [Procs -> PCs] /\ at \in [Procs -> 1..Statements] /\ ver \in [Procs -> 0..2]
      /\ disk \in Disks /\ disk' \in Disks
  BY DEF ServerInv, TypeOK, DiskInv, PCs
<1>2. pc' \in [Procs -> PCs] /\ at' \in [Procs -> 1..Statements] /\ ver' \in [Procs -> 0..2]
  BY <1>1
<1>3. TypeOK' BY <1>1, <1>2 DEF TypeOK, PCs
<1>4. ASSUME NEW r \in Procs PROVE Knows(pc'[r], at'[r], ver'[r], disk')
  <2>1. CASE r = p BY <2>1, <1>1
  <2>2. CASE r # p
    <3>1. pc'[r] = pc[r] /\ at'[r] = at[r] /\ ver'[r] = ver[r] BY <2>2, <1>1
    <3>2. Knows(pc[r], at[r], ver[r], disk) BY DEF ServerInv
    <3>3. pc[r] \in PCs /\ at[r] \in 1..Statements /\ ver[r] \in 0..2 BY <1>1
    <3> QED BY <3>1, <3>2, <3>3, <1>1, KnowsStill
  <2> QED BY <2>1, <2>2
<1> QED BY <1>3, <1>4 DEF ServerInv

LEMMA SameDisk ==
    ASSUME ServerInv, disk' = disk
    PROVE  DiskInv' /\ Grows(disk, disk')
<1>1. disk.ver \in 0..3 /\ disk.made \in 0..Statements /\ Statements \in Nat
  BY ServerAssumption DEF ServerInv, DiskInv, Disks
<1> QED BY <1>1 DEF ServerInv, DiskInv, Grows

\* A process that ends knows nothing.
LEMMA EndedInv ==
    ASSUME ServerInv, NEW p \in Procs, Ended(p), DiskInv', Grows(disk, disk'),
           token' = token, owner' = owner, exits' \in 0..MaxExits
    PROVE  ServerInv'
<1>1. /\ pc' = [pc EXCEPT ![p] = "down"] /\ at' = [at EXCEPT ![p] = 1]
      /\ ver' = [ver EXCEPT ![p] = 0]
  BY DEF Ended, Goto
<1>2. /\ tok' \in [Servers -> Tokens \cup {Empty}]
      /\ cancelled' \in [Servers -> BOOLEAN] /\ scheduler' \in [Servers -> BOOLEAN]
      /\ shutdown' \in [Servers -> {"waiting", "draining", "done"}]
  BY DEF Ended, ServerInv, TypeOK
<1>3. Knows("down", 1, 0, disk') BY DEF Knows
<1>4. "down" \in PCs /\ 1 \in 1..Statements /\ 0 \in 0..2 BY ServerAssumption DEF PCs
<1>5. token' \in Tokens \cup {Absent, Empty} /\ owner' \in BOOLEAN BY DEF ServerInv, TypeOK
<1> QED BY <1>1, <1>2, <1>3, <1>4, <1>5, OneMoves

\* A process that goes on at c, its other locals as they are.
LEMMA GoesOn ==
    ASSUME ServerInv, NEW p \in Procs, NEW c \in PCs, Goto(p, c), at' = at, ver' = ver,
           DiskInv', Grows(disk, disk'), Knows(c, at[p], ver[p], disk'),
           token' \in Tokens \cup {Absent, Empty}, owner' \in BOOLEAN,
           tok' \in [Servers -> Tokens \cup {Empty}],
           cancelled' \in [Servers -> BOOLEAN], scheduler' \in [Servers -> BOOLEAN],
           shutdown' \in [Servers -> {"waiting", "draining", "done"}],
           exits' \in 0..MaxExits
    PROVE  ServerInv'
<1>1. at \in [Procs -> 1..Statements] /\ ver \in [Procs -> 0..2] BY DEF ServerInv, TypeOK
<1>2. at' = [at EXCEPT ![p] = at[p]] /\ ver' = [ver EXCEPT ![p] = ver[p]] BY <1>1
<1>3. pc' = [pc EXCEPT ![p] = c] BY DEF Goto
<1>4. at[p] \in 1..Statements /\ ver[p] \in 0..2 BY <1>1
<1> QED BY <1>2, <1>3, <1>4, OneMoves
-----------------------------------------------------------------------------
LEMMA InitInv == Init => ServerInv
<1> SUFFICES ASSUME Init PROVE ServerInv OBVIOUS
<1>1. NoDatabase \in Disks /\ \A n \in 0..3 : Release(n) \in Disks
  BY ServerAssumption DEF NoDatabase, Release, Disks
<1>2. DiskInv
  <2>1. CASE disk = NoDatabase BY <2>1, <1>1 DEF DiskInv, NoDatabase
  <2>2. ASSUME NEW n \in 0..3, disk = Release(n) PROVE DiskInv
    BY <2>2, <1>1 DEF DiskInv, Release
  <2> QED BY <2>1, <2>2 DEF Init
<1>3. TypeOK
  <2>1. disk \in Disks BY <1>2 DEF DiskInv
  <2>2. owner \in BOOLEAN BY DEF Init
  <2>3. 1 \in 1..Statements /\ 0 \in 0..2 /\ exits \in 0..MaxExits BY ServerAssumption DEF Init
  <2> QED BY <2>1, <2>2, <2>3 DEF Init, TypeOK
<1>4. \A p \in Procs : Knows(pc[p], at[p], ver[p], disk) BY DEF Init, Knows
<1> QED BY <1>2, <1>3, <1>4 DEF ServerInv

LEMMA ReadVersionInv ==
    ASSUME ServerInv, NEW p \in Procs, ReadVersion(p)
    PROVE  ServerInv' /\ Grows(disk, disk') /\ (disk.ver > 2 => disk' = disk)
<1>1. /\ disk \in Disks /\ disk.ver \in 0..3 /\ disk.made \in 0..Statements /\ Statements \in Nat
      /\ disk' = [disk EXCEPT !.file = TRUE]
  BY ServerAssumption DEF ServerInv, DiskInv, Disks, ReadVersion
<1>2. /\ disk' \in Disks /\ disk'.file /\ disk'.ver = disk.ver /\ disk'.made = disk.made
      /\ disk'.kinds = disk.kinds /\ disk'.layouts = disk.layouts
  BY <1>1 DEF Disks
<1>3. DiskInv' /\ Grows(disk, disk') BY <1>1, <1>2 DEF ServerInv, DiskInv, Grows
<1>4. disk.ver > 2 => disk' = disk BY <1>1 DEF ServerInv, DiskInv, Disks
<1>5. ServerInv'
  <2>1. CASE disk.ver > 2
    <3>1. Ended(p) /\ token' = token /\ owner' = owner /\ exits' \in 0..MaxExits
      BY <2>1 DEF ReadVersion, ServerInv, TypeOK
    <3> QED BY <3>1, <1>3, EndedInv
  <2>2. CASE ~(disk.ver > 2)
    <3>1. /\ pc' = [pc EXCEPT ![p] = "schema"] /\ at' = [at EXCEPT ![p] = 1]
          /\ ver' = [ver EXCEPT ![p] = disk.ver]
          /\ UNCHANGED <<token, owner, tok, cancelled, scheduler, shutdown, exits>>
      BY <2>2 DEF ReadVersion, Goto, goroutines
    <3>2. disk.ver \in 0..2 /\ "schema" \in PCs /\ 1 \in 1..Statements
      BY <2>2, <1>1, ServerAssumption DEF PCs
    <3>3. Knows("schema", 1, disk.ver, disk') BY <1>1, <1>2, <3>2 DEF Knows
    <3>4. /\ token' \in Tokens \cup {Absent, Empty} /\ owner' \in BOOLEAN
          /\ tok' \in [Servers -> Tokens \cup {Empty}]
          /\ cancelled' \in [Servers -> BOOLEAN] /\ scheduler' \in [Servers -> BOOLEAN]
          /\ shutdown' \in [Servers -> {"waiting", "draining", "done"}]
          /\ exits' \in 0..MaxExits
      BY <3>1 DEF ServerInv, TypeOK
    <3> QED BY <3>1, <3>2, <3>3, <3>4, <1>3, OneMoves
  <2> QED BY <2>1, <2>2
<1> QED BY <1>3, <1>4, <1>5

\* What a step of openStore after the version was read leaves as it is.
StoreFrame == UNCHANGED <<token, owner, tok, cancelled, scheduler, shutdown, exits>>

LEMMA FrameTypes ==
    ASSUME ServerInv, StoreFrame
    PROVE  /\ token' \in Tokens \cup {Absent, Empty} /\ owner' \in BOOLEAN
           /\ tok' \in [Servers -> Tokens \cup {Empty}]
           /\ cancelled' \in [Servers -> BOOLEAN] /\ scheduler' \in [Servers -> BOOLEAN]
           /\ shutdown' \in [Servers -> {"waiting", "draining", "done"}]
           /\ exits' \in 0..MaxExits
BY DEF ServerInv, TypeOK, StoreFrame

LEMMA CreateTableInv ==
    ASSUME ServerInv, NEW p \in Procs, CreateTable(p)
    PROVE  ServerInv' /\ Grows(disk, disk') /\ (disk.ver > 2 => disk' = disk)
<1> DEFINE m == IF at[p] > disk.made THEN at[p] ELSE disk.made
<1>1. /\ disk \in Disks /\ disk.ver \in 0..3 /\ disk.made \in 0..Statements /\ Statements \in Nat
      /\ at \in [Procs -> 1..Statements] /\ ver \in [Procs -> 0..2]
      /\ at[p] \in 1..Statements /\ ver[p] \in 0..2
  BY ServerAssumption DEF ServerInv, TypeOK, Disks
<1>2. disk' = [disk EXCEPT !.made = m] /\ m \in 0..Statements /\ m >= at[p] /\ m >= disk.made
  BY <1>1 DEF CreateTable
<1>3. /\ disk' \in Disks /\ disk'.made = m /\ disk'.ver = disk.ver /\ disk'.file = disk.file
      /\ disk'.kinds = disk.kinds /\ disk'.layouts = disk.layouts
  BY <1>1, <1>2 DEF Disks
<1> HIDE DEF m
<1>4. Knows("schema", at[p], ver[p], disk) BY DEF ServerInv, CreateTable
<1>5. disk.file /\ ver[p] <= disk.ver /\ disk.ver <= 2 BY <1>4 DEF Knows
<1>6. DiskInv' /\ Grows(disk, disk')
  BY <1>1, <1>2, <1>3 DEF ServerInv, DiskInv, Grows
<1>7. ServerInv'
  <2>1. StoreFrame /\ ver' = ver BY DEF StoreFrame, CreateTable, goroutines
  <2>2. CASE at[p] < Statements
    <3>1. /\ pc' = pc /\ pc[p] = "schema" /\ at' = [at EXCEPT ![p] = at[p] + 1]
      BY <2>2 DEF CreateTable
    <3>2. pc' = [pc EXCEPT ![p] = "schema"] /\ ver' = [ver EXCEPT ![p] = ver[p]]
      BY <3>1, <2>1, <1>1 DEF ServerInv, TypeOK
    <3>3. at[p] + 1 \in 1..Statements /\ "schema" \in PCs BY <2>2, <1>1 DEF PCs
    <3>4. Knows("schema", at[p] + 1, ver[p], disk')
      BY <1>1, <1>2, <1>3, <1>5 DEF Knows
    <3> QED BY <2>1, <3>1, <3>2, <3>3, <3>4, <1>1, <1>6, FrameTypes, OneMoves
  <2>3. CASE ~(at[p] < Statements)
    <3>1. Goto(p, Pending(p)) /\ at' = at BY <2>3 DEF CreateTable
    <3>2. disk'.made = Statements BY <2>3, <1>1, <1>2, <1>3
    <3>3. ver[p] = 2 => disk.ver = 2 BY <1>1, <1>5
    <3>4. Opened(p) \in {"owner", "reset"} BY DEF Opened
    <3>5. /\ Pending(p) \in PCs
          /\ Pending(p) \in {"migrate1", "migrate2", "owner", "reset"}
          /\ Pending(p) = "migrate2" => ver[p] = 1
          /\ Pending(p) \in {"owner", "reset"} => ver[p] = 2
      BY <1>1, <3>4 DEF Pending, PCs
    <3>6. Knows(Pending(p), at[p], ver[p], disk')
      BY <1>1, <1>3, <1>5, <3>2, <3>3, <3>5 DEF Knows
    <3> QED BY <2>1, <3>1, <3>5, <3>6, <1>6, FrameTypes, GoesOn
  <2> QED BY <2>2, <2>3
<1> QED BY <1>1, <1>5, <1>6, <1>7

LEMMA Migrate1Inv ==
    ASSUME ServerInv, NEW p \in Procs, Migrate1(p)
    PROVE  ServerInv' /\ Grows(disk, disk') /\ (disk.ver > 2 => disk' = disk)
<1>1. /\ disk \in Disks /\ disk.ver \in 0..3 /\ disk.made \in 0..Statements /\ Statements \in Nat
      /\ at[p] \in 1..Statements /\ ver[p] \in 0..2
  BY ServerAssumption DEF ServerInv, TypeOK, Disks
<1>2. Knows("migrate1", at[p], ver[p], disk) BY DEF ServerInv, Migrate1
<1>3. disk.file /\ ver[p] <= disk.ver /\ disk.ver <= 2 /\ disk.made = Statements
  BY <1>2 DEF Knows
<1>4. CASE disk.kinds
  <2>1. disk' = disk BY <1>4 DEF Migrate1, First
  <2>2. Ended(p) /\ token' = token /\ owner' = owner /\ exits' \in 0..MaxExits
    BY <2>1 DEF Migrate1, ServerInv, TypeOK
  <2> QED BY <2>1, <2>2, SameDisk, EndedInv
<1>5. CASE ~disk.kinds
  <2>1. disk' = [disk EXCEPT !.kinds = TRUE, !.ver = 1] BY <1>5 DEF Migrate1, First
  <2>2. /\ disk' \in Disks /\ disk'.kinds /\ disk'.ver = 1 /\ disk'.file = disk.file
        /\ disk'.made = disk.made /\ disk'.layouts = disk.layouts
    <3>1. disk = [file |-> disk.file, made |-> disk.made, kinds |-> disk.kinds,
                  layouts |-> disk.layouts, ver |-> disk.ver]
      BY <1>1 DEF Disks
    <3>2. disk.file \in BOOLEAN /\ disk.kinds \in BOOLEAN /\ disk.layouts \in BOOLEAN
      BY <1>1 DEF Disks
    <3>3. disk' = [file |-> disk.file, made |-> disk.made, kinds |-> TRUE,
                   layouts |-> disk.layouts, ver |-> 1]
      BY <2>1, <3>1
    <3>4. disk' \in Disks BY <3>2, <3>3, <1>1 DEF Disks
    <3> QED BY <3>3, <3>4
  <2>3. disk' # disk BY <1>5, <2>2
  <2>4. disk.ver = 0 /\ ~disk.layouts BY <1>5, <1>1 DEF ServerInv, DiskInv
  <2>5. DiskInv' /\ Grows(disk, disk')
    BY <1>1, <1>3, <2>2, <2>4 DEF DiskInv, Grows
  <2>6. Goto(p, "migrate2") /\ at' = at /\ ver' = ver /\ StoreFrame
    BY <2>3 DEF Migrate1, AfterFirst, StoreFrame, goroutines
  <2>7. Knows("migrate2", at[p], ver[p], disk') /\ "migrate2" \in PCs
    BY <1>1, <1>3, <2>2, <2>4 DEF Knows, PCs
  <2>8. ServerInv' BY <2>5, <2>6, <2>7, FrameTypes, GoesOn
  <2> QED BY <1>1, <1>3, <2>5, <2>8
<1> QED BY <1>4, <1>5

LEMMA Migrate2Inv ==
    ASSUME ServerInv, NEW p \in Procs, Migrate2(p)
    PROVE  ServerInv' /\ Grows(disk, disk') /\ (disk.ver > 2 => disk' = disk)
<1>1. /\ disk \in Disks /\ disk.ver \in 0..3 /\ disk.made \in 0..Statements /\ Statements \in Nat
      /\ at[p] \in 1..Statements /\ ver[p] \in 0..2
  BY ServerAssumption DEF ServerInv, TypeOK, Disks
<1>2. Knows("migrate2", at[p], ver[p], disk) BY DEF ServerInv, Migrate2
<1>3. /\ disk.file /\ ver[p] <= disk.ver /\ disk.ver <= 2 /\ disk.made = Statements
      /\ disk.ver >= 1
  BY <1>2 DEF Knows
<1>4. CASE disk.layouts
  <2>1. disk' = disk BY <1>4 DEF Migrate2, Second
  <2>2. Ended(p) /\ token' = token /\ owner' = owner /\ exits' \in 0..MaxExits
    BY <2>1 DEF Migrate2, ServerInv, TypeOK
  <2> QED BY <2>1, <2>2, SameDisk, EndedInv
<1>5. CASE ~disk.layouts
  <2>1. disk' = [disk EXCEPT !.layouts = TRUE, !.ver = 2] BY <1>5 DEF Migrate2, Second
  <2>2. /\ disk' \in Disks /\ disk'.layouts /\ disk'.ver = 2 /\ disk'.file = disk.file
        /\ disk'.made = disk.made /\ disk'.kinds = disk.kinds
    <3>1. disk = [file |-> disk.file, made |-> disk.made, kinds |-> disk.kinds,
                  layouts |-> disk.layouts, ver |-> disk.ver]
      BY <1>1 DEF Disks
    <3>2. disk.file \in BOOLEAN /\ disk.kinds \in BOOLEAN /\ disk.layouts \in BOOLEAN
      BY <1>1 DEF Disks
    <3>3. disk' = [file |-> disk.file, made |-> disk.made, kinds |-> disk.kinds,
                   layouts |-> TRUE, ver |-> 2]
      BY <2>1, <3>1
    <3>4. disk' \in Disks BY <3>2, <3>3, <1>1 DEF Disks
    <3> QED BY <3>3, <3>4
  <2>3. disk' # disk BY <1>5, <2>2
  <2>4. disk.ver = 1 /\ disk.kinds BY <1>5, <1>1, <1>3 DEF ServerInv, DiskInv
  <2>5. DiskInv' /\ Grows(disk, disk')
    BY <1>1, <1>3, <2>2, <2>4 DEF DiskInv, Grows
  <2>6. Goto(p, Opened(p)) /\ at' = at /\ ver' = ver /\ StoreFrame
    BY <2>3 DEF Migrate2, StoreFrame, goroutines
  <2>7. Opened(p) \in {"owner", "reset"} /\ Opened(p) \in PCs BY DEF Opened, PCs
  <2>8. Knows(Opened(p), at[p], ver[p], disk')
    BY <1>1, <1>3, <2>2, <2>4, <2>7 DEF Knows
  <2>9. ServerInv' BY <2>5, <2>6, <2>7, <2>8, FrameTypes, GoesOn
  <2> QED BY <1>1, <1>3, <2>5, <2>9
<1> QED BY <1>4, <1>5

\* The steps of runServer and of resetPassword leave the database as it is.
LEMMA ServingInv ==
    ASSUME ServerInv, NEW s \in Servers,
           ReadOwner(s) \/ ReadToken(s) \/ CreateToken(s) \/ WriteToken(s) \/ ListenReturns(s)
           \/ ListenFails(s)
    PROVE  ServerInv' /\ disk' = disk
<1>1. s \in Procs BY DEF Procs
<1>2. /\ disk' = disk /\ at' = at /\ ver' = ver
      /\ pc[s] \in {"owner", "token", "create", "write", "serving"}
      /\ token' \in Tokens \cup {Absent, Empty} /\ owner' \in BOOLEAN
      /\ exits' \in 0..MaxExits
      /\ \E c \in {"token", "create", "write", "serving", "closing"} : Goto(s, c)
  <2>1. CASE ReadOwner(s) BY <2>1 DEF ReadOwner, Serve, ServerInv, TypeOK
  <2>2. CASE ReadToken(s) BY <2>2 DEF ReadToken, Serve, ServerInv, TypeOK
  <2>3. CASE CreateToken(s) BY <2>3 DEF CreateToken, ServerInv, TypeOK
  <2>4. CASE WriteToken(s) BY <2>4 DEF WriteToken, Serve, ServerInv, TypeOK
  <2>5. CASE ListenReturns(s) BY <2>5 DEF ListenReturns, ServerInv, TypeOK
  <2>6. CASE ListenFails(s)
    BY <2>6, ServerAssumption DEF ListenFails, ServerInv, TypeOK
  <2> QED BY <2>1, <2>2, <2>3, <2>4, <2>5, <2>6
<1>3. /\ tok' \in [Servers -> Tokens \cup {Empty}]
      /\ cancelled' \in [Servers -> BOOLEAN] /\ scheduler' \in [Servers -> BOOLEAN]
      /\ shutdown' \in [Servers -> {"waiting", "draining", "done"}]
  <2>1. CASE ReadOwner(s) BY <2>1 DEF ReadOwner, Serve, goroutines, ServerInv, TypeOK
  <2>2. CASE ReadToken(s) BY <2>2 DEF ReadToken, Serve, goroutines, ServerInv, TypeOK
  <2>3. CASE CreateToken(s) BY <2>3 DEF CreateToken, goroutines, ServerInv, TypeOK
  <2>4. CASE WriteToken(s) BY <2>4 DEF WriteToken, Serve, goroutines, ServerInv, TypeOK
  <2>5. CASE ListenReturns(s) BY <2>5 DEF ListenReturns, goroutines, ServerInv, TypeOK
  <2>6. CASE ListenFails(s) BY <2>6 DEF ListenFails, Stopped, ServerInv, TypeOK
  <2> QED BY <2>1, <2>2, <2>3, <2>4, <2>5, <2>6
<1>4. PICK c \in {"token", "create", "write", "serving", "closing"} : Goto(s, c) BY <1>2
<1>5. Knows(pc[s], at[s], ver[s], disk) BY <1>1 DEF ServerInv
<1>6. Knows(c, at[s], ver[s], disk') /\ c \in PCs
  BY <1>2, <1>5 DEF Knows, PCs
<1>7. DiskInv' /\ Grows(disk, disk') BY <1>2, SameDisk
<1> QED BY <1>1, <1>2, <1>3, <1>4, <1>6, <1>7, GoesOn

LEMMA AsideInv ==
    ASSUME ServerInv, NEW s \in Servers,
           Setup(s) \/ Signal(s) \/ SchedulerEnds(s) \/ ShutdownStep(s)
    PROVE  ServerInv' /\ disk' = disk
<1>1. UNCHANGED <<disk, pc, at, ver>>
  BY DEF Setup, Signal, SchedulerEnds, ShutdownStep
<1>2. TypeOK'
  <2>1. CASE Setup(s) BY <2>1 DEF Setup, goroutines, ServerInv, TypeOK
  <2>2. CASE Signal(s) BY <2>2, ServerAssumption DEF Signal, ServerInv, TypeOK
  <2>3. CASE SchedulerEnds(s) BY <2>3 DEF SchedulerEnds, ServerInv, TypeOK
  <2>4. CASE ShutdownStep(s) BY <2>4 DEF ShutdownStep, ServerInv, TypeOK
  <2> QED BY <2>1, <2>2, <2>3, <2>4
<1> QED BY <1>1, <1>2 DEF ServerInv, DiskInv

LEMMA StepInv ==
    ServerInv /\ [Next]_vars =>
        ServerInv' /\ Grows(disk, disk') /\ (disk.ver > 2 => disk' = disk)
<1> SUFFICES ASSUME ServerInv, [Next]_vars
             PROVE  ServerInv' /\ Grows(disk, disk') /\ (disk.ver > 2 => disk' = disk)
  OBVIOUS
<1>1. ASSUME NEW p \in Procs, Open(p) PROVE ServerInv' /\ disk' = disk
  <2>1. Goto(p, "version") /\ at' = at /\ ver' = ver /\ disk' = disk /\ StoreFrame
    BY <1>1 DEF Open, StoreFrame, goroutines
  <2>2. Knows("version", at[p], ver[p], disk') /\ "version" \in PCs BY DEF Knows, PCs
  <2> QED BY <2>1, <2>2, FrameTypes, SameDisk, GoesOn
<1>2. ASSUME NEW p \in Procs, Exit(p) PROVE ServerInv' /\ disk' = disk
  <2>1. disk' = disk /\ Ended(p) /\ token' = token /\ owner' = owner /\ exits' \in 0..MaxExits
    BY <1>2, ServerAssumption DEF Exit, ServerInv, TypeOK
  <2> QED BY <2>1, SameDisk, EndedInv
<1>3. ASSUME NEW p \in Procs, ResetPassword(p) \/ Close(p) PROVE ServerInv' /\ disk' = disk
  <2>1. disk' = disk /\ Ended(p) /\ token' = token /\ owner' = owner /\ exits' \in 0..MaxExits
    BY <1>3 DEF ResetPassword, Close, ServerInv, TypeOK
  <2> QED BY <2>1, SameDisk, EndedInv
<1>4. ASSUME NEW p \in Procs, OpenStep(p)
      PROVE  ServerInv' /\ Grows(disk, disk') /\ (disk.ver > 2 => disk' = disk)
  BY <1>4, ReadVersionInv, CreateTableInv, Migrate1Inv, Migrate2Inv DEF OpenStep
<1>5. CASE UNCHANGED vars
  <2>1. ServerInv' BY <1>5 DEF vars, goroutines, ServerInv, TypeOK, DiskInv
  <2> QED BY <2>1, <1>5, SameDisk DEF vars
<1>6. disk' = disk => Grows(disk, disk') BY SameDisk
<1>7. Servers \subseteq Procs /\ Resets \subseteq Procs BY DEF Procs
<1> QED BY <1>1, <1>2, <1>3, <1>4, <1>5, <1>6, <1>7, ServingInv, AsideInv DEF Next, ServerStep

LEMMA Invariance == Spec => []ServerInv
BY InitInv, StepInv, PTL DEF Spec

(* Any process that got past openStore works on a complete database of     *)
(* this version, whoever else opens, migrates or crashes beside it.        *)
THEOREM SchemaHolds == Spec => []SchemaComplete
<1>1. ServerInv => SchemaComplete
  <2> SUFFICES ASSUME ServerInv, NEW p \in Procs, Past(p) PROVE disk = Release(2)
    BY DEF SchemaComplete
  <2>1. Knows(pc[p], at[p], ver[p], disk) BY DEF ServerInv
  <2>2. disk.file /\ disk.made = Statements /\ disk.ver = 2
    BY <2>1 DEF Knows, Past
  <2>3. disk.kinds /\ disk.layouts BY <2>2 DEF ServerInv, DiskInv
  <2>4. disk \in Disks BY DEF ServerInv, DiskInv
  <2>5. disk.kinds = TRUE /\ disk.layouts = TRUE /\ disk.file = TRUE BY <2>2, <2>3, <2>4 DEF Disks
  <2> QED BY <2>2, <2>4, <2>5 DEF Release, Disks
<1> QED BY <1>1, Invariance, PTL

(* The stored version only goes up, and a newer database is not touched.   *)
THEOREM VersionsHold == Spec => VersionsAscend
<1>1. ServerInv /\ [Next]_vars => [disk'.ver >= disk.ver /\ (disk.ver > 2 => disk' = disk)]_vars
  BY StepInv DEF Grows
<1> QED BY <1>1, Invariance, PTL DEF Spec, VersionsAscend
-----------------------------------------------------------------------------
(***************************************************************************)
(* What ComesUp and StopsWhenTold rest on.                                 *)
(***************************************************************************)
\* A process that is to migrate has read a version that wants it.
RaceInv == \A p \in Procs : /\ pc[p] = "migrate1" => ver[p] = 0
                            /\ pc[p] = "migrate2" => ver[p] \in 0..1

\* A server that shuts down or closes has been told to.
LifeInv == \A s \in Servers :
    /\ pc[s] = "down" => ~cancelled[s] /\ ~scheduler[s] /\ shutdown[s] = "waiting"
    /\ shutdown[s] # "waiting" => cancelled[s]
    /\ pc[s] = "closing" => cancelled[s]

\* Every migration that would be refused has been done by another process
\* since this one read the version.
RefusedWhenRaced ==
    \A p \in Procs :
        /\ pc[p] = "migrate1" /\ First(disk) = disk => ver[p] = 0 /\ disk.ver >= 1
        /\ pc[p] = "migrate2" /\ Second(disk) = disk => ver[p] <= 1 /\ disk.ver = 2

\* A server that is down has nothing left running; one that closes can close,
\* or what it waits for can go on.
WindsDown ==
    \A s \in Servers :
        /\ pc[s] = "down" => ~cancelled[s] /\ ~scheduler[s] /\ shutdown[s] = "waiting"
        /\ pc[s] = "closing" => \/ shutdown[s] = "done" /\ ~scheduler[s]
                                \/ cancelled[s] /\ (scheduler[s] \/ shutdown[s] # "done")

LEMMA RaceMoves ==
    ASSUME ServerInv, RaceInv, NEW p \in Procs, NEW c, NEW v,
           pc' = [pc EXCEPT ![p] = c], ver' = [ver EXCEPT ![p] = v],
           c = "migrate1" => v = 0, c = "migrate2" => v \in 0..1
    PROVE  RaceInv'
<1>1. pc \in [Procs -> PCs] /\ ver \in [Procs -> 0..2] BY DEF ServerInv, TypeOK, PCs
<1> QED BY <1>1 DEF RaceInv

LEMMA RaceStep ==
    ASSUME ServerInv, RaceInv, [Next]_vars
    PROVE  RaceInv'
<1>0. /\ Servers \subseteq Procs /\ Resets \subseteq Procs
      /\ ver \in [Procs -> 0..2] /\ ver = [q \in Procs |-> ver[q]]
  BY DEF Procs, ServerInv, TypeOK
<1>1. ASSUME NEW p \in Procs, Ended(p) PROVE RaceInv'
  <2>1. pc' = [pc EXCEPT ![p] = "down"] /\ ver' = [ver EXCEPT ![p] = 0]
    BY <1>1 DEF Ended, Goto
  <2> QED BY <2>1, RaceMoves
<1>2. ASSUME NEW p \in Procs, NEW c, Goto(p, c), ver' = ver,
             c = "migrate1" => ver[p] = 0, c = "migrate2" => ver[p] \in 0..1
      PROVE  RaceInv'
  <2>1. pc' = [pc EXCEPT ![p] = c] /\ ver' = [ver EXCEPT ![p] = ver[p]]
    BY <1>0, <1>2 DEF Goto
  <2> QED BY <1>2, <2>1, RaceMoves
<1>3. ASSUME NEW p \in Procs, OpenStep(p) PROVE RaceInv'
  <2>1. CASE ReadVersion(p) /\ ~Ended(p)
    <3>1. pc' = [pc EXCEPT ![p] = "schema"] /\ ver' = [ver EXCEPT ![p] = disk.ver]
      BY <2>1 DEF ReadVersion, Goto
    <3> QED BY <3>1, RaceMoves
  <2>2. CASE CreateTable(p)
    <3>1. CASE pc' = pc
      BY <2>2, <3>1 DEF CreateTable, RaceInv
    <3>2. CASE Goto(p, Pending(p))
      <4>1. /\ Pending(p) = "migrate1" => ver[p] = 0
            /\ Pending(p) = "migrate2" => ver[p] \in 0..1
        BY <1>0 DEF Pending, Opened
      <4> QED BY <1>2, <2>2, <3>2, <4>1 DEF CreateTable
    <3> QED BY <2>2, <3>1, <3>2 DEF CreateTable
  <2>3. CASE Migrate1(p) /\ ~Ended(p)
    <3>1. Goto(p, "migrate2") /\ ver' = ver /\ ver[p] \in 0..1
      BY <2>3 DEF Migrate1, AfterFirst, RaceInv
    <3> QED BY <1>2, <3>1
  <2>4. CASE Migrate2(p) /\ ~Ended(p)
    <3>1. Goto(p, Opened(p)) /\ ver' = ver
      BY <2>4 DEF Migrate2
    <3>2. Opened(p) \in {"owner", "reset"}
      BY DEF Opened
    <3> QED BY <1>2, <3>1, <3>2
  <2> QED BY <1>1, <1>3, <2>1, <2>2, <2>3, <2>4 DEF OpenStep
<1>4. ASSUME NEW p \in Procs, Open(p) \/ Exit(p) \/ ResetPassword(p) \/ Close(p)
      PROVE  RaceInv'
  <2>1. CASE Ended(p) BY <1>1, <2>1
  <2>2. CASE Open(p) BY <1>2, <2>2 DEF Open
  <2> QED BY <1>4, <2>1, <2>2 DEF Exit, ResetPassword, Close
<1>5. ASSUME NEW s \in Servers,
             ReadOwner(s) \/ ReadToken(s) \/ CreateToken(s) \/ WriteToken(s) \/ ListenReturns(s)
             \/ ListenFails(s)
      PROVE  RaceInv'
  <2>1. ver' = ver /\ \E c \in {"token", "create", "write", "serving", "closing"} : Goto(s, c)
    BY <1>5 DEF ReadOwner, ReadToken, CreateToken, WriteToken, ListenReturns, ListenFails, Serve
  <2>2. PICK c \in {"token", "create", "write", "serving", "closing"} : Goto(s, c) BY <2>1
  <2> QED BY <1>0, <1>2, <2>1, <2>2
<1>6. CASE UNCHANGED <<pc, ver>> BY <1>6 DEF RaceInv
<1>7. ASSUME NEW s \in Servers, Setup(s) \/ Signal(s) \/ SchedulerEnds(s) \/ ShutdownStep(s)
      PROVE  UNCHANGED <<pc, ver>>
  BY <1>7 DEF Setup, Signal, SchedulerEnds, ShutdownStep
<1>8. UNCHANGED vars => UNCHANGED <<pc, ver>> BY DEF vars
<1> QED BY <1>0, <1>3, <1>4, <1>5, <1>6, <1>7, <1>8 DEF Next, ServerStep

\* What a step of another process leaves as it is.
Untouched(s) == /\ pc'[s] = pc[s] /\ cancelled'[s] = cancelled[s]
                /\ scheduler'[s] = scheduler[s] /\ shutdown'[s] = shutdown[s]

ProcStep(p) == Open(p) \/ Exit(p) \/ OpenStep(p) \/ ResetPassword(p)
RunStep(s) == \/ ReadOwner(s) \/ ReadToken(s) \/ CreateToken(s) \/ WriteToken(s)
              \/ ListenReturns(s) \/ Close(s) \/ Setup(s) \/ Signal(s) \/ ListenFails(s)
              \/ SchedulerEnds(s) \/ ShutdownStep(s)

LEMMA EndedApart ==
    ASSUME ServerInv, NEW s \in Servers, NEW p \in Procs, p # s, Ended(p)
    PROVE  Untouched(s)
<1>1. s \in Procs /\ pc \in [Procs -> PCs] BY DEF Procs, ServerInv, TypeOK, PCs
<1> QED BY <1>1 DEF Ended, Goto, Untouched

LEMMA Apart ==
    ASSUME ServerInv, NEW s \in Servers, NEW p \in Procs, p # s,
           ProcStep(p) \/ (p \in Servers /\ RunStep(p))
    PROVE  Untouched(s)
<1>0. /\ s \in Procs /\ pc \in [Procs -> PCs] /\ cancelled \in [Servers -> BOOLEAN]
      /\ scheduler \in [Servers -> BOOLEAN]
      /\ shutdown \in [Servers -> {"waiting", "draining", "done"}]
  BY DEF Procs, ServerInv, TypeOK, PCs
<1>1. ASSUME NEW c, Goto(p, c) PROVE pc'[s] = pc[s]
  BY <1>0, <1>1 DEF Goto
<1>2. CASE ~Ended(p) /\ ProcStep(p)
  <2>1. UNCHANGED goroutines /\ (pc' = pc \/ \E c \in PCs : Goto(p, c))
    <3>1. CASE Open(p) BY <3>1 DEF Open, PCs
    <3>2. CASE ReadVersion(p) BY <1>2, <3>2 DEF ReadVersion, PCs
    <3>3. CASE CreateTable(p)
      <4>1. Pending(p) \in PCs BY DEF Pending, Opened, PCs
      <4> QED BY <3>3, <4>1 DEF CreateTable
    <3>4. CASE Migrate1(p) BY <1>2, <3>4 DEF Migrate1, AfterFirst, PCs
    <3>5. CASE Migrate2(p)
      <4>1. Opened(p) \in PCs BY DEF Opened, PCs
      <4> QED BY <1>2, <3>5, <4>1 DEF Migrate2
    <3> QED BY <1>2, <3>1, <3>2, <3>3, <3>4, <3>5 DEF ProcStep, OpenStep, Exit, ResetPassword
  <2> QED BY <1>1, <2>1 DEF Untouched, goroutines
<1>3. CASE p \in Servers /\ RunStep(p) /\ ~Ended(p)
  <2>1. pc' = pc \/ \E c \in {"token", "create", "write", "serving", "closing"} : Goto(p, c)
    BY <1>3 DEF RunStep, ReadOwner, ReadToken, CreateToken, WriteToken, ListenReturns, Close,
       Setup, Signal, ListenFails, SchedulerEnds, ShutdownStep, Serve
  <2>2. pc'[s] = pc[s] BY <1>1, <2>1
  <2>3. /\ cancelled'[s] = cancelled[s] /\ scheduler'[s] = scheduler[s]
        /\ shutdown'[s] = shutdown[s]
    BY <1>0, <1>3 DEF RunStep, ReadOwner, ReadToken, CreateToken, WriteToken, ListenReturns, Close,
       Setup, Signal, ListenFails, SchedulerEnds, ShutdownStep, Serve, Stopped, goroutines
  <2> QED BY <2>2, <2>3 DEF Untouched
<1> QED BY <1>2, <1>3, EndedApart

LEMMA LifeStep ==
    ASSUME ServerInv, LifeInv, [Next]_vars
    PROVE  LifeInv'
<1>0. /\ Servers \subseteq Procs /\ Resets \subseteq Procs /\ Servers \cap Resets = {}
      /\ pc \in [Procs -> PCs] /\ cancelled \in [Servers -> BOOLEAN]
      /\ scheduler \in [Servers -> BOOLEAN]
      /\ shutdown \in [Servers -> {"waiting", "draining", "done"}]
  BY ServerAssumption DEF Procs, ServerInv, TypeOK, PCs
<1> DEFINE Fine(s) == /\ pc[s] = "down" => /\ ~cancelled[s] /\ ~scheduler[s]
                                           /\ shutdown[s] = "waiting"
                      /\ shutdown[s] # "waiting" => cancelled[s]
                      /\ pc[s] = "closing" => cancelled[s]
<1> SUFFICES ASSUME NEW s \in Servers PROVE Fine(s)'
  BY DEF LifeInv
<1>1. Fine(s)
  BY DEF LifeInv
<1>2. CASE Untouched(s)
  BY <1>1, <1>2 DEF Untouched
<1>3. CASE Ended(s)
  BY <1>0, <1>3 DEF Ended, Goto
<1>4. ASSUME NEW c, c \notin {"down", "closing"}, Goto(s, c), UNCHANGED <<cancelled, shutdown>>
      PROVE  Fine(s)'
  BY <1>0, <1>1, <1>4 DEF Goto
<1>5. CASE ProcStep(s)
  <2>1. CASE Open(s) BY <1>4, <2>1 DEF Open, goroutines
  <2>2. CASE ReadVersion(s) /\ ~Ended(s) BY <1>4, <2>2 DEF ReadVersion, goroutines
  <2>3. CASE CreateTable(s)
    <3>1. CASE pc' = pc BY <1>1, <2>3, <3>1 DEF CreateTable, goroutines
    <3>2. CASE Goto(s, Pending(s))
      <4>1. Pending(s) \notin {"down", "closing"} BY DEF Pending, Opened
      <4> QED BY <1>4, <2>3, <3>2, <4>1 DEF CreateTable, goroutines
    <3> QED BY <2>3, <3>1, <3>2 DEF CreateTable
  <2>4. CASE Migrate1(s) /\ ~Ended(s) BY <1>4, <2>4 DEF Migrate1, AfterFirst, goroutines
  <2>5. CASE Migrate2(s) /\ ~Ended(s)
    <3>1. Opened(s) \notin {"down", "closing"} BY DEF Opened
    <3> QED BY <1>4, <2>5, <3>1 DEF Migrate2, goroutines
  <2> QED BY <1>3, <1>5, <2>1, <2>2, <2>3, <2>4, <2>5 DEF ProcStep, OpenStep, Exit, ResetPassword
<1>6. CASE RunStep(s)
  <2>1. CASE ReadOwner(s) \/ ReadToken(s) \/ CreateToken(s) \/ WriteToken(s)
    <3>1. UNCHANGED <<cancelled, shutdown>>
      BY <2>1 DEF ReadOwner, ReadToken, CreateToken, WriteToken, Serve, goroutines
    <3>2. \E c \in {"token", "create", "write", "serving"} : Goto(s, c)
      BY <2>1 DEF ReadOwner, ReadToken, CreateToken, WriteToken, Serve
    <3> QED BY <1>4, <3>1, <3>2
  <2>2. CASE ListenReturns(s)
    BY <1>0, <1>1, <2>2 DEF ListenReturns, Goto, goroutines
  <2>3. CASE ListenFails(s)
    BY <1>0, <1>1, <2>3 DEF ListenFails, Stopped, Goto
  <2>4. CASE Setup(s) BY <1>1, <2>4 DEF Setup, goroutines
  <2>5. CASE Signal(s) BY <1>0, <1>1, <2>5 DEF Signal
  <2>6. CASE SchedulerEnds(s) BY <1>0, <1>1, <2>6 DEF SchedulerEnds
  <2>7. CASE ShutdownStep(s) BY <1>0, <1>1, <2>7 DEF ShutdownStep
  <2>8. CASE Close(s) BY <1>3, <2>8 DEF Close
  <2> QED BY <1>6, <2>1, <2>2, <2>3, <2>4, <2>5, <2>6, <2>7, <2>8 DEF RunStep
<1>7. CASE UNCHANGED vars
  BY <1>1, <1>7 DEF vars, goroutines
<1>8. \/ UNCHANGED vars
      \/ \E p \in Procs : ProcStep(p) \/ (p \in Servers /\ RunStep(p))
  BY <1>0 DEF Next, ProcStep, RunStep, ServerStep
<1> HIDE DEF Fine
<1> QED BY <1>2, <1>5, <1>6, <1>7, <1>8, Apart

LEMMA LifeInvariance == Spec => [](RaceInv /\ LifeInv)
<1>1. Init => RaceInv /\ LifeInv
  BY DEF Init, RaceInv, LifeInv, Procs
<1>2. ServerInv /\ RaceInv /\ LifeInv /\ [Next]_vars => RaceInv' /\ LifeInv'
  BY RaceStep, LifeStep
<1> QED BY <1>1, <1>2, Invariance, PTL DEF Spec

(* A migration is refused only to a process that another one has overtaken *)
(* since it read the version, never because of what a start that was cut   *)
(* off left behind: the next start reads a version that is up to date.     *)
THEOREM OnlyRacesRefuse == Spec => []RefusedWhenRaced
<1>1. ServerInv /\ RaceInv => RefusedWhenRaced
  <2> SUFFICES ASSUME ServerInv, RaceInv, NEW p \in Procs
               PROVE  /\ pc[p] = "migrate1" /\ First(disk) = disk => ver[p] = 0 /\ disk.ver >= 1
                      /\ pc[p] = "migrate2" /\ Second(disk) = disk => ver[p] <= 1 /\ disk.ver = 2
    BY DEF RefusedWhenRaced
  <2>1. disk \in Disks /\ disk.ver \in 0..3 BY DEF ServerInv, DiskInv, Disks
  <2>2. First(disk) = disk => disk.kinds
    <3>1. CASE ~disk.kinds
      <4>1. First(disk) = [disk EXCEPT !.kinds = TRUE, !.ver = 1] BY <3>1 DEF First
      <4>2. First(disk).ver = 1 BY <2>1, <4>1 DEF Disks
      <4>3. ~(disk.ver >= 1) BY <3>1 DEF ServerInv, DiskInv
      <4> QED BY <4>2, <4>3
    <3> QED BY <3>1
  <2>3. Second(disk) = disk => disk.layouts
    <3>1. CASE ~disk.layouts
      <4>1. Second(disk) = [disk EXCEPT !.layouts = TRUE, !.ver = 2] BY <3>1 DEF Second
      <4>2. Second(disk).ver = 2 BY <2>1, <4>1 DEF Disks
      <4>3. ~(disk.ver >= 2) BY <3>1 DEF ServerInv, DiskInv
      <4> QED BY <4>2, <4>3
    <3> QED BY <3>1
  <2>4. /\ disk.kinds => disk.ver >= 1
        /\ disk.layouts => disk.ver >= 2
        /\ pc[p] = "migrate2" => disk.ver <= 2
        /\ pc[p] = "migrate1" => ver[p] = 0
        /\ pc[p] = "migrate2" => ver[p] \in 0..1
    <3>1. Knows(pc[p], at[p], ver[p], disk) BY DEF ServerInv
    <3> QED BY <3>1 DEF ServerInv, DiskInv, Knows, RaceInv
  <2> QED BY <2>1, <2>2, <2>3, <2>4
<1> QED BY <1>1, Invariance, LifeInvariance, PTL

(* Whatever made a server close, the scheduler it waits for has been told  *)
(* and the shutdown it waits for goes on: nobody waits for ever, and what  *)
(* it was does not outlive it.                                             *)
THEOREM WindsDownHolds == Spec => []WindsDown
<1>1. ServerInv /\ LifeInv => WindsDown
  BY DEF ServerInv, TypeOK, LifeInv, WindsDown
<1> QED BY <1>1, Invariance, LifeInvariance, PTL
-----------------------------------------------------------------------------
(***************************************************************************)
(* Service: what the calls that "install" and "uninstall" have made so far *)
(* have established, although processes fail and are restarted beside      *)
(* them.  What is left to do tells which calls those are.                  *)
(***************************************************************************)
LinuxInstall ==
    \/ todo = <<"write", "reload", "enable", "restart">>
    \/ todo = <<"reload", "enable", "restart">> /\ file = conf
    \/ todo = <<"enable", "restart">> /\ file = conf /\ unit = conf
    \/ todo = <<"restart">> /\ file = conf /\ unit = conf /\ enabled
LinuxUninstall ==
    \/ todo = <<"check", "disable", "remove", "reload">>
    \/ todo = <<"disable", "remove", "reload">>
    \/ todo = <<"remove", "reload">> /\ run = None /\ ~wanted /\ ~enabled
    \/ todo = <<"reload">> /\ run = None /\ ~wanted /\ ~enabled /\ file = None

DarwinInstall ==
    \/ todo = <<"write", "bootout", "launch">>
    \/ todo = <<"bootout", "launch">> /\ file = conf
    \/ todo = <<"launch">> /\ file = conf /\ unit = None /\ run = None /\ ~wanted
DarwinUninstall ==
    \/ todo = <<"check", "bootout", "remove">>
    \/ todo = <<"bootout", "remove">>
    \/ todo = <<"remove">> /\ unit = None /\ run = None /\ ~wanted

WindowsInstall ==
    \/ todo = <<"absent", "copy", "create", "run", "awaitRunning">>
    \/ todo = <<"copy", "create", "run", "awaitRunning">>
    \/ todo = <<"create", "run", "awaitRunning">>
    \/ todo = <<"run", "awaitRunning">> /\ unit = conf /\ enabled
    \/ todo = <<"awaitRunning">> /\ unit = conf /\ enabled /\ wanted /\ run \in {None, conf}
WindowsUninstall ==
    \/ todo = <<"open", "control", "awaitStopped", "delete">>
    \/ todo = <<"control", "awaitStopped", "delete">>
    \/ todo = <<"awaitStopped", "delete">>
    \/ todo = <<"delete">>

ServiceInv ==
    /\ os \in {"linux", "darwin", "windows"}
    /\ ~Idle /\ action = "install" =>
          /\ conf \in Configs
          /\ os = "linux" => LinuxInstall
          /\ os = "darwin" => DarwinInstall
          /\ os = "windows" => WindowsInstall
    /\ ~Idle /\ action = "uninstall" =>
          /\ os = "linux" => LinuxUninstall
          /\ os = "darwin" => DarwinUninstall
          /\ os = "windows" => WindowsUninstall

\* What an uninstall that says so has done.  On Windows a service that failed
\* and was restarted between its last two calls still runs, marked for deletion.
UninstallTakesEffect ==
    [][told # "ok" /\ told' = "ok" /\ action = "uninstall"
         => /\ os # "darwin" => ~enabled'
            /\ os # "windows" => file' = None /\ unit' = None /\ run' = None /\ ~wanted'
            /\ os = "windows" => unit' = None \/ run' # None]_serviceVars

\* The call that is made is the next of the list.
LEMMA NextCall ==
  ASSUME Call
  PROVE  /\ ~Idle
         /\ At("write") => WriteFile
         /\ At("check") => CheckFile
         /\ At("remove") => RemoveFile
         /\ At("reload") => DaemonReload
         /\ At("enable") => Enable
         /\ At("disable") => DisableNow
         /\ At("restart") => StartUnit
         /\ At("bootout") => Bootout
         /\ At("launch") => Launch
         /\ At("absent") => CheckAbsent
         /\ At("copy") => CopyExecutable
         /\ At("create") => CreateService
         /\ At("run") => StartService
         /\ At("open") => OpenService
         /\ At("control") => StopWindowsService
         /\ At("awaitRunning") \/ At("awaitStopped") => WaitWindowsService
         /\ At("delete") => DeleteService
<1>1. /\ ~Idle
      /\ At("write") => WriteFile
      /\ At("check") => CheckFile
      /\ At("remove") => RemoveFile
      /\ At("reload") => DaemonReload
      /\ At("enable") => Enable
      /\ At("disable") => DisableNow
      /\ At("restart") => StartUnit
      /\ At("bootout") => Bootout
      /\ At("launch") => Launch
  BY DEF Call, At, Idle, CheckFile, WriteFile, RemoveFile, DaemonReload, Enable, DisableNow,
     StartUnit, StopUnit, Bootout, Launch, CheckAbsent, CopyExecutable, CreateService,
     OpenService, QueryRunning, StartService, StopWindowsService, WaitWindowsService,
     DeleteService
<1>2. /\ At("absent") => CheckAbsent
      /\ At("copy") => CopyExecutable
      /\ At("create") => CreateService
      /\ At("run") => StartService
      /\ At("open") => OpenService
      /\ At("control") => StopWindowsService
      /\ At("awaitRunning") \/ At("awaitStopped") => WaitWindowsService
      /\ At("delete") => DeleteService
  BY DEF Call, At, Idle, CheckFile, WriteFile, RemoveFile, DaemonReload, Enable, DisableNow,
     StartUnit, StopUnit, Bootout, Launch, CheckAbsent, CopyExecutable, CreateService,
     OpenService, QueryRunning, StartService, StopWindowsService, WaitWindowsService,
     DeleteService
<1> QED BY <1>1, <1>2

\* Lists of one call to five.
LEMMA Lists ==
  /\ \A a : Len(<<a>>) = 1 /\ Tail(<<a>>) = << >> /\ Head(<<a>>) = a
  /\ \A a, b : Len(<<a, b>>) = 2 /\ Tail(<<a, b>>) = <<b>> /\ Head(<<a, b>>) = a
  /\ \A a, b, c : /\ Len(<<a, b, c>>) = 3 /\ Head(<<a, b, c>>) = a
                  /\ Tail(<<a, b, c>>) = <<b, c>>
  /\ \A a, b, c, d : /\ Len(<<a, b, c, d>>) = 4 /\ Head(<<a, b, c, d>>) = a
                     /\ Tail(<<a, b, c, d>>) = <<b, c, d>>
  /\ \A a, b, c, d, e : /\ Len(<<a, b, c, d, e>>) = 5 /\ Head(<<a, b, c, d, e>>) = a
                        /\ Tail(<<a, b, c, d, e>>) = <<b, c, d, e>>
  OBVIOUS

\* An install is done: it runs, and does again after a login.
Installed == /\ run = conf /\ unit = conf /\ wanted
             /\ os # "windows" => file = conf
             /\ StartsAtLogin
Uninstalled == /\ os # "darwin" => ~enabled
               /\ os # "windows" => file = None /\ unit = None /\ run = None /\ ~wanted
               /\ os = "windows" => unit = None \/ run # None

\* A call ends the command with an error, leaves rest to be made, or is the last.
Failed == todo' = << >> /\ told' = "error"
LeavesTo(rest) == todo' = rest /\ told' = told
Finished == todo' = << >> /\ told' = "ok"

LEMMA CallFrame ==
  ASSUME Call PROVE UNCHANGED <<os, action, conf>>
BY DEF Call, CheckFile, WriteFile, RemoveFile, DaemonReload, Enable, DisableNow, StartUnit,
   StopUnit, Bootout, Launch, CheckAbsent, CopyExecutable, CreateService, OpenService,
   QueryRunning, StartService, StopWindowsService, WaitWindowsService, DeleteService,
   Succeed, SkipWait, FinishEarly, Refuse

LEMMA LinuxInstallCall ==
  ASSUME os = "linux", conf \in Configs, LinuxInstall, Call
  PROVE  /\ todo' # << >> => LinuxInstall'
         /\ told # "ok" /\ told' = "ok" => Installed'
<1>0. UNCHANGED <<os, conf>> /\ conf # None
  BY CallFrame, ServiceNames
<1>1. CASE todo = <<"write", "reload", "enable", "restart">>
  <2>1. At("write") /\ Len(todo) = 4 /\ Tail(todo) = <<"reload", "enable", "restart">>
    BY <1>1, Lists DEF At
  <2>2. WriteFile
    BY <2>1, NextCall
  <2>3. Failed \/ (LeavesTo(<<"reload", "enable", "restart">>) /\ file' = conf)
    BY <1>0, <1>1, <2>1, <2>2 DEF WriteFile, Refuse, Succeed, Failed, LeavesTo, manager
  <2> QED BY <1>0, <1>1, <2>3 DEF LinuxInstall, Failed, LeavesTo
<1>2. CASE todo = <<"reload", "enable", "restart">> /\ file = conf
  <2>1. At("reload") /\ Len(todo) = 3 /\ Tail(todo) = <<"enable", "restart">>
    BY <1>2, Lists DEF At
  <2>2. DaemonReload
    BY <2>1, NextCall
  <2>3. LeavesTo(<<"enable", "restart">>) /\ file' = file /\ unit' = file
    BY <1>0, <1>2, <2>1, <2>2 DEF DaemonReload, Succeed, LeavesTo, manager
  <2> QED BY <1>0, <1>2, <2>3 DEF LinuxInstall, LeavesTo
<1>3. CASE todo = <<"enable", "restart">> /\ file = conf /\ unit = conf
  <2>1. At("enable") /\ Len(todo) = 2 /\ Tail(todo) = <<"restart">>
    BY <1>3, Lists DEF At
  <2>2. Enable
    BY <2>1, NextCall
  <2>3. LeavesTo(<<"restart">>) /\ file' = file /\ unit' = unit /\ enabled'
    BY <1>0, <1>3, <2>1, <2>2 DEF Enable, Succeed, LeavesTo, manager
  <2> QED BY <1>0, <1>3, <2>3 DEF LinuxInstall, LeavesTo
<1>4. CASE todo = <<"restart">> /\ file = conf /\ unit = conf /\ enabled
  <2>1. At("restart") /\ ~At("start") /\ Len(todo) = 1 /\ Tail(todo) = << >>
    BY <1>4, Lists DEF At
  <2>2. StartUnit
    BY <2>1, NextCall
  <2>3. Finished /\ file' = conf /\ unit' = conf /\ run' = conf /\ wanted' /\ enabled' = enabled
    BY <1>0, <1>4, <2>1, <2>2 DEF StartUnit, Loaded, Succeed, Finished, manager
  <2> QED BY <1>0, <1>4, <2>3 DEF Installed, StartsAtLogin, Finished
<1> QED BY <1>1, <1>2, <1>3, <1>4 DEF LinuxInstall

LEMMA LinuxUninstallCall ==
  ASSUME os = "linux", LinuxUninstall, Call
  PROVE  /\ todo' # << >> => LinuxUninstall'
         /\ told # "ok" /\ told' = "ok" => Uninstalled'
<1>0. UNCHANGED <<os, conf>>
  BY CallFrame, ServiceNames
<1>1. CASE todo = <<"check", "disable", "remove", "reload">>
  <2>1. At("check") /\ Len(todo) = 4 /\ Tail(todo) = <<"disable", "remove", "reload">>
    BY <1>1, Lists DEF At
  <2>2. CheckFile
    BY <2>1, NextCall
  <2>3. Failed \/ LeavesTo(<<"disable", "remove", "reload">>)
    BY <1>0, <1>1, <2>1, <2>2 DEF CheckFile, Refuse, Succeed, Failed, LeavesTo, manager
  <2> QED BY <1>0, <1>1, <2>3 DEF LinuxUninstall, Failed, LeavesTo
<1>2. CASE todo = <<"disable", "remove", "reload">>
  <2>1. At("disable") /\ Len(todo) = 3 /\ Tail(todo) = <<"remove", "reload">>
    BY <1>2, Lists DEF At
  <2>2. DisableNow
    BY <2>1, NextCall
  <2>3. Failed \/ (LeavesTo(<<"remove", "reload">>) /\ run' = None /\ ~wanted' /\ ~enabled')
    BY <1>0, <1>2, <2>1, <2>2 DEF DisableNow, Refuse, Succeed, Failed, LeavesTo, manager
  <2> QED BY <1>0, <1>2, <2>3 DEF LinuxUninstall, Failed, LeavesTo
<1>3. CASE todo = <<"remove", "reload">> /\ run = None /\ ~wanted /\ ~enabled
  <2>1. At("remove") /\ Len(todo) = 2 /\ Tail(todo) = <<"reload">>
    BY <1>3, Lists DEF At
  <2>2. RemoveFile
    BY <2>1, NextCall
  <2>3. Failed \/ (LeavesTo(<<"reload">>) /\ run' = None /\ ~wanted' /\ ~enabled' /\ file' = None)
    BY <1>0, <1>3, <2>1, <2>2 DEF RemoveFile, Refuse, Succeed, Failed, LeavesTo, manager
  <2> QED BY <1>0, <1>3, <2>3 DEF LinuxUninstall, Failed, LeavesTo
<1>4. CASE todo = <<"reload">> /\ run = None /\ ~wanted /\ ~enabled /\ file = None
  <2>1. At("reload") /\ Len(todo) = 1 /\ Tail(todo) = << >>
    BY <1>4, Lists DEF At
  <2>2. DaemonReload
    BY <2>1, NextCall
  <2>3. Finished /\ run' = None /\ ~wanted' /\ ~enabled' /\ file' = None /\ unit' = None
    BY <1>0, <1>4, <2>1, <2>2 DEF DaemonReload, Succeed, Finished, manager
  <2> QED BY <1>0, <1>4, <2>3 DEF Uninstalled, Finished
<1> QED BY <1>1, <1>2, <1>3, <1>4 DEF LinuxUninstall

LEMMA DarwinInstallCall ==
  ASSUME os = "darwin", conf \in Configs, DarwinInstall, Call
  PROVE  /\ todo' # << >> => DarwinInstall'
         /\ told # "ok" /\ told' = "ok" => Installed'
<1>0. UNCHANGED <<os, conf>> /\ conf # None
  BY CallFrame, ServiceNames
<1>1. CASE todo = <<"write", "bootout", "launch">>
  <2>1. At("write") /\ Len(todo) = 3 /\ Tail(todo) = <<"bootout", "launch">>
    BY <1>1, Lists DEF At
  <2>2. WriteFile
    BY <2>1, NextCall
  <2>3. Failed \/ (LeavesTo(<<"bootout", "launch">>) /\ file' = conf)
    BY <1>0, <1>1, <2>1, <2>2 DEF WriteFile, Refuse, Succeed, Failed, LeavesTo, manager
  <2> QED BY <1>0, <1>1, <2>3 DEF DarwinInstall, Failed, LeavesTo
<1>2. CASE todo = <<"bootout", "launch">> /\ file = conf
  <2>1. At("bootout") /\ Len(todo) = 2 /\ Tail(todo) = <<"launch">>
    BY <1>2, Lists DEF At
  <2>2. Bootout
    BY <2>1, NextCall
  <2>3. LeavesTo(<<"launch">>) /\ file' = file /\ unit' = None /\ run' = None /\ ~wanted'
    BY <1>0, <1>2, <2>1, <2>2 DEF Bootout, Succeed, LeavesTo, manager
  <2> QED BY <1>0, <1>2, <2>3 DEF DarwinInstall, LeavesTo
<1>3. CASE todo = <<"launch">> /\ file = conf /\ unit = None /\ run = None /\ ~wanted
  <2>1. At("launch") /\ Len(todo) = 1 /\ Tail(todo) = << >>
    BY <1>3, Lists DEF At
  <2>2. Launch
    BY <2>1, NextCall
  <2>3. Finished /\ file' = conf /\ unit' = conf /\ run' = conf /\ wanted'
    BY <1>0, <1>3, <2>1, <2>2 DEF Launch, Loaded, Succeed, Finished, manager
  <2> QED BY <1>0, <1>3, <2>3 DEF Installed, StartsAtLogin, Finished
<1> QED BY <1>1, <1>2, <1>3 DEF DarwinInstall

LEMMA DarwinUninstallCall ==
  ASSUME os = "darwin", DarwinUninstall, Call
  PROVE  /\ todo' # << >> => DarwinUninstall'
         /\ told # "ok" /\ told' = "ok" => Uninstalled'
<1>0. UNCHANGED <<os, conf>>
  BY CallFrame, ServiceNames
<1>1. CASE todo = <<"check", "bootout", "remove">>
  <2>1. At("check") /\ Len(todo) = 3 /\ Tail(todo) = <<"bootout", "remove">>
    BY <1>1, Lists DEF At
  <2>2. CheckFile
    BY <2>1, NextCall
  <2>3. Failed \/ LeavesTo(<<"bootout", "remove">>)
    BY <1>0, <1>1, <2>1, <2>2 DEF CheckFile, Refuse, Succeed, Failed, LeavesTo, manager
  <2> QED BY <1>0, <1>1, <2>3 DEF DarwinUninstall, Failed, LeavesTo
<1>2. CASE todo = <<"bootout", "remove">>
  <2>1. At("bootout") /\ Len(todo) = 2 /\ Tail(todo) = <<"remove">>
    BY <1>2, Lists DEF At
  <2>2. Bootout
    BY <2>1, NextCall
  <2>3. LeavesTo(<<"remove">>) /\ unit' = None /\ run' = None /\ ~wanted'
    BY <1>0, <1>2, <2>1, <2>2 DEF Bootout, Succeed, LeavesTo, manager
  <2> QED BY <1>0, <1>2, <2>3 DEF DarwinUninstall, LeavesTo
<1>3. CASE todo = <<"remove">> /\ unit = None /\ run = None /\ ~wanted
  <2>1. At("remove") /\ Len(todo) = 1 /\ Tail(todo) = << >>
    BY <1>3, Lists DEF At
  <2>2. RemoveFile
    BY <2>1, NextCall
  <2>3. Failed \/ (Finished /\ file' = None /\ unit' = None /\ run' = None /\ ~wanted')
    BY <1>0, <1>3, <2>1, <2>2 DEF RemoveFile, Refuse, Succeed, Failed, Finished, manager
  <2> QED BY <1>0, <1>3, <2>3 DEF Uninstalled, Failed, Finished
<1> QED BY <1>1, <1>2, <1>3 DEF DarwinUninstall

LEMMA WindowsInstallCall ==
  ASSUME os = "windows", conf \in Configs, WindowsInstall, Call
  PROVE  /\ todo' # << >> => WindowsInstall'
         /\ told # "ok" /\ told' = "ok" => Installed'
<1>0. UNCHANGED <<os, conf>> /\ conf # None
  BY CallFrame, ServiceNames
<1>1. CASE todo = <<"absent", "copy", "create", "run", "awaitRunning">>
  <2>1. At("absent") /\ Len(todo) = 5 /\ Tail(todo) = <<"copy", "create", "run", "awaitRunning">>
    BY <1>1, Lists DEF At
  <2>2. CheckAbsent
    BY <2>1, NextCall
  <2>3. Failed \/ LeavesTo(<<"copy", "create", "run", "awaitRunning">>)
    BY <1>0, <1>1, <2>1, <2>2 DEF CheckAbsent, Refuse, Succeed, Failed, LeavesTo, manager
  <2> QED BY <1>0, <1>1, <2>3 DEF WindowsInstall, Failed, LeavesTo
<1>2. CASE todo = <<"copy", "create", "run", "awaitRunning">>
  <2>1. At("copy") /\ Len(todo) = 4 /\ Tail(todo) = <<"create", "run", "awaitRunning">>
    BY <1>2, Lists DEF At
  <2>2. CopyExecutable
    BY <2>1, NextCall
  <2>3. LeavesTo(<<"create", "run", "awaitRunning">>)
    BY <1>0, <1>2, <2>1, <2>2 DEF CopyExecutable, Succeed, LeavesTo, manager
  <2> QED BY <1>0, <1>2, <2>3 DEF WindowsInstall, LeavesTo
<1>3. CASE todo = <<"create", "run", "awaitRunning">>
  <2>1. At("create") /\ Len(todo) = 3 /\ Tail(todo) = <<"run", "awaitRunning">>
    BY <1>3, Lists DEF At
  <2>2. CreateService
    BY <2>1, NextCall
  <2>3. LeavesTo(<<"run", "awaitRunning">>) /\ unit' = conf /\ enabled'
    BY <1>0, <1>3, <2>1, <2>2 DEF CreateService, Succeed, LeavesTo, manager
  <2> QED BY <1>0, <1>3, <2>3 DEF WindowsInstall, LeavesTo
<1>4. CASE todo = <<"run", "awaitRunning">> /\ unit = conf /\ enabled
  <2>1. At("run") /\ Len(todo) = 2 /\ Tail(todo) = <<"awaitRunning">>
    BY <1>4, Lists DEF At
  <2>2. StartService
    BY <2>1, NextCall
  <2>3. CASE run # None
    BY <1>4, <2>2, <2>3 DEF StartService, Refuse
  <2>4. CASE run = None
    <3>1. /\ todo' = <<"awaitRunning">> /\ unit' = unit /\ enabled' = enabled
          /\ wanted' = TRUE /\ run' = unit /\ told' = told
      BY <1>4, <2>1, <2>2, <2>4 DEF StartService, Succeed
    <3> QED BY <1>0, <1>4, <3>1 DEF WindowsInstall
  <2> QED BY <2>3, <2>4
<1>5. CASE todo = <<"awaitRunning">> /\ unit = conf /\ enabled /\ wanted /\ run \in {None, conf}
  <2>1. At("awaitRunning") /\ Len(todo) = 1 /\ Tail(todo) = << >>
    BY <1>5, Lists DEF At
  <2>2. WaitWindowsService
    BY <2>1, NextCall
  <2>3. Failed \/ (Finished /\ run' = conf /\ unit' = conf /\ wanted' /\ enabled')
    BY <1>0, <1>5, <2>1, <2>2 DEF WaitWindowsService, Refuse, Awaited, Succeed, Failed,
       Finished, manager
  <2> QED BY <1>0, <1>5, <2>3 DEF Installed, StartsAtLogin, Failed, Finished
<1> QED BY <1>1, <1>2, <1>3, <1>4, <1>5 DEF WindowsInstall

LEMMA WindowsUninstallCall ==
  ASSUME os = "windows", WindowsUninstall, Call
  PROVE  /\ todo' # << >> => WindowsUninstall'
         /\ told # "ok" /\ told' = "ok" => Uninstalled'
<1>0. UNCHANGED <<os, conf>>
  BY CallFrame, ServiceNames
<1>1. CASE todo = <<"open", "control", "awaitStopped", "delete">>
  <2>1. At("open") /\ Len(todo) = 4 /\ Tail(todo) = <<"control", "awaitStopped", "delete">>
    BY <1>1, Lists DEF At
  <2>2. OpenService
    BY <2>1, NextCall
  <2>3. Failed \/ LeavesTo(<<"control", "awaitStopped", "delete">>)
    BY <1>0, <1>1, <2>1, <2>2 DEF OpenService, Refuse, Succeed, Failed, LeavesTo, manager
  <2> QED BY <1>0, <1>1, <2>3 DEF WindowsUninstall, Failed, LeavesTo
<1>2. CASE todo = <<"control", "awaitStopped", "delete">>
  <2>1. At("control") /\ Len(todo) = 3 /\ Tail(todo) = <<"awaitStopped", "delete">>
    BY <1>2, Lists DEF At
  <2>2. StopWindowsService
    BY <2>1, NextCall
  <2>3. Tail(Tail(todo)) = <<"delete">>
    BY <2>1, Lists
  <2>4. todo' = <<"delete">> \/ todo' = <<"awaitStopped", "delete">>
    BY <2>1, <2>2, <2>3 DEF StopWindowsService, SkipWait, Succeed
  <2>5. told' = told
    BY <2>1, <2>2 DEF StopWindowsService, SkipWait, Succeed
  <2> QED BY <2>4, <2>5 DEF WindowsUninstall
<1>3. CASE todo = <<"awaitStopped", "delete">>
  <2>1. At("awaitStopped") /\ ~At("awaitRunning") /\ Len(todo) = 2 /\ Tail(todo) = <<"delete">>
    BY <1>3, Lists DEF At
  <2>2. WaitWindowsService
    BY <2>1, NextCall
  <2>3. Failed \/ LeavesTo(<<"delete">>)
    BY <1>0, <1>3, <2>1, <2>2 DEF WaitWindowsService, Refuse, Awaited, Succeed, Failed,
       LeavesTo, manager
  <2> QED BY <1>0, <1>3, <2>3 DEF WindowsUninstall, Failed, LeavesTo
<1>4. CASE todo = <<"delete">>
  <2>1. At("delete") /\ Len(todo) = 1 /\ Tail(todo) = << >>
    BY <1>4, Lists DEF At
  <2>2. DeleteService
    BY <2>1, NextCall
  <2>3. Failed \/ (Finished /\ ~enabled' /\ (unit' = None \/ run' # None))
    BY <1>0, <1>4, <2>1, <2>2 DEF DeleteService, Refuse, Succeed, Failed, Finished, manager
  <2> QED BY <1>0, <1>4, <2>3 DEF Uninstalled, Failed, Finished
<1> QED BY <1>1, <1>2, <1>3, <1>4 DEF WindowsUninstall

\* No command under way: nothing is promised.
LEMMA IdleInv ==
  ASSUME ServiceInv, os' = os, todo' = << >>
  PROVE  ServiceInv'
BY DEF ServiceInv, Idle

LEMMA CallInv ==
  ASSUME ServiceInv, Call
  PROVE  /\ ServiceInv'
         /\ told # "ok" /\ told' = "ok" /\ action = "install" => Installed'
         /\ told # "ok" /\ told' = "ok" /\ action = "uninstall" => Uninstalled'
<1>1. UNCHANGED <<os, action, conf>> /\ ~Idle /\ os \in {"linux", "darwin", "windows"}
  BY CallFrame, NextCall DEF ServiceInv
<1>2. CASE action = "install"
  <2>1. /\ conf \in Configs
        /\ os = "linux" => LinuxInstall
        /\ os = "darwin" => DarwinInstall
        /\ os = "windows" => WindowsInstall
    BY <1>1, <1>2 DEF ServiceInv
  <2>2. /\ todo' # << >> => /\ os = "linux" => LinuxInstall'
                            /\ os = "darwin" => DarwinInstall'
                            /\ os = "windows" => WindowsInstall'
        /\ told # "ok" /\ told' = "ok" => Installed'
    BY <1>1, <2>1, LinuxInstallCall, DarwinInstallCall, WindowsInstallCall
  <2> QED BY <1>1, <1>2, <2>1, <2>2 DEF ServiceInv, Idle
<1>3. CASE action = "uninstall"
  <2>1. /\ os = "linux" => LinuxUninstall
        /\ os = "darwin" => DarwinUninstall
        /\ os = "windows" => WindowsUninstall
    BY <1>1, <1>3 DEF ServiceInv
  <2>2. /\ todo' # << >> => /\ os = "linux" => LinuxUninstall'
                            /\ os = "darwin" => DarwinUninstall'
                            /\ os = "windows" => WindowsUninstall'
        /\ told # "ok" /\ told' = "ok" => Uninstalled'
    BY <1>1, <2>1, LinuxUninstallCall, DarwinUninstallCall, WindowsUninstallCall
  <2> QED BY <1>1, <1>3, <2>2 DEF ServiceInv, Idle
<1>4. CASE action \notin {"install", "uninstall"}
  BY <1>1, <1>4 DEF ServiceInv
<1> QED BY <1>2, <1>3, <1>4

LEMMA BeginInv ==
  ASSUME ServiceInv, NEW a, NEW c, Begin(a, c), a = "install" => c \in Configs
  PROVE  ServiceInv' /\ told' = "nothing"
<1>1. /\ os' = os /\ action' = a /\ conf' = c /\ todo' = Calls(a) /\ told' = "nothing"
      /\ os \in {"linux", "darwin", "windows"}
  BY DEF Begin, ServiceInv
<1>2. CASE a = "install"
  <2>1. /\ os = "linux" => LinuxInstall'
        /\ os = "darwin" => DarwinInstall'
        /\ os = "windows" => WindowsInstall'
    BY <1>1, <1>2 DEF Calls, LinuxCalls, DarwinCalls, WindowsCalls, LinuxInstall, DarwinInstall,
       WindowsInstall
  <2> QED BY <1>1, <1>2, <2>1 DEF ServiceInv
<1>3. CASE a = "uninstall"
  <2>1. /\ os = "linux" => LinuxUninstall'
        /\ os = "darwin" => DarwinUninstall'
        /\ os = "windows" => WindowsUninstall'
    BY <1>1, <1>3 DEF Calls, LinuxCalls, DarwinCalls, WindowsCalls, LinuxUninstall,
       DarwinUninstall, WindowsUninstall
  <2> QED BY <1>1, <1>3, <2>1 DEF ServiceInv
<1>4. CASE a \notin {"install", "uninstall"}
  BY <1>1, <1>4 DEF ServiceInv
<1> QED BY <1>1, <1>2, <1>3, <1>4

\* Processes that end, fail and are restarted leave what a command relies on.
LEMMA BesideInv ==
  ASSUME ServiceInv, ProcessEnds \/ ProcessFails \/ ManagerRestarts
  PROVE  ServiceInv' /\ told' = told
<1>1. /\ UNCHANGED <<os, file, enabled, wanted, action, conf, todo, told>>
      /\ unit' = unit \/ (os = "windows" /\ ~enabled)
      /\ run' = None \/ (wanted /\ unit # None /\ run' = unit)
  BY DEF ProcessEnds, ProcessFails, ManagerRestarts, command
<1>2. /\ LinuxInstall /\ os = "linux" => LinuxInstall'
      /\ LinuxUninstall /\ os = "linux" => LinuxUninstall'
  BY <1>1 DEF LinuxInstall, LinuxUninstall
<1>3. /\ DarwinInstall /\ os = "darwin" => DarwinInstall'
      /\ DarwinUninstall /\ os = "darwin" => DarwinUninstall'
  BY <1>1 DEF DarwinInstall, DarwinUninstall
<1>4. /\ WindowsInstall => WindowsInstall'
      /\ WindowsUninstall => WindowsUninstall'
  BY <1>1 DEF WindowsInstall, WindowsUninstall
<1> QED BY <1>1, <1>2, <1>3, <1>4 DEF ServiceInv, Idle

LEMMA ServiceStepInv ==
  ASSUME ServiceInv, [ServiceNext]_serviceVars
  PROVE  /\ ServiceInv'
         /\ told # "ok" /\ told' = "ok" /\ action = "install" => Installed' /\ conf' = conf
         /\ told # "ok" /\ told' = "ok" /\ action = "uninstall" => Uninstalled'
<1>1. CASE Call
  BY <1>1, CallInv, CallFrame
<1>2. CASE ProcessEnds \/ ProcessFails \/ ManagerRestarts
  BY <1>2, BesideInv
<1>3. ASSUME NEW a \in Actions, NEW c \in Configs \cup {None}, ServiceCommand(a, c)
      PROVE  ServiceInv' /\ told' = "nothing"
  <2>1. Begin(a, c) /\ (a = "install" => c \in Configs)
    BY <1>3 DEF ServiceCommand
  <2> QED BY <2>1, BeginInv
<1>4. CASE UninstallAgain
  <2>1. Begin("uninstall", None)
    BY <1>4 DEF UninstallAgain
  <2>2. ServiceInv' /\ told' = "nothing"
    BY <2>1, BeginInv
  <2> QED BY <2>2
<1>5. CASE Fail \/ Reboot
  <2>1. os' = os /\ todo' = << >> /\ told' \in {"error", "nothing", told}
    BY <1>5 DEF Fail, Reboot
  <2> QED BY <2>1, IdleInv
<1>6. CASE WantGone \/ TakeAway
  <2>1. os' = os /\ todo' = << >> /\ told' = told
    BY <1>6 DEF WantGone, TakeAway, Idle, command
  <2> QED BY <2>1, IdleInv
<1>7. CASE UNCHANGED serviceVars
  BY <1>7 DEF serviceVars, manager, command, ServiceInv, Idle, LinuxInstall, LinuxUninstall,
     DarwinInstall, DarwinUninstall, WindowsInstall, WindowsUninstall
<1> QED BY <1>1, <1>2, <1>3, <1>4, <1>5, <1>6, <1>7 DEF ServiceNext

\* The machine keeps its operating system.
LEMMA OsFixed ==
  ASSUME [ServiceNext]_serviceVars PROVE os' = os
BY CallFrame DEF ServiceNext, serviceVars, ServiceCommand, UninstallAgain, Begin, WantGone, Fail,
   ProcessEnds, ProcessFails, ManagerRestarts, Reboot, TakeAway

LEMMA ServiceInvariance == ServiceSpec => []ServiceInv
<1>1. ServiceInit => ServiceInv
  BY SystemsAssumption DEF ServiceInit, ServiceInv, Idle
<1> QED BY <1>1, ServiceStepInv, PTL DEF ServiceSpec

(* An install that reports success runs what it installed, and will after  *)
(* the next login, for whatever configurations, number of commands and     *)
(* number of faults, and from whatever earlier commands left half done.    *)
THEOREM InstallHolds == ServiceSpec => InstallTakesEffect
<1>1. ServiceInv /\ [ServiceNext]_serviceVars =>
        [told # "ok" /\ told' = "ok" /\ action = "install"
           => /\ run' = conf /\ unit' = conf /\ wanted'
              /\ os # "windows" => file' = conf
              /\ StartsAtLogin']_serviceVars
  <2> SUFFICES ASSUME ServiceInv, [ServiceNext]_serviceVars,
                      told # "ok", told' = "ok", action = "install"
               PROVE  /\ run' = conf /\ unit' = conf /\ wanted'
                      /\ os # "windows" => file' = conf
                      /\ StartsAtLogin'
    OBVIOUS
  <2>1. Installed' /\ conf' = conf /\ os' = os
    BY ServiceStepInv, OsFixed
  <2> QED BY <2>1 DEF Installed
<1> QED BY <1>1, ServiceInvariance, PTL DEF ServiceSpec, InstallTakesEffect

(* An uninstall that reports success has taken the definition away, and    *)
(* off Windows the process with it, whatever stopped earlier ones half way.*)
THEOREM UninstallHolds == ServiceSpec => UninstallTakesEffect
<1>1. ServiceInv /\ [ServiceNext]_serviceVars =>
        [told # "ok" /\ told' = "ok" /\ action = "uninstall"
           => /\ os # "darwin" => ~enabled'
              /\ os # "windows" => file' = None /\ unit' = None /\ run' = None /\ ~wanted'
              /\ os = "windows" => unit' = None \/ run' # None]_serviceVars
  <2> SUFFICES ASSUME ServiceInv, [ServiceNext]_serviceVars,
                      told # "ok", told' = "ok", action = "uninstall"
               PROVE  /\ os # "darwin" => ~enabled'
                      /\ os # "windows" => /\ file' = None /\ unit' = None
                                           /\ run' = None /\ ~wanted'
                      /\ os = "windows" => unit' = None \/ run' # None
    OBVIOUS
  <2>1. Uninstalled' /\ os' = os
    BY ServiceStepInv, OsFixed
  <2> QED BY <2>1 DEF Uninstalled
<1> QED BY <1>1, ServiceInvariance, PTL DEF ServiceSpec, UninstallTakesEffect
=============================================================================
