--------------------------------- MODULE Ios ---------------------------------
(***************************************************************************)
(* The I/O system (ios/): the table of file descriptors, the drivers and   *)
(* the devices of iosLib.c, and open, creat and close of ioLib.c, called   *)
(* by several tasks.  IOS_LOCK makes iosAllocFd, iosFreeFd and iosDevFind  *)
(* atomic; between them the tasks interleave.  The file system is external.*)
(***************************************************************************)
EXTENDS Integers, SequencesExt

CONSTANTS
  IoTask,
  Paths,             \* the names that tasks open, as sequences
  BEEP, YAFFS,       \* the names of the two devices
  IOS_MAX_FILE_DES,
  MAX_HANDLES        \* the open files of yaffs

\* The first three entries are those of the standard files.
ASSUME IosAssumption == IOS_MAX_FILE_DES \in Nat /\ IOS_MAX_FILE_DES >= 3

VARIABLES
  fd_table,  \* _G_fd_table
  handles,   \* the handles that yaffs has open
  call,      \* for each task the open or close that it is in
  files      \* for each task the files that it has open; data is what the
             \* driver returned

iosVars == <<fd_table, handles, call, files>>

-----------------------------------------------------------------------------
(* iosLib.c: the tables that ios_init builds.                              *)

\* iosDrvInstall gives beepDrv the first slot and yaffsDrv the second.
drv_table == <<"beep", "yaffs">>

\* iosDevAdd appends a device unless its very name is there.
iosDevAdd(list, name, drv) ==
  IF \E i \in 1 .. Len(list) : list[i].name = name THEN list
  ELSE Append(list, [name |-> name, drv_num |-> drv])

dev_list == iosDevAdd(iosDevAdd(<< >>, BEEP, 0), YAFFS, 1)

\* The device with the longest name that the path begins with, or none.
iosDevMatch(path) ==
  LET D == {d \in ToSet(dev_list) : IsPrefix(d.name, path)}
  IN  {d \in D : \A e \in D : Len(e.name) <= Len(d.name)}

DriverOf(path) == (CHOOSE d \in iosDevMatch(path) : TRUE).drv_num

FreeFds == {i \in DOMAIN fd_table : ~ fd_table[i].inuse}

FirstFree == IF FreeFds = {} THEN -1 ELSE CHOOSE i \in FreeFds : \A j \in FreeFds : i <= j

\* Mutant: the entry is not marked.
iosAllocFd_unmarked == [fd |-> FirstFree, table |-> fd_table]

\* The first free entry, marked; -1 when there is none.
iosAllocFd ==
  [fd |-> FirstFree,
   table |-> IF FreeFds = {} THEN fd_table ELSE [fd_table EXCEPT ![FirstFree].inuse = TRUE]]

iosFreeFd(fd) == IF fd \in DOMAIN fd_table THEN [fd_table EXCEPT ![fd].inuse = FALSE] ELSE fd_table

\* iosSaveDevNum stores the number of the driver and nothing else, so that
\* open_data stays 0; for the fd -1 it writes in front of the table.
iosSaveDevNum(fd, drv) ==
  IF fd \in DOMAIN fd_table THEN [fd_table EXCEPT ![fd].drv_num = drv] ELSE fd_table

-----------------------------------------------------------------------------
(* The drivers.                                                            *)

\* yaffs_open: a free handle or -1; an open may fail in any case.
yaffs_open(h, H) == \/ h = -1 /\ H = handles
                    \/ h \in (0 .. MAX_HANDLES - 1) \ handles /\ H = handles \cup {h}

\* The address that _beep_open returns; no handle has its value.
pBeepDev == MAX_HANDLES + 1

\* de_open or de_create: the value that the driver returns.
DriverOpen(drv, data, H) ==
  IF drv_table[drv + 1] = "beep" THEN data = pBeepDev /\ H = handles
  ELSE \E h \in -1 .. MAX_HANDLES - 1 : yaffs_open(h, H) /\ data = h

\* de_close with open_data.
DriverClose(drv, data) ==
  IF drv_table[drv + 1] = "beep" THEN handles ELSE handles \ {data}

-----------------------------------------------------------------------------
(* ioLib.c                                                                 *)

Out == [op |-> "none"]

iosInit ==
  /\ fd_table = [i \in 0 .. IOS_MAX_FILE_DES - 1 |->
                   [drv_num |-> 0, open_data |-> 0, inuse |-> i < 3]]
  /\ handles = {}
  /\ call = [t \in IoTask |-> Out]
  /\ files = [t \in IoTask |-> {}]

\* _io_create_or_open, until the fd is there.  A path of no device would go on
\* with a null pointer.
OpenAlloc(t, path) ==
  /\ call[t] = Out /\ iosDevMatch(path) # {}
  /\ fd_table' = iosAllocFd.table
  /\ call' = [call EXCEPT ![t] = [op |-> "open", fd |-> iosAllocFd.fd, path |-> path]]
  /\ UNCHANGED <<handles, files>>

\* iosDevFind, and iosOpen or iosCreate.
OpenDriver(t) ==
  /\ call[t].op = "open"
  /\ \E data \in {pBeepDev} \cup (-1 .. MAX_HANDLES - 1) :
       /\ DriverOpen(DriverOf(call[t].path), data, handles')
       /\ call' = [call EXCEPT ![t] = [op |-> "opened", fd |-> @.fd, path |-> @.path, data |-> data]]
  /\ UNCHANGED <<fd_table, files>>

\* iosFreeFd after an error, iosSaveDevNum otherwise.
OpenEnd(t) ==
  LET c == call[t] IN
  /\ c.op = "opened"
  /\ IF c.data = -1
     THEN fd_table' = iosFreeFd(c.fd) /\ UNCHANGED files
     ELSE /\ fd_table' = iosSaveDevNum(c.fd, DriverOf(c.path))
          /\ files' = IF c.fd = -1 THEN files
                      ELSE [files EXCEPT ![t] = @ \cup {[fd |-> c.fd, path |-> c.path, data |-> c.data]}]
  /\ call' = [call EXCEPT ![t] = Out]
  /\ UNCHANGED handles

\* close: iosClose ...
CloseDriver(t, f) ==
  LET e == fd_table[f.fd] IN
  /\ call[t] = Out
  /\ handles' = DriverClose(e.drv_num, e.open_data)
  /\ call' = [call EXCEPT ![t] = [op |-> "close", fd |-> f.fd]]
  /\ files' = [files EXCEPT ![t] = @ \ {f}]
  /\ UNCHANGED fd_table

\* ... and iosFreeFd.
CloseEnd(t) ==
  /\ call[t].op = "close"
  /\ fd_table' = iosFreeFd(call[t].fd)
  /\ call' = [call EXCEPT ![t] = Out]
  /\ UNCHANGED <<handles, files>>

iosNext ==
  \E t \in IoTask :
    \/ \E path \in Paths : OpenAlloc(t, path)
    \/ OpenDriver(t) \/ OpenEnd(t)
    \/ \E f \in files[t] : CloseDriver(t, f)
    \/ CloseEnd(t)

iosSpec == iosInit /\ [][iosNext]_iosVars

-----------------------------------------------------------------------------

\* The fds that task t holds: its open files, and the call that it is in.
Holds(t) ==
  {f.fd : f \in files[t]} \cup (IF call[t] = Out THEN {} ELSE {call[t].fd} \ {-1})

\* An fd belongs to one task, from iosAllocFd to iosFreeFd, whatever the order of
\* the calls: the entries in use are 0, 1, 2 and those that some task holds, no two
\* tasks hold the same, and the entry of an open file has the driver of its path.
FdHeldByOne ==
  /\ \A t, u \in IoTask : t # u => Holds(t) \cap Holds(u) = {}
  /\ DOMAIN fd_table \ FreeFds = 0 .. 2 \cup UNION {Holds(t) : t \in IoTask}
  /\ \A t \in IoTask : \A f \in files[t] : fd_table[f.fd].drv_num = DriverOf(f.path)
=============================================================================
