------------------------------- MODULE Snapshot -------------------------------
(***************************************************************************)
(* Snapshot capture ("pciex -c") and snapshot view ("pciex -s") of         *)
(* src/snapshot.cpp, run by any number of concurrent processes on one file *)
(* system.                                                                 *)
(*                                                                         *)
(* A capture writes an unnamed O_TMPFILE inode piece by piece (device      *)
(* records, bus array, and the header last) and then gives it a name with  *)
(* linkat().  A view checks the size, opens the file and reads it back     *)
(* piece by piece; between any two of those calls other processes and the  *)
(* user act: a name can disappear, be taken again, or its file be cut.     *)
(*                                                                         *)
(* An inode is named after the capture that made it.  A process that is    *)
(* killed and one whose system call fails both end without doing anything  *)
(* else; what a short write leaves in an inode that never gets a name can  *)
(* be seen by nobody, so it is left out.                                   *)
(***************************************************************************)
EXTENDS SnapshotFormat

CONSTANTS
  Capturers,    \* processes run with -c
  Viewers,      \* processes run with -s
  Dirs,         \* directories, all on one file system
  Cwd,          \* Cwd[c]: the working directory of c
  Names,        \* file names
  Topologies,   \* the device list and the bus list a sysfs scan can return
  NoInode, Foreign, Pending, Refused

ASSUME TopologiesAssumption ==
  Topologies \subseteq [devs : Seq({d \in DeviceDesc : WellFormed(d)}),
                        buses : Seq(BusDesc)]

ASSUME CwdAssumption == Cwd \in [Capturers -> Dirs]

ASSUME DistinctAssumption ==
  /\ NoInode \notin Capturers /\ Foreign \notin Capturers /\ NoInode # Foreign
  /\ Pending # Refused

Paths      == Dirs \X Names
Inodes     == Capturers \cup {Foreign}

NoTopology == [devs |-> <<>>, buses |-> <<>>]

NoHeader == [fsize |-> 0, dev_cnt |-> 0, bus_cnt |-> 0]

VARIABLES
  (* the file system *)
  entry,        \* entry[<<d, n>>]: the inode named n in the directory d
  file,         \* file[i]: the contents of the inode i
  (* SnapshotProvider as the store provider of the process c *)
  cpc,          \* the call SaveState is about to make
  req,          \* full_snapshot_path_, as given on the command line
  topo,         \* what the sysfs provider returned
  wnum,         \* cur_dev_num_
  woff,         \* off_
  wbytes,       \* bytes_written_
  (* SnapshotProvider as the capture provider of the process v *)
  vpc,          \* the call it is about to make, or how it ended
  vpath,        \* full_snapshot_path_
  vstat,        \* what file_size() saw: the inode and actual_snap_size
  vfd,          \* the inode fd_ refers to
  vtotal,       \* total_dev_num_, total_bus_num_
  vnum,         \* cur_dev_num_
  voff,         \* off_
  vdevs, vbuses \* the descriptors returned so far

fsVars   == <<entry, file>>
capVars  == <<cpc, req, topo, wnum, woff, wbytes>>
viewVars == <<vpc, vpath, vstat, vfd, vtotal, vnum, voff, vdevs, vbuses>>
vars     == <<entry, file, cpc, req, topo, wnum, woff, wbytes,
              vpc, vpath, vstat, vfd, vtotal, vnum, voff, vdevs, vbuses>>

(***************************************************************************)
(* Files.  recs are the device records in the order they were written,     *)
(* each at its offset; busoff and buses are the bus array; size is the     *)
(* file's size, which a truncation makes smaller than what was written.    *)
(***************************************************************************)
Header == [fsize : Nat, dev_cnt : Nat, bus_cnt : Nat]
DevRec == [off : Nat, len : Nat, md : DeviceMd]
File   == [size : Nat, hdr : Header, recs : Seq(DevRec),
           busoff : Nat, buses : Seq(BusDesc)]

EmptyFile ==
  [size |-> 0, hdr |-> NoHeader, recs |-> <<>>, busoff |-> 0, buses |-> <<>>]
\* Some other file the user keeps, longer than a header.
ForeignFile == [EmptyFile EXCEPT !.size = 64]

IsSnapshot(i) == i \in Capturers
Truncated(i)  == file[i].size < file[i].hdr.fsize

CaptureBusy == {"scan", "prepare", "devices", "header", "link"}
CaptureEnd  == {"published", "failed"}
ViewBusy    == {"open", "header", "devices", "buses"}
Rejections  == {"missing", "short", "magic", "size", "count", "last",
                "garbled", "io"}
ViewEnd     == {"done"} \cup Rejections

Init ==
  /\ entry \in [Paths -> {NoInode, Foreign}]
  /\ file   = [i \in Inodes |-> IF i = Foreign THEN ForeignFile ELSE EmptyFile]
  /\ cpc    = [c \in Capturers |-> "idle"]
  /\ req \in [Capturers -> Paths]
  /\ topo   = [c \in Capturers |-> NoTopology]
  /\ wnum   = [c \in Capturers |-> 0]
  /\ woff   = [c \in Capturers |-> 0]
  /\ wbytes = [c \in Capturers |-> 0]
  /\ vpc    = [v \in Viewers |-> "idle"]
  /\ vpath \in [Viewers -> Paths]
  /\ vstat  = [v \in Viewers |-> [ino |-> Foreign, size |-> 0]]
  /\ vfd    = [v \in Viewers |-> NoInode]
  /\ vtotal = [v \in Viewers |-> [devs |-> 0, buses |-> 0]]
  /\ vnum   = [v \in Viewers |-> 0]
  /\ voff   = [v \in Viewers |-> 0]
  /\ vdevs  = [v \in Viewers |-> <<>>]
  /\ vbuses = [v \in Viewers |-> <<>>]

-----------------------------------------------------------------------------
(***************************************************************************)
(* Capture.                                                                *)
(***************************************************************************)

\* The process c ends without having given its inode a name: the inode goes with
\* its fd_, and so does everything the process knew.
ExitWithout(c) ==
  /\ cpc'    = [cpc EXCEPT ![c] = "failed"]
  /\ file'   = [file EXCEPT ![c] = EmptyFile]
  /\ topo'   = [topo EXCEPT ![c] = NoTopology]
  /\ wnum'   = [wnum EXCEPT ![c] = 0]
  /\ woff'   = [woff EXCEPT ![c] = 0]
  /\ wbytes' = [wbytes EXCEPT ![c] = 0]
  /\ UNCHANGED <<entry, req, viewVars>>

\* The command line is parsed: a path that names an existing file is refused.
StartCapture(c) ==
  /\ cpc[c] = "idle"
  /\ cpc' = [cpc EXCEPT ![c] = IF entry[req[c]] = NoInode THEN "scan"
                                                          ELSE "failed"]
  /\ UNCHANGED <<entry, file, req, topo, wnum, woff, wbytes, viewVars>>

\* PCITopologyCtx::Capture asks the sysfs provider for the device list and then
\* for the bus list.  Neither list is looked at before it is stored.
Scan(c) ==
  /\ cpc[c] = "scan"
  /\ \E t \in Topologies : topo' = [topo EXCEPT ![c] = t]
  /\ cpc' = [cpc EXCEPT ![c] = "prepare"]
  /\ UNCHANGED <<entry, file, req, wnum, woff, wbytes, viewVars>>

\* SnapshotCapturePrepare: open(dir, O_TMPFILE), and leave room for the header.
Prepare(c) ==
  /\ cpc[c] = "prepare"
  /\ file' = [file EXCEPT ![c] = EmptyFile]
  /\ woff' = [woff EXCEPT ![c] = @ + HeaderLen]
  /\ cpc'  = [cpc EXCEPT ![c] = "devices"]
  /\ UNCHANGED <<entry, req, topo, wnum, wbytes, viewVars>>

\* WriteDeviceMetadata for the next device of the list: one pwritev() at off_.
WriteDevice(c) ==
  LET total == Len(topo[c].devs)
      cur   == wnum[c] + 1
      d     == topo[c].devs[cur]
      rec   == [off |-> woff[c], len |-> WrittenLen(d),
                md  |-> EncodeMd(d, cur, total)]
  IN
  /\ cpc[c] = "devices"
  /\ wnum[c] < total
  /\ wnum'   = [wnum EXCEPT ![c] = cur]
  /\ file'   = [file EXCEPT ![c] = [file[c] EXCEPT
                                     !.recs = Append(@, rec),
                                     !.size = woff[c] + WrittenLen(d)]]
  /\ woff'   = [woff EXCEPT ![c] = @ + WrittenLen(d)]
  /\ wbytes' = [wbytes EXCEPT ![c] = @ + WrittenLen(d)]
  /\ UNCHANGED <<entry, cpc, req, topo, viewVars>>

\* WriteBusesMetadata: one pwrite() at off_.  An empty write extends nothing.
WriteBuses(c) ==
  LET buses == topo[c].buses
      len   == BusesLen(Len(buses))
  IN
  /\ cpc[c] = "devices"
  /\ wnum[c] = Len(topo[c].devs)
  /\ file'   = [file EXCEPT ![c] =
                 [file[c] EXCEPT !.buses  = buses,
                                 !.busoff = woff[c],
                                 !.size   = IF len = 0 THEN @ ELSE woff[c] + len]]
  /\ woff'   = [woff EXCEPT ![c] = @ + len]
  /\ wbytes' = [wbytes EXCEPT ![c] = @ + len]
  /\ cpc'    = [cpc EXCEPT ![c] = "header"]
  /\ UNCHANGED <<entry, req, topo, wnum, viewVars>>

\* Seeded fault: the header does not count itself.
MainHeader_WithoutItself(c) ==
  [fsize   |-> wbytes[c],
   dev_cnt |-> Len(topo[c].devs),
   bus_cnt |-> Len(topo[c].buses)]

\* The header StoreMainHeader builds.
MainHeader(c) ==
  [fsize   |-> wbytes[c] + HeaderLen,
   dev_cnt |-> Len(topo[c].devs),
   bus_cnt |-> Len(topo[c].buses)]

\* StoreMainHeader: one pwrite() at offset 0.
StoreHeader(c) ==
  /\ cpc[c] = "header"
  /\ file' = [file EXCEPT ![c] =
               [file[c] EXCEPT !.hdr  = MainHeader(c),
                               !.size = IF @ < HeaderLen THEN HeaderLen ELSE @]]
  /\ cpc'  = [cpc EXCEPT ![c] = "link"]
  /\ UNCHANGED <<entry, req, topo, wnum, woff, wbytes, viewVars>>

\* The name SnapshotFinalize gives the inode: snapshot_filename_, which linkat()
\* resolves from AT_FDCWD.
LinkTarget(c) == <<Cwd[c], req[c][2]>>

\* Seeded fault: the name is taken over, as rename() would.
NameIsTaken_Never(p) == FALSE

\* linkat() fails with EEXIST on a name that is in use.
NameIsTaken(p) == entry[p] # NoInode

\* Seeded fault: linkat() is tried again until the name is free.
Finalize_Retries(c) ==
  /\ cpc[c] = "link"
  /\ ~NameIsTaken(LinkTarget(c))
  /\ entry' = [entry EXCEPT ![LinkTarget(c)] = c]
  /\ cpc'   = [cpc EXCEPT ![c] = "published"]
  /\ UNCHANGED <<file, req, topo, wnum, woff, wbytes, viewVars>>

\* Seeded fault: the capture is made again until the name is free.
Finalize_Recaptures(c) ==
  /\ cpc[c] = "link"
  /\ \/ /\ ~NameIsTaken(LinkTarget(c))
        /\ entry' = [entry EXCEPT ![LinkTarget(c)] = c]
        /\ cpc'   = [cpc EXCEPT ![c] = "published"]
        /\ UNCHANGED <<file, topo, wnum, woff, wbytes>>
     \/ /\ NameIsTaken(LinkTarget(c))
        /\ cpc'    = [cpc EXCEPT ![c] = "scan"]
        /\ file'   = [file EXCEPT ![c] = EmptyFile]
        /\ topo'   = [topo EXCEPT ![c] = NoTopology]
        /\ wnum'   = [wnum EXCEPT ![c] = 0]
        /\ woff'   = [woff EXCEPT ![c] = 0]
        /\ wbytes' = [wbytes EXCEPT ![c] = 0]
        /\ UNCHANGED entry
  /\ UNCHANGED <<req, viewVars>>

\* SnapshotFinalize.
Finalize(c) ==
  /\ cpc[c] = "link"
  /\ \/ /\ ~NameIsTaken(LinkTarget(c))
        /\ entry' = [entry EXCEPT ![LinkTarget(c)] = c]
        /\ cpc'   = [cpc EXCEPT ![c] = "published"]
        /\ UNCHANGED <<file, req, topo, wnum, woff, wbytes, viewVars>>
     \/ /\ NameIsTaken(LinkTarget(c))
        /\ ExitWithout(c)

\* A call of SaveState, of the sysfs scan or of the allocator fails, a write is
\* short, or the process is killed.
AbortCapture(c) ==
  /\ cpc[c] \in CaptureBusy
  /\ ExitWithout(c)

-----------------------------------------------------------------------------
(***************************************************************************)
(* View.                                                                   *)
(***************************************************************************)

\* SnapshotParsePrepare, first part: fs::exists and fs::file_size.
StartView(v) ==
  LET i == entry[vpath[v]] IN
  /\ vpc[v] = "idle"
  /\ \/ /\ i = NoInode
        /\ vpc' = [vpc EXCEPT ![v] = "missing"]
        /\ UNCHANGED vstat
     \/ /\ i # NoInode
        /\ vpc'   = [vpc EXCEPT ![v] = "open"]
        /\ vstat' = [vstat EXCEPT ![v] = [ino |-> i, size |-> file[i].size]]
  /\ UNCHANGED <<fsVars, capVars, vpath, vfd, vtotal, vnum, voff, vdevs, vbuses>>

\* open(): whatever has the name by now.
OpenSnapshot(v) ==
  LET i == entry[vpath[v]] IN
  /\ vpc[v] = "open"
  /\ \/ /\ i = NoInode
        /\ vpc' = [vpc EXCEPT ![v] = "missing"]
        /\ UNCHANGED vfd
     \/ /\ i # NoInode
        /\ vpc' = [vpc EXCEPT ![v] = "header"]
        /\ vfd' = [vfd EXCEPT ![v] = i]
  /\ UNCHANGED <<fsVars, capVars, vpath, vstat, vtotal, vnum, voff, vdevs, vbuses>>

\* The checks on the main header, in the order they are made.
HeaderVerdict(i, statsize) ==
  LET f == file[i] IN
  IF f.size < HeaderLen THEN "short"
  ELSE IF ~IsSnapshot(i) THEN "magic"
  ELSE IF f.hdr.fsize # statsize THEN "size"
  ELSE IF f.hdr.dev_cnt = 0 \/ f.hdr.bus_cnt = 0 THEN "count"
  ELSE "ok"

\* SnapshotParsePrepare, second part: pread() of the main header.
ReadHeader(v) ==
  LET i       == vfd[v]
      verdict == HeaderVerdict(i, vstat[v].size)
  IN
  /\ vpc[v] = "header"
  /\ \/ /\ verdict # "ok"
        /\ vpc' = [vpc EXCEPT ![v] = verdict]
        /\ UNCHANGED <<vtotal, vnum, voff>>
     \/ /\ verdict = "ok"
        /\ vpc'    = [vpc EXCEPT ![v] = "devices"]
        /\ vtotal' = [vtotal EXCEPT ![v] = [devs  |-> file[i].hdr.dev_cnt,
                                            buses |-> file[i].hdr.bus_cnt]]
        /\ vnum'   = [vnum EXCEPT ![v] = 1]
        /\ voff'   = [voff EXCEPT ![v] = @ + HeaderLen]
  /\ UNCHANGED <<fsVars, capVars, vpath, vstat, vfd, vdevs, vbuses>>

\* The records of f that begin at offset off: at most one.
RecordsAt(f, off) == {k \in DOMAIN f.recs : f.recs[k].off = off}

\* What the reader makes of the bytes at off as device number cur of total.
\* "garbled" stands for whatever it makes of bytes where no record begins, or of
\* a record whose length it takes for another.
DeviceVerdict(f, off, cur, total) ==
  IF f.size < off + DeviceMdLen THEN "short"
  ELSE IF RecordsAt(f, off) = {} THEN "garbled"
  ELSE LET rec == f.recs[CHOOSE k \in RecordsAt(f, off) : TRUE] IN
       IF cur # total /\ rec.md.is_final_dev_entry = 1 THEN "last"
       ELSE IF f.size < off + ReadLen(rec.md) THEN "short"
       ELSE IF ReadLen(rec.md) # rec.len THEN "garbled"
       ELSE "ok"

\* GetPCIDevDescriptors: one turn of its loop.  Its two reads are one step: the
\* records of a named file never change, and a cut between the two reads that
\* the second one does not notice is noticed by the next read at the latest.
ReadDevice(v) ==
  LET f       == file[vfd[v]]
      verdict == DeviceVerdict(f, voff[v], vnum[v], vtotal[v].devs)
      md      == f.recs[CHOOSE k \in RecordsAt(f, voff[v]) : TRUE].md
  IN
  /\ vpc[v] = "devices"
  /\ \/ /\ verdict # "ok"
        /\ vpc' = [vpc EXCEPT ![v] = verdict]
        /\ UNCHANGED <<vnum, voff, vdevs>>
     \/ /\ verdict = "ok"
        /\ vdevs' = [vdevs EXCEPT ![v] = Append(@, DecodeMd(md))]
        /\ voff'  = [voff EXCEPT ![v] = @ + ReadLen(md)]
        /\ vnum'  = [vnum EXCEPT ![v] = @ + 1]
        /\ vpc'   = [vpc EXCEPT ![v] =
                       IF vnum[v] + 1 <= vtotal[v].devs
                       THEN "devices" ELSE "buses"]
  /\ UNCHANGED <<fsVars, capVars, vpath, vstat, vfd, vtotal, vbuses>>

BusesVerdict(f, off, total) ==
  IF f.size < off + BusesLen(total) THEN "short"
  ELSE IF f.busoff # off THEN "garbled"
  ELSE "done"

\* GetBusDescriptors, called once the devices are there.
ReadBuses(v) ==
  LET f       == file[vfd[v]]
      verdict == BusesVerdict(f, voff[v], vtotal[v].buses)
  IN
  /\ vpc[v] = "buses"
  /\ vpc' = [vpc EXCEPT ![v] = verdict]
  /\ \/ /\ verdict = "done"
        /\ vbuses' = [vbuses EXCEPT ![v] = SubSeq(f.buses, 1, vtotal[v].buses)]
        /\ voff'   = [voff EXCEPT ![v] = @ + BusesLen(vtotal[v].buses)]
     \/ /\ verdict # "done"
        /\ UNCHANGED <<vbuses, voff>>
  /\ UNCHANGED <<fsVars, capVars, vpath, vstat, vfd, vtotal, vnum, vdevs>>

\* A call of the parser fails, or the process is killed.
AbortView(v) ==
  /\ vpc[v] \in ViewBusy
  /\ vpc' = [vpc EXCEPT ![v] = "io"]
  /\ UNCHANGED <<fsVars, capVars, vpath, vstat, vfd, vtotal, vnum, voff,
                 vdevs, vbuses>>

-----------------------------------------------------------------------------
(***************************************************************************)
(* The user.                                                               *)
(***************************************************************************)

Remove(p) ==
  /\ entry[p] # NoInode
  /\ entry' = [entry EXCEPT ![p] = NoInode]
  /\ UNCHANGED <<file, capVars, viewVars>>

\* Where a file can be cut.  A cut inside a piece is noticed by the same read as
\* one at the start of that piece.
CutPoints(f) == {0, HeaderLen, f.busoff} \cup {f.recs[k].off : k \in DOMAIN f.recs}

\* The file of that name loses its tail: an interrupted copy, a full disk.
Truncate(p) ==
  /\ entry[p] # NoInode
  /\ \E n \in CutPoints(file[entry[p]]) :
       /\ n < file[entry[p]].size
       /\ file' = [file EXCEPT ![entry[p]].size = n]
  /\ UNCHANGED <<entry, capVars, viewVars>>

-----------------------------------------------------------------------------
CaptureStep(c) ==
  \/ Scan(c)
  \/ Prepare(c)
  \/ WriteDevice(c)
  \/ WriteBuses(c)
  \/ StoreHeader(c)
  \/ Finalize(c)

ViewStep(v) ==
  \/ OpenSnapshot(v)
  \/ ReadHeader(v)
  \/ ReadDevice(v)
  \/ ReadBuses(v)

Next ==
  \/ \E c \in Capturers : StartCapture(c) \/ CaptureStep(c) \/ AbortCapture(c)
  \/ \E v \in Viewers : StartView(v) \/ ViewStep(v) \/ AbortView(v)
  \/ \E p \in Paths : Remove(p) \/ Truncate(p)

\* Neither program waits for anything: a process that has begun keeps running.
\* Nobody has to start one, and nothing has to fail.
Fairness ==
  /\ \A c \in Capturers : WF_vars(CaptureStep(c))
  /\ \A v \in Viewers : WF_vars(ViewStep(v))

Spec == Init /\ [][Next]_vars /\ Fairness

-----------------------------------------------------------------------------
(***************************************************************************)
(* Properties.                                                             *)
(***************************************************************************)

\* Every variable keeps its shape; in particular every stored length fits the
\* one-byte field it is stored in.
TypeOK ==
  /\ entry \in [Paths -> Inodes \cup {NoInode}]
  /\ file \in [Inodes -> File]
  /\ cpc \in [Capturers -> {"idle"} \cup CaptureBusy \cup CaptureEnd]
  /\ req \in [Capturers -> Paths]
  /\ topo \in [Capturers -> Topologies \cup {NoTopology}]
  /\ wnum \in [Capturers -> Nat]
  /\ woff \in [Capturers -> Nat]
  /\ wbytes \in [Capturers -> Nat]
  /\ vpc \in [Viewers -> {"idle"} \cup ViewBusy \cup ViewEnd]
  /\ vpath \in [Viewers -> Paths]
  /\ vstat \in [Viewers -> [ino : Inodes, size : Nat]]
  /\ vfd \in [Viewers -> Inodes \cup {NoInode}]
  /\ vtotal \in [Viewers -> [devs : Nat, buses : Nat]]
  /\ vnum \in [Viewers -> Nat]
  /\ voff \in [Viewers -> Nat]
  /\ vdevs \in [Viewers -> Seq(DeviceDesc)]
  /\ vbuses \in [Viewers -> Seq(BusDesc)]

\* Where the first n records of f end.
EndOfRecs(f, n) == IF n = 0 THEN HeaderLen ELSE f.recs[n].off + f.recs[n].len

\* The layout of snapshot.h: the records of f follow each other without a gap
\* from the end of the header, and the bus array follows the last one.
Contiguous(f) ==
  /\ \A k \in DOMAIN f.recs : f.recs[k].off = EndOfRecs(f, k-1)
  /\ f.busoff = EndOfRecs(f, Len(f.recs))

\* A name is only ever given to a finished snapshot: the header counts what is
\* there, the encoded size is where the bus array ends, exactly the last record is
\* marked final, and each record spans what the reader will take it to span.
PublishedComplete ==
  \A p \in Paths : IsSnapshot(entry[p]) =>
    LET f == file[entry[p]]
        t == topo[entry[p]]
    IN
    /\ f.hdr.dev_cnt = Len(t.devs) /\ Len(f.recs) = Len(t.devs)
    /\ f.hdr.bus_cnt = Len(t.buses) /\ f.buses = t.buses
    /\ f.size <= f.hdr.fsize
    /\ f.hdr.fsize = f.busoff + BusesLen(f.hdr.bus_cnt)
    /\ Contiguous(f)
    /\ \A k \in DOMAIN f.recs :
         /\ ReadLen(f.recs[k].md) = f.recs[k].len
         /\ f.recs[k].md.is_final_dev_entry = 1 <=> k = Len(f.recs)

Faithful(v) ==
  vpc[v] = "done" =>
    /\ IsSnapshot(vfd[v])
    /\ vdevs[v] = topo[vfd[v]].devs
    /\ vbuses[v] = topo[vfd[v]].buses

\* A viewer that gets to the end shows exactly the devices and buses of one
\* capture, whatever happened to the file meanwhile.
ViewFaithful == \A v \in Viewers : Faithful(v)

Justified(v) ==
  /\ vpc[v] \notin {"last", "garbled"}
  /\ vpc[v] = "magic" => ~IsSnapshot(vfd[v])
  /\ vpc[v] = "short" => ~IsSnapshot(vfd[v]) \/ Truncated(vfd[v])
  /\ vpc[v] = "size"  => Truncated(vfd[v]) \/ vstat[v].ino # vfd[v]
  /\ vpc[v] = "count" => topo[vfd[v]].devs = <<>> \/ topo[vfd[v]].buses = <<>>

\* A viewer only refuses a file for a reason that is really there: the file was
\* cut, is no snapshot, replaced the one whose size was checked, or came from a
\* capture that found no device or no bus.  Writer and reader never disagree on
\* the format.
RejectionsJustified == \A v \in Viewers : Justified(v)

\* The calls a process can still make, those of the loop over the devices counted once,
\* and the turns that this loop has left.
CaptureCalls(c) ==
  CASE cpc[c] = "idle"    -> 6
    [] cpc[c] = "scan"    -> 5
    [] cpc[c] = "prepare" -> 4
    [] cpc[c] = "devices" -> 3
    [] cpc[c] = "header"  -> 2
    [] cpc[c] = "link"    -> 1
    [] OTHER              -> 0
CaptureTurns(c) == Len(topo[c].devs) - wnum[c]

ViewCalls(v) ==
  CASE vpc[v] = "idle"    -> 5
    [] vpc[v] = "open"    -> 4
    [] vpc[v] = "header"  -> 3
    [] vpc[v] = "devices" -> 2
    [] vpc[v] = "buses"   -> 1
    [] OTHER              -> 0
ViewTurns(v) == vtotal[v].devs - vnum[v]

CaptureStands(c) == UNCHANGED <<cpc[c], topo[c], wnum[c], woff[c], wbytes[c]>>

CaptureNearer(c) ==
  \/ CaptureCalls(c)' < CaptureCalls(c)
  \/ CaptureCalls(c)' = CaptureCalls(c) /\ CaptureTurns(c)' \in 0..(CaptureTurns(c) - 1)

ViewStands(v) == UNCHANGED <<vpc[v], vfd[v], vtotal[v], vnum[v], voff[v], vdevs[v], vbuses[v]>>

ViewNearer(v) ==
  \/ ViewCalls(v)' < ViewCalls(v)
  \/ ViewCalls(v)' = ViewCalls(v) /\ ViewTurns(v)' \in 0..(ViewTurns(v) - 1)

AllComeNearer ==
  /\ \A c \in Capturers : CaptureStands(c) \/ CaptureNearer(c)
  /\ \A v \in Viewers : ViewStands(v) \/ ViewNearer(v)

\* No process does a call twice or makes another do one again, whatever is named, cut or
\* removed meanwhile: whoever takes a step, each process stands where it stood or has
\* fewer calls left, or the same ones and fewer devices to write or to read.
CallsComeNearer == [][AllComeNearer]_vars

\* A capture or a view that has begun ends.
Termination ==
  /\ \A c \in Capturers : cpc[c] \in CaptureBusy ~> cpc[c] \in CaptureEnd
  /\ \A v \in Viewers : vpc[v] \in ViewBusy ~> vpc[v] \in ViewEnd

(***************************************************************************)
(* The abstract store these processes implement.                           *)
(***************************************************************************)
Contents(i) == IF IsSnapshot(i) THEN topo[i] ELSE i

storeBar   == [p \in Paths |-> Contents(entry[p])]
outcomeBar == [c \in Capturers |-> IF cpc[c] \in CaptureEnd THEN cpc[c]
                                                            ELSE "running"]
heldBar    == [v \in Viewers |-> Contents(vfd[v])]
resultBar  == [v \in Viewers |->
                 IF vpc[v] = "done" THEN [devs |-> vdevs[v], buses |-> vbuses[v]]
                 ELSE IF vpc[v] \in Rejections THEN Refused ELSE Pending]

Store == INSTANCE SnapshotStore
           WITH store <- storeBar, outcome <- outcomeBar,
                held <- heldBar, result <- resultBar

\* The names appear, disappear and are viewed as if every snapshot were stored in
\* one step.
ImplementsStore == Store!Spec

(***************************************************************************)
(* The inductive invariant behind PublishedComplete, ViewFaithful and      *)
(* RejectionsJustified.                                                    *)
(***************************************************************************)

\* f holds the records of the first n devices of t, each where the one before
\* ends, and none overlapping a later one.
Recorded(f, t, n) ==
  /\ n <= Len(t.devs) /\ Len(f.recs) = n
  /\ \A k \in 1 .. n :
       /\ f.recs[k].md  = EncodeMd(t.devs[k], k, Len(t.devs))
       /\ f.recs[k].len = WrittenLen(t.devs[k])
       /\ f.recs[k].off = EndOfRecs(f, k-1)
  /\ \A j, k \in 1 .. n : j < k => f.recs[j].off + f.recs[j].len <= f.recs[k].off

\* f holds everything but the header.
BodyWritten(f, t) ==
  /\ Recorded(f, t, Len(t.devs))
  /\ f.busoff = EndOfRecs(f, Len(t.devs))
  /\ f.buses = t.buses

\* What a capture has put into its inode before each of its calls: off_ and
\* bytes_written_ never drift apart, and the file is as long as they say.
WriterInv(c) ==
  LET f == file[c]
      t == topo[c]
  IN
  /\ cpc[c] \in {"idle", "scan", "prepare", "failed"} =>
       /\ f = EmptyFile
       /\ wnum[c] = 0 /\ woff[c] = 0 /\ wbytes[c] = 0
  /\ cpc[c] \in {"prepare", "devices", "header", "link", "published"} => t \in Topologies
  /\ cpc[c] = "devices" =>
       /\ Recorded(f, t, wnum[c])
       /\ woff[c] = EndOfRecs(f, wnum[c])
       /\ woff[c] = wbytes[c] + HeaderLen
       /\ f.size = IF wbytes[c] = 0 THEN 0 ELSE woff[c]
  /\ cpc[c] = "header" =>
       /\ BodyWritten(f, t)
       /\ woff[c] = f.busoff + BusesLen(Len(t.buses))
       /\ woff[c] = wbytes[c] + HeaderLen
       /\ f.size = IF wbytes[c] = 0 THEN 0 ELSE woff[c]
  /\ cpc[c] \in {"link", "published"} =>
       /\ BodyWritten(f, t)
       /\ f.hdr = [fsize   |-> f.busoff + BusesLen(Len(t.buses)),
                   dev_cnt |-> Len(t.devs),
                   bus_cnt |-> Len(t.buses)]
       /\ f.size <= f.hdr.fsize
  /\ cpc[c] = "link" => f.size = f.hdr.fsize

\* Only finished inodes are reachable, by a name or by a descriptor.
Finished(i) == i = Foreign \/ (IsSnapshot(i) /\ cpc[i] = "published")

EntryInv(p) == entry[p] = NoInode \/ Finished(entry[p])

\* How far a viewer has got in its file.
ViewerInv(v) ==
  LET f == file[vfd[v]]
      t == topo[vfd[v]]
  IN
  /\ vpc[v] \in {"idle", "open", "header"} =>
       voff[v] = 0 /\ vdevs[v] = <<>> /\ vbuses[v] = <<>>
  /\ vfd[v] = NoInode \/ Finished(vfd[v])
  /\ vpc[v] \in {"idle", "open"} => vfd[v] = NoInode
  /\ vpc[v] \in {"header", "devices", "buses", "done",
                 "short", "magic", "size", "count"} => vfd[v] # NoInode
  /\ IsSnapshot(vstat[v].ino) =>
       LET g == file[vstat[v].ino] IN
       /\ Finished(vstat[v].ino)
       /\ g.size <= vstat[v].size /\ vstat[v].size <= g.hdr.fsize
  /\ vpc[v] \in {"devices", "buses", "done", "size", "count"} => IsSnapshot(vfd[v])
  /\ vpc[v] \in {"devices", "buses"} =>
       vtotal[v] = [devs |-> Len(t.devs), buses |-> Len(t.buses)]
  /\ vpc[v] = "devices" =>
       /\ vnum[v] \in 1 .. Len(t.devs)
       /\ vdevs[v] = SubSeq(t.devs, 1, vnum[v] - 1)
       /\ voff[v] = f.recs[vnum[v]].off
  /\ vpc[v] = "buses" =>
       /\ vdevs[v] = t.devs
       /\ voff[v] = f.busoff

IInv ==
  /\ TypeOK
  /\ \A c \in Capturers : WriterInv(c)
  /\ \A p \in Paths : EntryInv(p)
  /\ \A v \in Viewers : ViewerInv(v)
  /\ ViewFaithful
  /\ RejectionsJustified

(***************************************************************************)
(* What the documentation says and the code does not do.                   *)
(***************************************************************************)

\* README: "-c < path/to/snapshot >" obtains the topology "and save[s] it to file".
\* A capture that succeeds has just put its snapshot under the path it was given.
PublishedWhereRequested ==
  [][\A c \in Capturers :
       cpc[c] = "link" /\ cpc'[c] = "published" => entry'[req[c]] = c]_vars
=============================================================================
