--------------------------- MODULE SnapshotProofs ---------------------------
(***************************************************************************)
(* Theorems about Snapshot, for any processes, directories, names and      *)
(* topologies that satisfy its assumptions.                                *)
(***************************************************************************)
EXTENDS Snapshot, TLAPS

-----------------------------------------------------------------------------
(***************************************************************************)
(* The record format.                                                      *)
(***************************************************************************)

\* The record WriteDeviceMetadata writes for a descriptor of the sysfs provider is
\* as long as GetPCIDevDescriptors takes it to be, and decodes to that descriptor.
LEMMA RecordRoundTrip ==
  ASSUME NEW d \in DeviceDesc, WellFormed(d),
         NEW cur \in Nat, NEW total \in Nat
  PROVE  LET md == EncodeMd(d, cur, total) IN
         /\ md \in DeviceMd
         /\ ReadLen(md) = WrittenLen(d)
         /\ DecodeMd(md) = d
         /\ WrittenLen(d) \in Nat /\ WrittenLen(d) > DeviceMdLen
         /\ md.is_final_dev_entry = 1 <=> cur = total
<1> DEFINE md == EncodeMd(d, cur, total)
<1>0. d.dbdf \in Nat /\ d.cfg_space_len \in {256, 4096}
      /\ d.resources \in 1 .. 255 /\ d.driver_name \in 0 .. 254
  BY DEF DeviceDesc, WellFormed
<1>1. /\ U8(d.resources) = d.resources
      /\ DriverNameLen(d) = IF d.driver_name = 0 THEN 0 ELSE d.driver_name + 1
  BY <1>0 DEF U8, DriverNameLen
<1>2. DriverNameLen(d) \in 0 .. 255
  BY <1>0, <1>1
<1>3. md \in DeviceMd
  BY <1>0, <1>1, <1>2 DEF EncodeMd, DeviceMd
<1>4. CfgLen(md) = d.cfg_space_len
  BY <1>0 DEF CfgLen, EncodeMd
<1>5. ReadLen(md) = WrittenLen(d)
  BY <1>1, <1>4 DEF ReadLen, WrittenLen, EncodeMd
<1>6. DecodeMd(md) = d
  <2>1. DecodeMd(md) = [dbdf |-> d.dbdf, cfg_space_len |-> d.cfg_space_len,
                        resources |-> d.resources, driver_name |-> d.driver_name]
    BY <1>0, <1>1, <1>4 DEF DecodeMd, EncodeMd
  <2>2. QED
    BY <2>1 DEF DeviceDesc
<1>7. WrittenLen(d) \in Nat /\ WrittenLen(d) > DeviceMdLen
  <2>1. d.resources \in Nat /\ DriverNameLen(d) \in Nat /\ d.cfg_space_len \in Nat
        /\ d.cfg_space_len > 0
    BY <1>0, <1>2
  <2>2. d.resources * 24 \in Nat
    BY <2>1
  <2>3. QED
    BY <2>1, <2>2 DEF WrittenLen, DeviceMdLen, ResDescLen
<1>8. md.is_final_dev_entry = 1 <=> cur = total
  BY DEF EncodeMd
<1>9. QED
  BY <1>3, <1>5, <1>6, <1>7, <1>8

\* What a scan returns is made of well-formed descriptors.
LEMMA TopologyType ==
  ASSUME NEW t \in Topologies \cup {NoTopology}
  PROVE  /\ t.devs \in Seq(DeviceDesc) /\ t.buses \in Seq(BusDesc)
         /\ \A k \in 1 .. Len(t.devs) :
              t.devs[k] \in DeviceDesc /\ WellFormed(t.devs[k])
<1> DEFINE W == {d \in DeviceDesc : WellFormed(d)}
<1>1. CASE t \in Topologies
  <2>1. t \in [devs : Seq(W), buses : Seq(BusDesc)]
    BY <1>1, TopologiesAssumption
  <2>2. t.devs \in Seq(W) /\ t.buses \in Seq(BusDesc)
    <3> HIDE DEF W
    <3>1. QED
      BY <2>1
  <2>3. \A k \in 1 .. Len(t.devs) : t.devs[k] \in W
    <3> HIDE DEF W
    <3>1. QED
      BY <2>2
  <2>4. t.devs \in Seq(DeviceDesc)
    <3>1. W \subseteq DeviceDesc
      OBVIOUS
    <3> HIDE DEF W
    <3>2. QED
      BY <2>2, <3>1
  <2>5. QED
    BY <2>2, <2>3, <2>4
<1>2. CASE t = NoTopology
  BY <1>2 DEF NoTopology
<1>3. QED
  BY <1>1, <1>2
-----------------------------------------------------------------------------
(***************************************************************************)
(* The inductive invariant.  A step of one process leaves the inode and    *)
(* the variables of the others alone, and nothing rewrites what a name or  *)
(* an open descriptor refers to: those two facts carry most of IInv.       *)
(***************************************************************************)

\* Nothing that belongs to another capture than c changes.
OthersKept(c) ==
  /\ \A i \in Inodes \ {c} : file'[i] = file[i]
  /\ \A d \in Capturers \ {c} :
       /\ cpc'[d] = cpc[d] /\ topo'[d] = topo[d] /\ wnum'[d] = wnum[d]
       /\ woff'[d] = woff[d] /\ wbytes'[d] = wbytes[d]

\* The inode i loses at most its tail.
OnlyCut(i) ==
  /\ file'[i].size <= file[i].size
  /\ file'[i].hdr = file[i].hdr /\ file'[i].recs = file[i].recs
  /\ file'[i].busoff = file[i].busoff /\ file'[i].buses = file[i].buses

\* What is finished stays finished and is at most cut.
FinishedKept ==
  \A i \in Inodes : Finished(i) =>
    Finished(i)' /\ OnlyCut(i) /\ (IsSnapshot(i) => topo'[i] = topo[i])

LEMMA WriterKept ==
  ASSUME NEW c \in Capturers, WriterInv(c),
         file'[c] = file[c], cpc'[c] = cpc[c], topo'[c] = topo[c],
         wnum'[c] = wnum[c], woff'[c] = woff[c], wbytes'[c] = wbytes[c]
  PROVE  WriterInv(c)'
BY DEF WriterInv

\* What an open descriptor refers to is finished, so a viewer that does nothing
\* keeps what it knows about it.
LEMMA ViewerKept ==
  ASSUME IInv, TypeOK', FinishedKept, NEW v \in Viewers,
         vpc'[v] = vpc[v], vstat'[v] = vstat[v], vfd'[v] = vfd[v],
         vtotal'[v] = vtotal[v], vnum'[v] = vnum[v], voff'[v] = voff[v],
         vdevs'[v] = vdevs[v], vbuses'[v] = vbuses[v]
  PROVE  ViewerInv(v)' /\ Faithful(v)' /\ Justified(v)'
<1>1. ViewerInv(v) /\ Faithful(v) /\ Justified(v)
  BY DEF IInv, ViewFaithful, RejectionsJustified
<1>2. vfd[v] \in Inodes \cup {NoInode} /\ vstat[v].ino \in Inodes
      /\ vstat[v].size \in Nat
      /\ \A i \in Inodes : file[i].size \in Nat /\ file[i].hdr.fsize \in Nat
  BY DEF IInv, TypeOK, File, Header
<1>3. \A i \in Inodes : i = vfd[v] =>
        /\ Finished(i)' /\ OnlyCut(i)
        /\ IsSnapshot(i) => topo'[i] = topo[i]
  <2>1. \A i \in Inodes : i = vfd[v] => Finished(i)
    BY <1>1, DistinctAssumption DEF ViewerInv, Inodes
  <2>2. QED
    BY <2>1 DEF FinishedKept
<1>4. IsSnapshot(vfd[v]) => vfd[v] \in Inodes
  BY DEF IsSnapshot, Inodes
<1>5. ViewerInv(v)'
  <2>1. \A i \in Inodes :
          i = vstat[v].ino /\ IsSnapshot(i) =>
            /\ Finished(i)' /\ OnlyCut(i)
            /\ file[i].size <= vstat[v].size
            /\ vstat[v].size <= file[i].hdr.fsize
    BY <1>1 DEF ViewerInv, FinishedKept
  <2>2. \A i \in Inodes :
          i = vstat[v].ino /\ IsSnapshot(i) =>
            /\ Finished(i)'
            /\ file'[i].size <= vstat[v].size
            /\ vstat[v].size <= file'[i].hdr.fsize
    <3>1. \A i \in Inodes : OnlyCut(i) => file'[i].size <= file[i].size
                                         /\ file'[i].hdr.fsize = file[i].hdr.fsize
      BY DEF OnlyCut
    <3>2. \A i \in Inodes : file'[i].size \in Nat
      BY DEF TypeOK, File
    <3>3. QED
      BY <1>2, <2>1, <3>1, <3>2
  <2>3. /\ vpc[v] \in {"devices", "buses"} =>
             vtotal[v] = [devs  |-> Len(topo'[vfd[v]].devs),
                          buses |-> Len(topo'[vfd[v]].buses)]
        /\ vpc[v] = "devices" =>
             /\ vnum[v] \in 1 .. Len(topo'[vfd[v]].devs)
             /\ vdevs[v] = SubSeq(topo'[vfd[v]].devs, 1, vnum[v] - 1)
             /\ voff[v] = file'[vfd[v]].recs[vnum[v]].off
        /\ vpc[v] = "buses" =>
             /\ vdevs[v] = topo'[vfd[v]].devs
             /\ voff[v] = file'[vfd[v]].busoff
    BY <1>1, <1>3, <1>4 DEF ViewerInv, OnlyCut
  <2>4. (vfd[v] = NoInode \/ Finished(vfd[v]))'
    BY <1>2, <1>3
  <2>5. (IsSnapshot(vstat[v].ino) =>
           LET g == file[vstat[v].ino] IN
           /\ Finished(vstat[v].ino)
           /\ g.size <= vstat[v].size /\ vstat[v].size <= g.hdr.fsize)'
    BY <1>2, <2>2
  <2>6. QED
    BY <1>1, <2>3, <2>4, <2>5 DEF ViewerInv, IsSnapshot
<1>6. Faithful(v)'
  BY <1>1, <1>3, <1>4 DEF Faithful
<1>7. Justified(v)'
  <2>1. \A i \in Inodes : OnlyCut(i) /\ Truncated(i) => Truncated(i)'
    <3>1. \A i \in Inodes : file'[i].size \in Nat
      BY DEF TypeOK, File
    <3>2. QED
      BY <1>2, <3>1 DEF OnlyCut, Truncated
  <2>2. IsSnapshot(vfd[v]) /\ Truncated(vfd[v]) => Truncated(vfd[v])'
    BY <1>3, <1>4, <2>1
  <2>3. vpc[v] = "size" => IsSnapshot(vfd[v])
    BY <1>1 DEF ViewerInv
  <2>4. vpc[v] = "count" => topo'[vfd[v]] = topo[vfd[v]]
    BY <1>1, <1>3, <1>4 DEF ViewerInv
  <2>5. QED
    BY <1>1, <2>2, <2>3, <2>4 DEF Justified, IsSnapshot
<1>8. QED
  BY <1>5, <1>6, <1>7

\* What is left to prove of a step of the capture c.
LEMMA CaptureFrame ==
  ASSUME IInv, TypeOK', NEW c \in Capturers,
         OthersKept(c), UNCHANGED viewVars,
         cpc[c] # "published", WriterInv(c)',
         \A p \in Paths : \/ entry'[p] = entry[p]
                          \/ entry'[p] = c /\ cpc'[c] = "published"
  PROVE  IInv'
<1>1. FinishedKept
  <2>1. \A i \in Inodes : Finished(i) => i # c
    BY DistinctAssumption DEF Finished, IsSnapshot
  <2>2. \A i \in Inodes : file[i].size \in Nat
    BY DEF IInv, TypeOK, File
  <2>3. \A i \in Inodes : i # c => OnlyCut(i)
    BY <2>2 DEF OthersKept, OnlyCut
  <2>4. \A i \in Inodes : Finished(i) => Finished(i)'
    BY <2>1 DEF OthersKept, Finished, IsSnapshot
  <2>5. QED
    BY <2>1, <2>3, <2>4 DEF FinishedKept, OthersKept, IsSnapshot
<1>2. \A d \in Capturers : WriterInv(d)'
  <2>1. ASSUME NEW d \in Capturers, d # c
        PROVE  WriterInv(d)'
    BY <2>1, WriterKept DEF OthersKept, Inodes, IInv
  <2>2. QED
    BY <2>1
<1>3. \A p \in Paths : EntryInv(p)'
  <2>1. ASSUME NEW p \in Paths
        PROVE  EntryInv(p)'
    <3>1. CASE entry'[p] = entry[p]
      <4>1. entry[p] \in Inodes \cup {NoInode} /\ EntryInv(p)
        BY DEF IInv, TypeOK
      <4>2. \A i \in Inodes : i = entry[p] => i = NoInode \/ Finished(i)'
        BY <1>1, <4>1 DEF EntryInv, FinishedKept
      <4>3. QED
        BY <3>1, <4>1, <4>2 DEF EntryInv
    <3>2. CASE entry'[p] = c /\ cpc'[c] = "published"
      BY <3>2 DEF EntryInv, Finished, IsSnapshot
    <3>3. QED
      BY <3>1, <3>2
  <2>2. QED
    BY <2>1
<1>4. \A v \in Viewers : ViewerInv(v)' /\ Faithful(v)' /\ Justified(v)'
  BY <1>1, ViewerKept DEF viewVars
<1>5. QED
  BY <1>2, <1>3, <1>4 DEF IInv, ViewFaithful, RejectionsJustified

\* What is left to prove of a step of the viewer v, which changes no file and
\* nothing of a capture.
LEMMA ViewFrame ==
  ASSUME IInv, TypeOK', NEW v \in Viewers,
         UNCHANGED <<fsVars, capVars>>,
         \A w \in Viewers \ {v} :
           /\ vpc'[w] = vpc[w] /\ vstat'[w] = vstat[w] /\ vfd'[w] = vfd[w]
           /\ vtotal'[w] = vtotal[w] /\ vnum'[w] = vnum[w]
           /\ voff'[w] = voff[w] /\ vdevs'[w] = vdevs[w]
           /\ vbuses'[w] = vbuses[w],
         ViewerInv(v)', Faithful(v)', Justified(v)'
  PROVE  IInv'
<1>1. FinishedKept
  <2>1. \A i \in Inodes : file[i].size \in Nat
    BY DEF IInv, TypeOK, File
  <2>2. \A i \in Inodes : OnlyCut(i)
    BY <2>1 DEF OnlyCut, fsVars
  <2>3. \A i \in Inodes : Finished(i) => Finished(i)'
    BY DEF Finished, capVars
  <2>4. QED
    BY <2>2, <2>3 DEF FinishedKept, capVars
<1>2. \A c \in Capturers : WriterInv(c)'
  BY WriterKept DEF IInv, fsVars, capVars
<1>3. \A p \in Paths : EntryInv(p)'
  BY DEF IInv, EntryInv, Finished, fsVars, capVars
<1>4. \A w \in Viewers : ViewerInv(w)' /\ Faithful(w)' /\ Justified(w)'
  BY <1>1, ViewerKept
<1>5. QED
  BY <1>2, <1>3, <1>4 DEF IInv, ViewFaithful, RejectionsJustified

-----------------------------------------------------------------------------
(***************************************************************************)
(* Every step preserves the invariant: the captures.                       *)
(***************************************************************************)

LEMMA EmptyFileType == EmptyFile \in File /\ ForeignFile \in File
<1>1. NoHeader \in Header
  BY DEF NoHeader, Header
<1>2. EmptyFile \in File
  BY <1>1 DEF EmptyFile, File
<1>3. ForeignFile \in File
  BY <1>2 DEF ForeignFile, File
<1>4. QED
  BY <1>2, <1>3

LEMMA InitInv == Init => IInv
<1> SUFFICES ASSUME Init
             PROVE  IInv
  OBVIOUS
<1>1. TypeOK
  BY EmptyFileType
  DEF Init, TypeOK, Inodes, CaptureBusy, ViewBusy, IsSnapshot
<1>2. \A c \in Capturers : WriterInv(c)
  BY DistinctAssumption DEF Init, WriterInv, Inodes
<1>3. \A p \in Paths : EntryInv(p)
  BY DEF Init, EntryInv, Finished
<1>4. \A v \in Viewers : ViewerInv(v) /\ Faithful(v) /\ Justified(v)
  BY DistinctAssumption DEF Init, ViewerInv, Faithful, Justified, IsSnapshot
<1>5. QED
  BY <1>1, <1>2, <1>3, <1>4 DEF IInv, ViewFaithful, RejectionsJustified

LEMMA StartCaptureInv ==
  ASSUME IInv, NEW c \in Capturers, StartCapture(c)
  PROVE  IInv'
<1>1. TypeOK'
  BY DEF IInv, TypeOK, StartCapture, viewVars, CaptureBusy, CaptureEnd
<1>2. OthersKept(c)
  BY DEF IInv, TypeOK, StartCapture, OthersKept
<1>3. WriterInv(c)'
  BY DEF IInv, TypeOK, StartCapture, WriterInv
<1>4. QED
  BY <1>1, <1>2, <1>3, CaptureFrame DEF StartCapture

LEMMA ScanInv ==
  ASSUME IInv, NEW c \in Capturers, Scan(c)
  PROVE  IInv'
<1>1. TypeOK'
  BY DEF IInv, TypeOK, Scan, viewVars, CaptureBusy, CaptureEnd
<1>2. OthersKept(c)
  BY DEF IInv, TypeOK, Scan, OthersKept
<1>3. WriterInv(c)'
  BY DEF IInv, TypeOK, Scan, WriterInv
<1>4. QED
  BY <1>1, <1>2, <1>3, CaptureFrame DEF Scan

LEMMA ExitInv ==
  ASSUME IInv, NEW c \in Capturers, cpc[c] # "published", ExitWithout(c)
  PROVE  IInv'
<1>1. TypeOK'
  BY EmptyFileType
  DEF IInv, TypeOK, ExitWithout, viewVars, CaptureBusy, CaptureEnd, Inodes
<1>2. OthersKept(c)
  BY DEF IInv, TypeOK, ExitWithout, OthersKept
<1>3. WriterInv(c)'
  BY DEF IInv, TypeOK, ExitWithout, WriterInv, Inodes
<1>4. QED
  BY <1>1, <1>2, <1>3, CaptureFrame DEF ExitWithout

LEMMA PrepareInv ==
  ASSUME IInv, NEW c \in Capturers, Prepare(c)
  PROVE  IInv'
<1> USE DEF HeaderLen
<1>1. TypeOK'
  <2>1. woff[c] + HeaderLen \in Nat
    BY DEF IInv, TypeOK
  <2>2. woff' \in [Capturers -> Nat]
    BY <2>1 DEF IInv, TypeOK, Prepare
  <2>3. file' \in [Inodes -> File]
    BY EmptyFileType DEF IInv, TypeOK, Prepare
  <2>4. cpc' \in [Capturers -> {"idle"} \cup CaptureBusy \cup CaptureEnd]
    BY DEF IInv, TypeOK, Prepare, CaptureBusy
  <2>5. QED
    BY <2>2, <2>3, <2>4 DEF IInv, TypeOK, Prepare, viewVars
<1>2. OthersKept(c)
  BY DEF IInv, TypeOK, Prepare, OthersKept
<1>3. WriterInv(c)'
  <2>1. /\ file'[c] = EmptyFile /\ woff'[c] = HeaderLen
        /\ cpc'[c] = "devices" /\ wnum'[c] = 0 /\ wbytes'[c] = 0
        /\ topo'[c] = topo[c] /\ topo[c] \in Topologies
    <3>1. woff[c] = 0 /\ wnum[c] = 0 /\ wbytes[c] = 0 /\ topo[c] \in Topologies
      BY DEF IInv, WriterInv, Prepare
    <3>2. woff'[c] = woff[c] + HeaderLen
      BY DEF IInv, TypeOK, Prepare
    <3>3. QED
      BY <3>1, <3>2 DEF IInv, TypeOK, Prepare, Inodes
  <2>2. Len(topo[c].devs) \in Nat
    BY <2>1, TopologyType
  <2>3. Recorded(EmptyFile, topo[c], 0)
    BY <2>2 DEF Recorded, EmptyFile
  <2>4. QED
    BY <2>1, <2>3 DEF WriterInv, EndOfRecs, EmptyFile, HeaderLen
<1>4. QED
  BY <1>1, <1>2, <1>3, CaptureFrame DEF Prepare

\* g is f with the record rec for the next device of t, at the end of the others.
Adds(f, g, t, n, rec) ==
  /\ n < Len(t.devs)
  /\ g.recs = Append(f.recs, rec)
  /\ rec.off = EndOfRecs(f, n)
  /\ rec.len = WrittenLen(t.devs[n+1])
  /\ rec.md  = EncodeMd(t.devs[n+1], n+1, Len(t.devs))

LEMMA RecordAppended ==
  ASSUME NEW f \in File, NEW g \in File, NEW t \in Topologies, NEW n \in Nat,
         NEW rec \in DevRec, Recorded(f, t, n), Adds(f, g, t, n, rec)
  PROVE  /\ Recorded(g, t, n+1)
         /\ EndOfRecs(g, n+1) = EndOfRecs(f, n) + WrittenLen(t.devs[n+1])
<1>1. f.recs \in Seq(DevRec) /\ Len(f.recs) = n
  BY DEF File, Recorded
<1>2. Len(t.devs) \in Nat
  BY TopologyType
<1>3. /\ Len(g.recs) = n+1
      /\ \A k \in 1 .. n : g.recs[k] = f.recs[k]
      /\ g.recs[n+1] = rec
  BY <1>1 DEF Adds
<1>4. \A k \in 1 .. n+1 : EndOfRecs(g, k-1) = EndOfRecs(f, k-1)
  BY <1>3 DEF EndOfRecs
<1>5. \A k \in 1 .. n+1 :
        /\ g.recs[k].md  = EncodeMd(t.devs[k], k, Len(t.devs))
        /\ g.recs[k].len = WrittenLen(t.devs[k])
        /\ g.recs[k].off = EndOfRecs(g, k-1)
  <2>1. ASSUME NEW k \in 1 .. n
        PROVE  /\ g.recs[k].md  = EncodeMd(t.devs[k], k, Len(t.devs))
               /\ g.recs[k].len = WrittenLen(t.devs[k])
               /\ g.recs[k].off = EndOfRecs(g, k-1)
    <3>1. g.recs[k] = f.recs[k] /\ EndOfRecs(g, k-1) = EndOfRecs(f, k-1)
      BY <1>3, <1>4
    <3>2. QED
      BY <3>1 DEF Recorded
  <2>2. /\ g.recs[n+1].md  = EncodeMd(t.devs[n+1], n+1, Len(t.devs))
        /\ g.recs[n+1].len = WrittenLen(t.devs[n+1])
        /\ g.recs[n+1].off = EndOfRecs(g, n)
    BY <1>3, <1>4 DEF Adds
  <2>3. ASSUME NEW k \in 1 .. n+1
        PROVE  /\ g.recs[k].md  = EncodeMd(t.devs[k], k, Len(t.devs))
               /\ g.recs[k].len = WrittenLen(t.devs[k])
               /\ g.recs[k].off = EndOfRecs(g, k-1)
    <3>1. CASE k \in 1 .. n
      BY <2>1, <3>1
    <3>2. CASE k = n+1
      <4>1. k-1 = n
        BY <3>2
      <4>2. QED
        BY <2>2, <3>2, <4>1
    <3>3. QED
      BY <3>1, <3>2
  <2>4. QED
    BY <2>3
<1>6. \A j, k \in 1 .. n+1 :
        j < k => g.recs[j].off + g.recs[j].len <= g.recs[k].off
  <2>0. \A k \in 1 .. n : f.recs[k] \in DevRec
    BY <1>1
  <2>1. \A k \in 1 .. n : f.recs[k].off \in Nat /\ f.recs[k].len \in Nat
    BY <2>0 DEF DevRec
  <2>2. \A j, k \in 1 .. n :
          j < k => g.recs[j].off + g.recs[j].len <= g.recs[k].off
    BY <1>3 DEF Recorded
  <2>3. ASSUME NEW j \in 1 .. n
        PROVE  g.recs[j].off + g.recs[j].len <= g.recs[n+1].off
    <3>1. g.recs[n+1].off = f.recs[n].off + f.recs[n].len
      BY <1>3 DEF EndOfRecs, Adds
    <3>2. CASE j = n
      <4>1. f.recs[n].off + f.recs[n].len \in Nat
        BY <2>1, <3>2
      <4>2. QED
        BY <1>3, <3>1, <3>2, <4>1
    <3>3. CASE j < n
      <4>1. f.recs[j].off + f.recs[j].len <= f.recs[n].off
        BY <3>3 DEF Recorded
      <4>2. n \in 1 .. n
        OBVIOUS
      <4>3. f.recs[n].off <= f.recs[n].off + f.recs[n].len
        BY <2>1, <4>2
      <4>4. f.recs[j].off + f.recs[j].len <= f.recs[n].off + f.recs[n].len
        <5>1. /\ f.recs[j].off \in Nat /\ f.recs[j].len \in Nat
              /\ f.recs[n].off \in Nat /\ f.recs[n].len \in Nat
          BY <2>1, <4>2
        <5>2. QED
          BY <4>1, <4>3, <5>1
      <4>5. QED
        BY <1>3, <3>1, <4>4
    <3>4. QED
      BY <3>2, <3>3
  <2>4. \A j, k \in 1 .. n+1 : j < k => j \in 1 .. n /\ (k \in 1 .. n \/ k = n+1)
    OBVIOUS
  <2>5. QED
    BY <2>2, <2>3, <2>4
<1>7. Recorded(g, t, n+1)
  <2>1. n+1 <= Len(t.devs)
    BY <1>2 DEF Adds
  <2>2. QED
    BY <1>3, <1>5, <1>6, <2>1 DEF Recorded
<1>8. EndOfRecs(g, n+1) = EndOfRecs(f, n) + WrittenLen(t.devs[n+1])
  BY <1>3 DEF EndOfRecs, Adds
<1>9. QED
  BY <1>7, <1>8

LEMMA WriteDeviceInv ==
  ASSUME IInv, NEW c \in Capturers, WriteDevice(c)
  PROVE  IInv'
<1> DEFINE n == wnum[c]
           d == topo[c].devs[n + 1]
           rec == [off |-> woff[c], len |-> WrittenLen(d),
                   md  |-> EncodeMd(d, n + 1, Len(topo[c].devs))]
           g == [file[c] EXCEPT !.recs = Append(@, rec),
                                !.size = woff[c] + WrittenLen(d)]
<1>1. /\ n \in Nat /\ woff[c] \in Nat /\ wbytes[c] \in Nat
      /\ file[c] \in File /\ c \in Inodes
      /\ topo[c] \in Topologies /\ Recorded(file[c], topo[c], n)
      /\ woff[c] = EndOfRecs(file[c], n) /\ woff[c] = wbytes[c] + HeaderLen
  BY DEF IInv, TypeOK, WriterInv, WriteDevice, Inodes
<1>2. Len(topo[c].devs) \in Nat /\ n < Len(topo[c].devs)
  BY <1>1, TopologyType DEF WriteDevice
<1>3. d \in DeviceDesc /\ WellFormed(d)
  BY <1>1, <1>2, TopologyType
<1>4. /\ EncodeMd(d, n + 1, Len(topo[c].devs)) \in DeviceMd
      /\ WrittenLen(d) \in Nat /\ WrittenLen(d) > 0
  <2>1. n + 1 \in Nat
    BY <1>1
  <2>2. QED
    BY <1>2, <1>3, <2>1, RecordRoundTrip DEF DeviceMdLen
<1>5. rec \in DevRec
  BY <1>1, <1>4 DEF DevRec
<1>6. /\ wnum' = [wnum EXCEPT ![c] = n + 1]
      /\ file' = [file EXCEPT ![c] = g]
      /\ woff' = [woff EXCEPT ![c] = @ + WrittenLen(d)]
      /\ wbytes' = [wbytes EXCEPT ![c] = @ + WrittenLen(d)]
  BY DEF WriteDevice
<1> HIDE DEF rec, d
<1>7. /\ file'[c] \in File
      /\ file'[c].recs = Append(file[c].recs, rec)
      /\ file'[c].size = woff[c] + WrittenLen(d)
  <2>1. woff[c] + WrittenLen(d) \in Nat
    BY <1>1, <1>4
  <2>2. file[c].recs \in Seq(DevRec) /\ Append(file[c].recs, rec) \in Seq(DevRec)
    BY <1>1, <1>5 DEF File
  <2>3. file'[c] = g
    <3> HIDE DEF g
    <3>1. QED
      BY <1>1, <1>6 DEF IInv, TypeOK
  <2>4. QED
    BY <1>1, <2>1, <2>2, <2>3 DEF File
<1>8. TypeOK'
  <2>1. n + 1 \in Nat /\ woff[c] + WrittenLen(d) \in Nat
        /\ wbytes[c] + WrittenLen(d) \in Nat
    BY <1>1, <1>4
  <2>2. wnum' \in [Capturers -> Nat] /\ woff' \in [Capturers -> Nat]
        /\ wbytes' \in [Capturers -> Nat]
    BY <1>6, <2>1 DEF IInv, TypeOK
  <2>3. file' \in [Inodes -> File]
    BY <1>6, <1>7 DEF IInv, TypeOK
  <2>4. QED
    BY <2>2, <2>3 DEF IInv, TypeOK, WriteDevice, viewVars
<1>9. OthersKept(c)
  BY <1>6 DEF IInv, TypeOK, WriteDevice, OthersKept
<1>10. WriterInv(c)'
  <2>1. Adds(file[c], file'[c], topo[c], n, rec)
    BY <1>1, <1>2, <1>7 DEF Adds, rec, d
  <2>2. /\ Recorded(file'[c], topo[c], n + 1)
        /\ EndOfRecs(file'[c], n + 1)
             = EndOfRecs(file[c], n) + WrittenLen(topo[c].devs[n + 1])
    <3> HIDE DEF n
    <3>1. QED
      BY <1>1, <1>5, <1>7, <2>1, RecordAppended
  <2>3. /\ wnum'[c] = n + 1 /\ woff'[c] = woff[c] + WrittenLen(d)
        /\ wbytes'[c] = wbytes[c] + WrittenLen(d)
        /\ cpc'[c] = "devices" /\ topo'[c] = topo[c]
    BY <1>6 DEF IInv, TypeOK, WriteDevice
  <2>4. woff'[c] = wbytes'[c] + HeaderLen /\ wbytes'[c] # 0
    BY <1>1, <1>4, <2>3 DEF HeaderLen
  <2>5. file'[c].size = woff'[c]
    BY <1>7, <2>3
  <2>6. QED
    BY <1>1, <2>2, <2>3, <2>4, <2>5 DEF WriterInv, d
<1>11. QED
  BY <1>8, <1>9, <1>10, CaptureFrame DEF WriteDevice

LEMMA WriteBusesInv ==
  ASSUME IInv, NEW c \in Capturers, WriteBuses(c)
  PROVE  IInv'
<1> DEFINE t == topo[c]
           len == BusesLen(Len(t.buses))
<1>1. /\ wnum[c] = Len(t.devs) /\ woff[c] \in Nat /\ wbytes[c] \in Nat
      /\ file[c] \in File /\ c \in Inodes
      /\ t \in Topologies /\ Recorded(file[c], t, Len(t.devs))
      /\ woff[c] = EndOfRecs(file[c], Len(t.devs))
      /\ woff[c] = wbytes[c] + HeaderLen
      /\ file[c].size = IF wbytes[c] = 0 THEN 0 ELSE woff[c]
  BY DEF IInv, TypeOK, WriterInv, WriteBuses, Inodes
<1>2. t.buses \in Seq(BusDesc)
  BY <1>1, TopologyType
<1>3. len \in Nat
  <2>1. Len(t.buses) \in Nat
    BY <1>2
  <2>2. QED
    BY <2>1 DEF BusesLen, BusDescLen
<1>4. \E g \in File :
        /\ g = [file[c] EXCEPT !.buses = t.buses, !.busoff = woff[c],
                               !.size = IF len = 0 THEN @ ELSE woff[c] + len]
        /\ file' = [file EXCEPT ![c] = g]
        /\ woff' = [woff EXCEPT ![c] = @ + len]
        /\ wbytes' = [wbytes EXCEPT ![c] = @ + len]
  <2> DEFINE g == [file[c] EXCEPT !.buses = t.buses, !.busoff = woff[c],
                               !.size = IF len = 0 THEN @ ELSE woff[c] + len]
  <2>1. woff[c] + len \in Nat /\ file[c].size \in Nat
    BY <1>1, <1>3 DEF File
  <2>2. g \in File
    <3> HIDE DEF len
    <3>1. QED
      BY <1>1, <1>2, <2>1 DEF File
  <2>3. file' = [file EXCEPT ![c] = g]
    BY DEF WriteBuses
  <2>4. QED
    BY <2>2, <2>3 DEF WriteBuses
<1> HIDE DEF len
<1>5. PICK g \in File :
        /\ g = [file[c] EXCEPT !.buses = t.buses, !.busoff = woff[c],
                               !.size = IF len = 0 THEN @ ELSE woff[c] + len]
        /\ file' = [file EXCEPT ![c] = g]
        /\ woff' = [woff EXCEPT ![c] = @ + len]
        /\ wbytes' = [wbytes EXCEPT ![c] = @ + len]
  BY <1>4
<1>6. TypeOK'
  <2>1. woff[c] + len \in Nat /\ wbytes[c] + len \in Nat
    BY <1>1, <1>3
  <2>2. woff' \in [Capturers -> Nat] /\ wbytes' \in [Capturers -> Nat]
    BY <1>5, <2>1 DEF IInv, TypeOK
  <2>3. file' \in [Inodes -> File]
    BY <1>5 DEF IInv, TypeOK
  <2>4. QED
    BY <2>2, <2>3 DEF IInv, TypeOK, WriteBuses, viewVars, CaptureBusy
<1>7. OthersKept(c)
  BY <1>5 DEF IInv, TypeOK, WriteBuses, OthersKept
<1>8. WriterInv(c)'
  <2>1. /\ file'[c] = g /\ woff'[c] = woff[c] + len
        /\ wbytes'[c] = wbytes[c] + len /\ cpc'[c] = "header" /\ topo'[c] = t
    BY <1>1, <1>5 DEF IInv, TypeOK, WriteBuses
  <2>2. /\ g.recs = file[c].recs /\ g.busoff = woff[c] /\ g.buses = t.buses
        /\ g.size = IF len = 0 THEN file[c].size ELSE woff[c] + len
    BY <1>1, <1>5 DEF File
  <2>3. BodyWritten(g, t)
    BY <1>1, <2>2 DEF BodyWritten, Recorded, EndOfRecs
  <2>4. woff'[c] = g.busoff + len /\ woff'[c] = wbytes'[c] + HeaderLen
    BY <1>1, <1>3, <2>1, <2>2 DEF HeaderLen
  <2>5. g.size = IF wbytes'[c] = 0 THEN 0 ELSE woff'[c]
    BY <1>1, <1>3, <2>1, <2>2
  <2>6. QED
    BY <1>1, <2>1, <2>3, <2>4, <2>5 DEF WriterInv, len
<1>9. QED
  BY <1>6, <1>7, <1>8, CaptureFrame DEF WriteBuses

LEMMA StoreHeaderInv ==
  ASSUME IInv, NEW c \in Capturers, StoreHeader(c)
  PROVE  IInv'
<1> DEFINE t == topo[c]
           f == file[c]
           g == [f EXCEPT !.hdr  = MainHeader(c),
                          !.size = IF @ < HeaderLen THEN HeaderLen ELSE @]
<1>1. /\ woff[c] \in Nat /\ wbytes[c] \in Nat
      /\ f \in File /\ c \in Inodes
      /\ t \in Topologies /\ BodyWritten(f, t)
      /\ woff[c] = f.busoff + BusesLen(Len(t.buses))
      /\ woff[c] = wbytes[c] + HeaderLen
      /\ f.size = IF wbytes[c] = 0 THEN 0 ELSE woff[c]
  BY DEF IInv, TypeOK, WriterInv, StoreHeader, Inodes
<1>2. Len(t.devs) \in Nat /\ Len(t.buses) \in Nat
  BY <1>1, TopologyType
<1>3. MainHeader(c) \in Header
  BY <1>1, <1>2 DEF MainHeader, Header, HeaderLen
<1>4. g \in File
  <2>1. f.size \in Nat
    BY <1>1 DEF File
  <2>2. QED
    BY <1>1, <1>3, <2>1 DEF File, HeaderLen
<1>5. file' = [file EXCEPT ![c] = g]
  BY DEF StoreHeader
<1>6. /\ g.recs = f.recs /\ g.busoff = f.busoff /\ g.buses = f.buses
      /\ g.hdr = MainHeader(c)
      /\ g.size = IF f.size < HeaderLen THEN HeaderLen ELSE f.size
  BY <1>1 DEF File
<1> HIDE DEF g
<1>7. TypeOK'
  <2>1. file' \in [Inodes -> File]
    BY <1>4, <1>5 DEF IInv, TypeOK
  <2>2. QED
    BY <2>1 DEF IInv, TypeOK, StoreHeader, viewVars, CaptureBusy
<1>8. OthersKept(c)
  BY <1>5 DEF IInv, TypeOK, StoreHeader, OthersKept
<1>9. WriterInv(c)'
  <2>1. file'[c] = g /\ cpc'[c] = "link" /\ topo'[c] = t
    BY <1>1, <1>5 DEF IInv, TypeOK, StoreHeader
  <2>2. BodyWritten(g, t)
    BY <1>1, <1>6 DEF BodyWritten, Recorded, EndOfRecs
  <2>3. g.hdr = [fsize   |-> g.busoff + BusesLen(Len(t.buses)),
                 dev_cnt |-> Len(t.devs),
                 bus_cnt |-> Len(t.buses)]
    BY <1>1, <1>6 DEF MainHeader
  <2>4. g.size = woff[c]
    BY <1>1, <1>6 DEF HeaderLen
  <2>5. g.size = g.hdr.fsize
    BY <1>1, <1>6, <2>3, <2>4
  <2>6. g.size <= g.hdr.fsize
    BY <1>1, <2>4, <2>5
  <2>7. QED
    BY <1>1, <2>1, <2>2, <2>3, <2>5, <2>6 DEF WriterInv
<1>10. QED
  BY <1>7, <1>8, <1>9, CaptureFrame DEF StoreHeader

LEMMA FinalizeInv ==
  ASSUME IInv, NEW c \in Capturers, Finalize(c)
  PROVE  IInv'
<1>1. CASE ExitWithout(c)
  BY <1>1, ExitInv DEF Finalize
<1>2. CASE /\ entry' = [entry EXCEPT ![LinkTarget(c)] = c]
           /\ cpc'   = [cpc EXCEPT ![c] = "published"]
           /\ UNCHANGED <<file, req, topo, wnum, woff, wbytes, viewVars>>
  <2>1. TypeOK'
    BY <1>2 DEF IInv, TypeOK, viewVars, CaptureEnd, Inodes
  <2>2. OthersKept(c)
    BY <1>2 DEF IInv, TypeOK, OthersKept
  <2>3. WriterInv(c)'
    BY <1>2 DEF IInv, TypeOK, WriterInv, Finalize
  <2>4. \A p \in Paths : \/ entry'[p] = entry[p]
                         \/ entry'[p] = c /\ cpc'[c] = "published"
    BY <1>2 DEF IInv, TypeOK
  <2>5. QED
    BY <1>2, <2>1, <2>2, <2>3, <2>4, CaptureFrame DEF Finalize
<1>3. QED
  BY <1>1, <1>2 DEF Finalize

LEMMA AbortCaptureInv ==
  ASSUME IInv, NEW c \in Capturers, AbortCapture(c)
  PROVE  IInv'
BY ExitInv DEF AbortCapture, CaptureBusy

-----------------------------------------------------------------------------
(***************************************************************************)
(* The user.                                                               *)
(***************************************************************************)

LEMMA RemoveInv ==
  ASSUME IInv, NEW p \in Paths, Remove(p)
  PROVE  IInv'
<1>1. TypeOK'
  BY DEF IInv, TypeOK, Remove, capVars, viewVars
<1>2. FinishedKept
  <2>1. \A i \in Inodes : file[i].size \in Nat
    BY DEF IInv, TypeOK, File
  <2>2. QED
    BY <2>1 DEF Remove, FinishedKept, Finished, OnlyCut, capVars
<1>3. \A c \in Capturers : WriterInv(c)'
  BY WriterKept DEF IInv, Remove, capVars
<1>4. \A q \in Paths : EntryInv(q)'
  BY DEF IInv, TypeOK, Remove, EntryInv, Finished, capVars
<1>5. \A v \in Viewers : ViewerInv(v)' /\ Faithful(v)' /\ Justified(v)'
  BY <1>1, <1>2, ViewerKept DEF Remove, viewVars
<1>6. QED
  BY <1>1, <1>3, <1>4, <1>5 DEF IInv, ViewFaithful, RejectionsJustified

LEMMA TruncateInv ==
  ASSUME IInv, NEW p \in Paths, Truncate(p)
  PROVE  IInv'
<1> DEFINE i == entry[p]
<1>1. i \in Inodes /\ Finished(i)
  BY DEF IInv, TypeOK, Truncate, EntryInv
<1>2. file[i] \in File
  BY <1>1 DEF IInv, TypeOK
<1>3. PICK n \in CutPoints(file[i]) :
        n < file[i].size /\ file' = [file EXCEPT ![i].size = n]
  BY DEF Truncate
<1>4. n \in Nat
  <2>1. file[i].recs \in Seq(DevRec) /\ file[i].busoff \in Nat
    BY <1>2 DEF File
  <2>2. \A k \in DOMAIN file[i].recs : file[i].recs[k] \in DevRec
    BY <2>1
  <2>3. \A k \in DOMAIN file[i].recs : file[i].recs[k].off \in Nat
    BY <2>2 DEF DevRec
  <2>4. QED
    BY <2>1, <2>3 DEF CutPoints, HeaderLen
<1>5. TypeOK'
  <2>1. file' \in [Inodes -> File]
    BY <1>1, <1>2, <1>3, <1>4 DEF IInv, TypeOK, File
  <2>2. QED
    BY <2>1 DEF IInv, TypeOK, Truncate, capVars, viewVars
<1>6. \A j \in Inodes : OnlyCut(j)
  <2>1. \A j \in Inodes \ {i} : file'[j] = file[j]
    BY <1>3 DEF IInv, TypeOK
  <2>2. file'[i] = [file[i] EXCEPT !.size = n]
    BY <1>1, <1>3 DEF IInv, TypeOK
  <2>3. OnlyCut(i)
    BY <1>2, <1>3, <1>4, <2>2 DEF OnlyCut, File
  <2>4. \A j \in Inodes : file[j].size \in Nat
    BY DEF IInv, TypeOK, File
  <2>5. QED
    BY <2>1, <2>3, <2>4 DEF OnlyCut
<1>7. FinishedKept
  BY <1>6 DEF Truncate, FinishedKept, Finished, capVars
<1>8. \A c \in Capturers : WriterInv(c)'
  <2>1. ASSUME NEW c \in Capturers, c # i
        PROVE  WriterInv(c)'
    BY <1>3, <2>1, WriterKept DEF IInv, TypeOK, Truncate, capVars, Inodes
  <2>2. ASSUME NEW c \in Capturers, c = i
        PROVE  WriterInv(c)'
    <3>1. cpc[c] = "published" /\ cpc'[c] = "published" /\ topo'[c] = topo[c]
      BY <1>1, <2>2, DistinctAssumption DEF Finished, Truncate, capVars
    <3>2. WriterInv(c) /\ OnlyCut(c)
      BY <1>1, <1>6, <2>2 DEF IInv
    <3>3. BodyWritten(file'[c], topo[c])
      BY <3>1, <3>2 DEF WriterInv, OnlyCut, BodyWritten, Recorded, EndOfRecs
    <3>4. file'[c].size <= file'[c].hdr.fsize
      <4>1. /\ file'[c].size <= file[c].size
            /\ file[c].size <= file[c].hdr.fsize
            /\ file'[c].hdr = file[c].hdr
        BY <3>1, <3>2 DEF WriterInv, OnlyCut
      <4>2. /\ file'[c].size \in Nat /\ file[c].size \in Nat
            /\ file[c].hdr.fsize \in Nat
        BY <1>5, <2>2, <1>1 DEF IInv, TypeOK, File, Header
      <4>3. QED
        BY <4>1, <4>2
    <3>5. QED
      BY <3>1, <3>2, <3>3, <3>4 DEF WriterInv, OnlyCut
  <2>3. QED
    BY <2>1, <2>2
<1>9. \A q \in Paths : EntryInv(q)'
  BY DEF IInv, Truncate, EntryInv, Finished, capVars
<1>10. \A v \in Viewers : ViewerInv(v)' /\ Faithful(v)' /\ Justified(v)'
  BY <1>5, <1>7, ViewerKept DEF Truncate, viewVars
<1>11. QED
  BY <1>5, <1>8, <1>9, <1>10 DEF IInv, ViewFaithful, RejectionsJustified

-----------------------------------------------------------------------------
(***************************************************************************)
(* The viewers.                                                            *)
(***************************************************************************)

LEMMA StartViewInv ==
  ASSUME IInv, NEW v \in Viewers, StartView(v)
  PROVE  IInv'
<1> DEFINE i == entry[vpath[v]]
<1>1. ViewerInv(v) /\ Faithful(v) /\ Justified(v) /\ vpath[v] \in Paths
  BY DEF IInv, ViewFaithful, RejectionsJustified, TypeOK
<1>2. i \in Inodes \cup {NoInode} /\ (i # NoInode => i \in Inodes /\ Finished(i))
  BY <1>1 DEF IInv, TypeOK, EntryInv
<1>3. \A j \in Inodes : file[j].size \in Nat
  BY DEF IInv, TypeOK, File
<1>4. TypeOK'
  <2>1. vpc' \in [Viewers -> {"idle"} \cup ViewBusy \cup ViewEnd]
    BY DEF IInv, TypeOK, StartView, ViewBusy, ViewEnd, Rejections
  <2>2. vstat' \in [Viewers -> [ino : Inodes, size : Nat]]
    <3>1. CASE i = NoInode
      BY <3>1 DEF IInv, TypeOK, StartView
    <3>2. CASE i # NoInode
      <4>1. i \in Inodes /\ file[i].size \in Nat
        BY <1>2, <1>3, <3>2
      <4>2. vstat' = [vstat EXCEPT ![v] = [ino |-> i, size |-> file[i].size]]
        BY <3>2 DEF StartView
      <4>3. [ino |-> i, size |-> file[i].size] \in [ino : Inodes, size : Nat]
        BY <4>1
      <4>4. QED
        BY <4>2, <4>3 DEF IInv, TypeOK
    <3>3. QED
      BY <3>1, <3>2
  <2>3. QED
    BY <2>1, <2>2 DEF IInv, TypeOK, StartView, fsVars, capVars
<1>5. UNCHANGED <<fsVars, capVars>>
  BY DEF StartView
<1>6. vpc'[v] \in {"open", "missing"} /\ vfd'[v] = vfd[v] /\ voff'[v] = voff[v]
      /\ vdevs'[v] = vdevs[v] /\ vbuses'[v] = vbuses[v] /\ vpc[v] = "idle"
  BY DEF StartView, IInv, TypeOK
<1>7. ViewerInv(v)'
  <2>1. IsSnapshot(vstat'[v].ino) =>
          LET g == file[vstat'[v].ino] IN
          /\ Finished(vstat'[v].ino)
          /\ g.size <= vstat'[v].size /\ vstat'[v].size <= g.hdr.fsize
    <3>1. CASE i = NoInode
      BY <1>1, <3>1 DEF StartView, ViewerInv
    <3>2. CASE i # NoInode
      <4>1. vstat'[v].ino = i /\ vstat'[v].size = file[i].size
        BY <3>2 DEF StartView, IInv, TypeOK
      <4>2. \A c \in Capturers : Finished(c) => file[c].size <= file[c].hdr.fsize
        BY DistinctAssumption DEF IInv, WriterInv, Finished
      <4>3. QED
        BY <1>2, <1>3, <3>2, <4>1, <4>2 DEF IsSnapshot
    <3>3. QED
      BY <3>1, <3>2
  <2>2. QED
    BY <1>1, <1>5, <1>6, <2>1
    DEF ViewerInv, IsSnapshot, Finished, fsVars, capVars
<1>8. Faithful(v)' /\ Justified(v)'
  BY <1>6 DEF Faithful, Justified
<1>9. QED
  BY <1>4, <1>5, <1>7, <1>8, ViewFrame DEF StartView, IInv, TypeOK

LEMMA OpenSnapshotInv ==
  ASSUME IInv, NEW v \in Viewers, OpenSnapshot(v)
  PROVE  IInv'
<1> DEFINE i == entry[vpath[v]]
<1>1. ViewerInv(v) /\ Faithful(v) /\ Justified(v) /\ vpath[v] \in Paths
  BY DEF IInv, ViewFaithful, RejectionsJustified, TypeOK
<1>2. i = NoInode \/ (i \in Inodes /\ Finished(i))
  BY <1>1 DEF IInv, TypeOK, EntryInv
<1>3. TypeOK'
  BY <1>2 DEF IInv, TypeOK, OpenSnapshot, fsVars, capVars, ViewBusy, ViewEnd,
              Rejections
<1>4. UNCHANGED <<fsVars, capVars>>
  BY DEF OpenSnapshot
<1>5. /\ \/ vpc'[v] = "missing" /\ vfd'[v] = vfd[v]
         \/ vpc'[v] = "header" /\ vfd'[v] = i /\ i # NoInode
      /\ voff'[v] = voff[v] /\ vdevs'[v] = vdevs[v] /\ vbuses'[v] = vbuses[v]
      /\ vstat'[v] = vstat[v] /\ vpc[v] = "open"
  BY DEF OpenSnapshot, IInv, TypeOK
<1>6. ViewerInv(v)'
  BY <1>1, <1>2, <1>4, <1>5 DEF ViewerInv, IsSnapshot, Finished, fsVars, capVars
<1>7. Faithful(v)' /\ Justified(v)'
  BY <1>5 DEF Faithful, Justified
<1>8. QED
  BY <1>3, <1>4, <1>6, <1>7, ViewFrame DEF OpenSnapshot, IInv, TypeOK

\* What the reader finds in a finished snapshot: no two records at one offset, the
\* records between the header and the bus array, the last one marked, each with
\* the length the reader computes and the descriptor that was written.
HeaderFits(f, t) ==
  /\ f \in File /\ t \in Topologies
  /\ Len(t.devs) \in Nat /\ Len(f.recs) = Len(t.devs)
  /\ f.busoff \in Nat /\ f.busoff >= HeaderLen
  /\ f.busoff = EndOfRecs(f, Len(t.devs)) /\ f.buses = t.buses
  /\ f.size <= f.hdr.fsize
  /\ f.hdr.fsize = f.busoff + BusesLen(Len(t.buses))
  /\ f.hdr.dev_cnt = Len(t.devs) /\ f.hdr.bus_cnt = Len(t.buses)

RecordFits(f, t, k) ==
  /\ f.recs[k].off \in Nat /\ f.recs[k].off = EndOfRecs(f, k-1)
  /\ f.recs[k].off + f.recs[k].len <= f.busoff
  /\ f.recs[k].len \in Nat /\ f.recs[k].len > DeviceMdLen
  /\ ReadLen(f.recs[k].md) = f.recs[k].len
  /\ f.recs[k].md.is_final_dev_entry = 1 <=> k = Len(t.devs)
  /\ DecodeMd(f.recs[k].md) = t.devs[k]
  /\ t.devs[k] \in DeviceDesc
  /\ RecordsAt(f, f.recs[k].off) = {k}

Readable(f, t) ==
  /\ HeaderFits(f, t)
  /\ \A k \in 1 .. Len(t.devs) : RecordFits(f, t, k)

LEMMA FinishedSnapshot ==
  ASSUME IInv, NEW c \in Capturers, cpc[c] = "published"
  PROVE  Readable(file[c], topo[c])
<1> DEFINE f == file[c]
           t == topo[c]
           n == Len(t.devs)
<1>1. /\ f \in File /\ t \in Topologies /\ Recorded(f, t, n)
      /\ f.busoff = EndOfRecs(f, n) /\ f.buses = t.buses
      /\ f.size <= f.hdr.fsize
      /\ f.hdr = [fsize   |-> f.busoff + BusesLen(Len(t.buses)),
                  dev_cnt |-> n, bus_cnt |-> Len(t.buses)]
  BY DEF IInv, TypeOK, WriterInv, BodyWritten, Inodes
<1>2. n \in Nat /\ Len(f.recs) = n
  BY <1>1, TopologyType DEF Recorded
<1> HIDE DEF f, t, n
<1>3. /\ f.recs \in Seq(DevRec) /\ f.busoff \in Nat
      /\ \A k \in 1 .. n : f.recs[k] \in DevRec
  BY <1>1, <1>2 DEF File
<1>4. \A k \in 1 .. n : f.recs[k].off \in Nat /\ f.recs[k].len \in Nat
  BY <1>3 DEF DevRec
<1>5. \A k \in 1 .. n :
        /\ f.recs[k].len > DeviceMdLen
        /\ ReadLen(f.recs[k].md) = f.recs[k].len
        /\ f.recs[k].md.is_final_dev_entry = 1 <=> k = n
        /\ DecodeMd(f.recs[k].md) = t.devs[k]
        /\ t.devs[k] \in DeviceDesc
  <2>1. ASSUME NEW k \in 1 .. n
        PROVE  /\ f.recs[k].len > DeviceMdLen
               /\ ReadLen(f.recs[k].md) = f.recs[k].len
               /\ f.recs[k].md.is_final_dev_entry = 1 <=> k = n
               /\ DecodeMd(f.recs[k].md) = t.devs[k]
               /\ t.devs[k] \in DeviceDesc
    <3>1. t.devs[k] \in DeviceDesc /\ WellFormed(t.devs[k])
      BY <1>1, TopologyType DEF n
    <3>2. /\ f.recs[k].md = EncodeMd(t.devs[k], k, n)
          /\ f.recs[k].len = WrittenLen(t.devs[k])
      BY <1>1 DEF Recorded, n
    <3>3. k \in Nat
      BY <1>2
    <3>4. \A d \in DeviceDesc : WellFormed(d) =>
            /\ ReadLen(EncodeMd(d, k, n)) = WrittenLen(d)
            /\ DecodeMd(EncodeMd(d, k, n)) = d
            /\ WrittenLen(d) > DeviceMdLen
            /\ EncodeMd(d, k, n).is_final_dev_entry = 1 <=> k = n
      BY <1>2, <3>3, RecordRoundTrip
    <3>5. QED
      BY <3>1, <3>2, <3>4
  <2>2. QED
    BY <2>1
<1>6. \A j, k \in 1 .. n : j < k => f.recs[j].off + f.recs[j].len <= f.recs[k].off
  BY <1>1 DEF Recorded
<1>7. \A k \in 1 .. n : f.recs[k].off = EndOfRecs(f, k-1)
  BY <1>1 DEF Recorded
<1>8. \A k \in 1 .. n : f.recs[k].off + f.recs[k].len <= f.busoff
  <2>1. ASSUME NEW k \in 1 .. n
        PROVE  f.recs[k].off + f.recs[k].len <= f.busoff
    <3>1. f.busoff = f.recs[n].off + f.recs[n].len /\ n \in 1 .. n
      BY <1>1, <1>2 DEF EndOfRecs
    <3>2. CASE k = n
      BY <1>3, <3>1, <3>2
    <3>3. CASE k < n
      <4>1. f.recs[k].off + f.recs[k].len <= f.recs[n].off
        BY <1>6, <3>1, <3>3
      <4>2. /\ f.recs[k].off \in Nat /\ f.recs[k].len \in Nat
            /\ f.recs[n].off \in Nat /\ f.recs[n].len \in Nat
        BY <1>4, <3>1
      <4>3. QED
        BY <3>1, <4>1, <4>2
    <3>4. QED
      BY <1>2, <3>2, <3>3
  <2>2. QED
    BY <2>1
<1>9. f.busoff >= HeaderLen
  <2>1. CASE n = 0
    BY <1>1, <2>1 DEF EndOfRecs, HeaderLen
  <2>2. CASE n # 0
    <3>1. 1 \in 1 .. n
      BY <1>2, <2>2
    <3>2. f.recs[1].off = HeaderLen
      BY <1>7, <3>1 DEF EndOfRecs
    <3>3. f.recs[1].off + f.recs[1].len <= f.busoff /\ f.recs[1].len \in Nat
      BY <1>4, <1>8, <3>1
    <3>4. QED
      BY <1>3, <3>2, <3>3 DEF HeaderLen
  <2>3. QED
    BY <2>1, <2>2
<1>10. \A k \in 1 .. n : RecordsAt(f, f.recs[k].off) = {k}
  <2>1. ASSUME NEW j \in 1 .. n, NEW k \in 1 .. n, j < k
        PROVE  f.recs[j].off # f.recs[k].off
    <3>1. /\ f.recs[j].off + f.recs[j].len <= f.recs[k].off
          /\ f.recs[j].len > DeviceMdLen
      BY <1>5, <1>6, <2>1
    <3>2. f.recs[j].off \in Nat /\ f.recs[k].off \in Nat /\ f.recs[j].len \in Nat
      BY <1>4
    <3>3. QED
      BY <3>1, <3>2 DEF DeviceMdLen
  <2>2. DOMAIN f.recs = 1 .. n
    BY <1>2, <1>3
  <2>3. \A j, k \in 1 .. n : j < k \/ k < j \/ j = k
    BY <1>2
  <2>4. \A j, k \in 1 .. n : f.recs[j].off = f.recs[k].off => j = k
    BY <2>1, <2>3
  <2>5. QED
    BY <2>2, <2>4 DEF RecordsAt
<1>11. HeaderFits(f, t)
  <2>1. /\ f.hdr.fsize = f.busoff + BusesLen(Len(t.buses))
        /\ f.hdr.dev_cnt = n /\ f.hdr.bus_cnt = Len(t.buses)
    BY <1>1
  <2>2. QED
    BY <1>1, <1>2, <1>3, <1>9, <2>1 DEF HeaderFits, n
<1>12. \A k \in 1 .. n : RecordFits(f, t, k)
  BY <1>4, <1>5, <1>7, <1>8, <1>10 DEF RecordFits, n
<1>13. QED
  BY <1>11, <1>12 DEF f, t, n, Readable

\* The prefixes of a sequence, as the reader's loop builds them.
LEMMA Prefixes ==
  ASSUME NEW S, NEW s \in Seq(S)
  PROVE  /\ SubSeq(s, 1, 0) = <<>>
         /\ SubSeq(s, 1, Len(s)) = s
         /\ \A k \in 1 .. Len(s) :
              SubSeq(s, 1, k) = Append(SubSeq(s, 1, k-1), s[k])
OBVIOUS

LEMMA ReadHeaderInv ==
  ASSUME IInv, NEW v \in Viewers, ReadHeader(v)
  PROVE  IInv'
<1> DEFINE i == vfd[v]
           f == file[i]
           t == topo[i]
           verdict == HeaderVerdict(i, vstat[v].size)
<1>1. ViewerInv(v) /\ vstat[v].ino \in Inodes /\ vstat[v].size \in Nat
  BY DEF IInv, TypeOK
<1>2. i \in Inodes /\ Finished(i) /\ voff[v] = 0 /\ vdevs[v] = <<>>
      /\ vbuses[v] = <<>> /\ file[i] \in File
  BY <1>1 DEF ViewerInv, ReadHeader, IInv, TypeOK
<1>0. IsSnapshot(i) => cpc[i] = "published" /\ Readable(f, t)
  BY <1>2, FinishedSnapshot, DistinctAssumption DEF Finished, IsSnapshot
<1>3. verdict \in {"short", "magic", "size", "count", "ok"}
  BY DEF HeaderVerdict
<1>4. TypeOK'
  <2>1. vpc' \in [Viewers -> {"idle"} \cup ViewBusy \cup ViewEnd]
    <3> HIDE DEF verdict
    <3>1. \/ vpc' = [vpc EXCEPT ![v] = "devices"]
          \/ verdict # "ok" /\ vpc' = [vpc EXCEPT ![v] = verdict]
      BY DEF ReadHeader, verdict
    <3>2. QED
      BY <1>3, <3>1 DEF IInv, TypeOK, ViewBusy, ViewEnd, Rejections
  <2>2. /\ f.hdr.dev_cnt \in Nat /\ f.hdr.bus_cnt \in Nat
        /\ voff[v] + HeaderLen \in Nat
    BY <1>2 DEF File, Header, HeaderLen
  <2>3. /\ vtotal' \in [Viewers -> [devs : Nat, buses : Nat]]
        /\ vnum' \in [Viewers -> Nat] /\ voff' \in [Viewers -> Nat]
    <3>1. [devs |-> f.hdr.dev_cnt, buses |-> f.hdr.bus_cnt]
            \in [devs : Nat, buses : Nat]
      BY <2>2
    <3>2. \/ UNCHANGED <<vtotal, vnum, voff>>
          \/ /\ vtotal' = [vtotal EXCEPT ![v] = [devs  |-> f.hdr.dev_cnt,
                                                 buses |-> f.hdr.bus_cnt]]
             /\ vnum' = [vnum EXCEPT ![v] = 1]
             /\ voff' = [voff EXCEPT ![v] = @ + HeaderLen]
      BY DEF ReadHeader
    <3>3. /\ vtotal \in [Viewers -> [devs : Nat, buses : Nat]]
          /\ vnum \in [Viewers -> Nat] /\ voff \in [Viewers -> Nat]
      BY DEF IInv, TypeOK
    <3>4. vtotal' \in [Viewers -> [devs : Nat, buses : Nat]]
      BY <3>1, <3>2, <3>3
    <3>5. vnum' \in [Viewers -> Nat]
      BY <3>2, <3>3
    <3>6. voff' \in [Viewers -> Nat]
      BY <2>2, <3>2, <3>3
    <3>7. QED
      BY <3>4, <3>5, <3>6
  <2>4. QED
    BY <2>1, <2>3 DEF IInv, TypeOK, ReadHeader, fsVars, capVars
<1>5. UNCHANGED <<fsVars, capVars, vstat, vfd, vdevs, vbuses>>
  BY DEF ReadHeader
<1>6. CASE verdict # "ok"
  <2>1. /\ vpc'[v] = verdict /\ UNCHANGED voff
    BY <1>6 DEF ReadHeader, IInv, TypeOK
  <2>2. ViewerInv(v)'
    <3>1. verdict \in {"size", "count"} => IsSnapshot(i)
      BY DEF HeaderVerdict
    <3> HIDE DEF verdict
    <3>2. QED
      BY <1>1, <1>2, <1>3, <1>5, <1>6, <2>1, <3>1, DistinctAssumption
      DEF ViewerInv, Finished, IsSnapshot, fsVars, capVars, Inodes
  <2>3. Justified(v)'
    <3>1. verdict = "magic" => ~IsSnapshot(i)
      BY DEF HeaderVerdict
    <3>2. verdict = "short" => ~IsSnapshot(i) \/ Truncated(i)
      <4>1. ASSUME IsSnapshot(i), verdict = "short"
            PROVE  Truncated(i)
        <5>1. f.size < HeaderLen /\ f.size \in Nat
          BY <1>2, <4>1 DEF HeaderVerdict, File
        <5>2. /\ f.hdr.fsize = f.busoff + BusesLen(Len(t.buses))
              /\ f.busoff >= HeaderLen /\ f.busoff \in Nat /\ t \in Topologies
          BY <1>0, <4>1 DEF Readable, HeaderFits
        <5>3. BusesLen(Len(t.buses)) \in Nat
          <6>1. Len(t.buses) \in Nat
            BY <5>2, TopologyType
          <6>2. QED
            BY <6>1 DEF BusesLen, BusDescLen
        <5>4. QED
          BY <5>1, <5>2, <5>3 DEF Truncated, HeaderLen
      <4>2. QED
        BY <4>1
    <3>3. verdict = "size" => Truncated(i) \/ vstat[v].ino # i
      <4>1. ASSUME verdict = "size", vstat[v].ino = i
            PROVE  Truncated(i)
        <5>1. IsSnapshot(i) /\ f.hdr.fsize # vstat[v].size
          BY <4>1 DEF HeaderVerdict
        <5>2. f.size <= vstat[v].size /\ vstat[v].size <= f.hdr.fsize
          BY <1>1, <4>1, <5>1 DEF ViewerInv
        <5>3. f.size \in Nat /\ f.hdr.fsize \in Nat
          BY <1>2 DEF File, Header
        <5>4. QED
          BY <1>1, <5>1, <5>2, <5>3 DEF Truncated
      <4>2. QED
        BY <4>1
    <3>4. verdict = "count" => t.devs = <<>> \/ t.buses = <<>>
      <4>1. ASSUME verdict = "count"
            PROVE  t.devs = <<>> \/ t.buses = <<>>
        <5>1. IsSnapshot(i) /\ (f.hdr.dev_cnt = 0 \/ f.hdr.bus_cnt = 0)
          BY <4>1 DEF HeaderVerdict
        <5>2. /\ f.hdr.dev_cnt = Len(t.devs) /\ f.hdr.bus_cnt = Len(t.buses)
              /\ t \in Topologies
          BY <1>0, <5>1 DEF Readable, HeaderFits
        <5>3. t.devs \in Seq(DeviceDesc) /\ t.buses \in Seq(BusDesc)
          BY <5>2, TopologyType
        <5>4. QED
          BY <5>1, <5>2, <5>3
      <4>2. QED
        BY <4>1
    <3> HIDE DEF verdict
    <3>5. QED
      BY <1>3, <1>5, <2>1, <3>1, <3>2, <3>3, <3>4
      DEF Justified, IsSnapshot, Truncated, fsVars, capVars
  <2>4. Faithful(v)'
    <3> HIDE DEF verdict
    <3>1. QED
      BY <1>3, <2>1 DEF Faithful
  <2>5. QED
    BY <1>4, <1>5, <2>2, <2>3, <2>4, ViewFrame DEF ReadHeader, IInv, TypeOK
<1>7. CASE verdict = "ok"
  <2>1. /\ vpc'[v] = "devices" /\ vnum'[v] = 1 /\ voff'[v] = voff[v] + HeaderLen
        /\ vtotal'[v] = [devs |-> f.hdr.dev_cnt, buses |-> f.hdr.bus_cnt]
    BY <1>7 DEF ReadHeader, IInv, TypeOK
  <2>2. IsSnapshot(i) /\ f.hdr.dev_cnt # 0
    BY <1>7 DEF HeaderVerdict
  <2>3. Readable(f, t)
    BY <1>0, <2>2
  <2>4. /\ f.hdr.dev_cnt = Len(t.devs) /\ f.hdr.bus_cnt = Len(t.buses)
        /\ Len(t.devs) \in Nat
        /\ \A k \in 1 .. Len(t.devs) : f.recs[k].off = EndOfRecs(f, k-1)
    <3>1. HeaderFits(f, t) /\ \A k \in 1 .. Len(t.devs) : RecordFits(f, t, k)
      BY <2>3 DEF Readable
    <3>2. /\ f.hdr.dev_cnt = Len(t.devs) /\ f.hdr.bus_cnt = Len(t.buses)
          /\ Len(t.devs) \in Nat
      BY <3>1 DEF HeaderFits
    <3>3. \A k \in 1 .. Len(t.devs) : f.recs[k].off = EndOfRecs(f, k-1)
      BY <3>1 DEF RecordFits
    <3>4. QED
      BY <3>2, <3>3
  <2>5. 1 \in 1 .. Len(t.devs)
    BY <2>2, <2>4
  <2>6. f.recs[1].off = HeaderLen
    BY <2>4, <2>5 DEF EndOfRecs
  <2>7. voff'[v] = f.recs[1].off
    BY <1>2, <2>1, <2>6 DEF HeaderLen
  <2>8. vdevs'[v] = SubSeq(t.devs, 1, 1 - 1)
    <3>1. t.devs \in Seq(DeviceDesc)
      BY <1>0, <2>2, TopologyType DEF Readable, HeaderFits
    <3>2. SubSeq(t.devs, 1, 0) = <<>>
      BY <3>1, Prefixes
    <3>3. vdevs'[v] = <<>>
      BY <1>2, <1>5
    <3>4. QED
      BY <3>2, <3>3
  <2>9. ViewerInv(v)'
    BY <1>1, <1>2, <1>5, <2>1, <2>2, <2>4, <2>5, <2>7, <2>8, DistinctAssumption
    DEF ViewerInv, Finished, IsSnapshot, fsVars, capVars
  <2>10. Faithful(v)' /\ Justified(v)'
    BY <2>1 DEF Faithful, Justified
  <2>11. QED
    BY <1>4, <1>5, <2>9, <2>10, ViewFrame DEF ReadHeader, IInv, TypeOK
<1>8. QED
  BY <1>6, <1>7

LEMMA AbortViewInv ==
  ASSUME IInv, NEW v \in Viewers, AbortView(v)
  PROVE  IInv'
<1>1. TypeOK'
  BY DEF IInv, TypeOK, AbortView, ViewBusy, ViewEnd, Rejections, fsVars, capVars
<1>2. ViewerInv(v)' /\ Faithful(v)' /\ Justified(v)'
  BY DEF IInv, TypeOK, ViewerInv, Faithful, Justified, AbortView, Finished, IsSnapshot,
         fsVars, capVars
<1>3. QED
  BY <1>1, <1>2, ViewFrame DEF AbortView, IInv, TypeOK

LEMMA ReadDeviceInv ==
  ASSUME IInv, NEW v \in Viewers, ReadDevice(v)
  PROVE  IInv'
<1> DEFINE i == vfd[v]
           f == file[i]
           t == topo[i]
           n == vnum[v]
           md == f.recs[CHOOSE k \in RecordsAt(f, voff[v]) : TRUE].md
           verdict == DeviceVerdict(f, voff[v], n, vtotal[v].devs)
<1>1. /\ ViewerInv(v) /\ vpc[v] = "devices" /\ vdevs[v] \in Seq(DeviceDesc)
      /\ voff[v] \in Nat
  BY DEF IInv, TypeOK, ReadDevice
<1>2. /\ i \in Capturers /\ cpc[i] = "published"
      /\ vtotal[v] = [devs |-> Len(t.devs), buses |-> Len(t.buses)]
      /\ n \in 1 .. Len(t.devs) /\ vdevs[v] = SubSeq(t.devs, 1, n - 1)
      /\ voff[v] = f.recs[n].off
  BY <1>1, DistinctAssumption DEF ViewerInv, Finished, IsSnapshot
<1>3. Readable(f, t)
  BY <1>2, FinishedSnapshot
<1>4. /\ Len(t.devs) \in Nat
      /\ f.recs[n].off \in Nat /\ f.recs[n].len \in Nat
      /\ f.recs[n].off + f.recs[n].len <= f.busoff /\ f.busoff \in Nat
      /\ f.recs[n].len > DeviceMdLen
      /\ ReadLen(f.recs[n].md) = f.recs[n].len
      /\ f.recs[n].md.is_final_dev_entry = 1 <=> n = Len(t.devs)
      /\ DecodeMd(f.recs[n].md) = t.devs[n] /\ t.devs[n] \in DeviceDesc
      /\ RecordsAt(f, f.recs[n].off) = {n}
  <2>1. HeaderFits(f, t) /\ RecordFits(f, t, n)
    BY <1>2, <1>3 DEF Readable
  <2>2. QED
    BY <2>1 DEF HeaderFits, RecordFits
<1>n. n \in Nat /\ n >= 1 /\ n <= Len(t.devs)
  <2>1. n \in 1 .. Len(t.devs)
    BY <1>2
  <2>2. Len(t.devs) \in Nat
    BY <1>4
  <2>3. QED
    BY <2>1, <2>2
<1>5. md = f.recs[n].md /\ (CHOOSE k \in RecordsAt(f, voff[v]) : TRUE) = n
  BY <1>2, <1>4
<1>6. /\ verdict \in {"short", "ok"}
      /\ verdict = "short" => Truncated(i)
  <2>1. RecordsAt(f, voff[v]) # {}
    BY <1>2, <1>4
  <2>2. ~(n # vtotal[v].devs /\ f.recs[n].md.is_final_dev_entry = 1)
    <3>1. vtotal[v].devs = Len(t.devs)
      BY <1>2
    <3>2. f.recs[n].md.is_final_dev_entry = 1 <=> n = Len(t.devs)
      BY <1>4
    <3>3. QED
      BY <3>1, <3>2
  <2>3. verdict = IF f.size < voff[v] + DeviceMdLen THEN "short"
                  ELSE IF f.size < voff[v] + f.recs[n].len THEN "short" ELSE "ok"
    BY <1>4, <1>5, <2>1, <2>2 DEF DeviceVerdict
  <2>4. /\ f.size \in Nat /\ f.hdr.fsize = f.busoff + BusesLen(Len(t.buses))
        /\ BusesLen(Len(t.buses)) \in Nat
    <3>1. /\ f \in File /\ t \in Topologies
          /\ f.hdr.fsize = f.busoff + BusesLen(Len(t.buses))
      BY <1>3 DEF Readable, HeaderFits
    <3>2. Len(t.buses) \in Nat
      BY <3>1, TopologyType
    <3>3. BusesLen(Len(t.buses)) \in Nat
      BY <3>2 DEF BusesLen, BusDescLen
    <3>4. QED
      BY <3>1, <3>3 DEF File
  <2>5. verdict = "short" => f.size < voff[v] + f.recs[n].len
    <3> DEFINE len == f.recs[n].len
               off == voff[v]
               size == f.size
    <3>1. len \in Nat /\ len > DeviceMdLen /\ off \in Nat /\ size \in Nat
      BY <1>1, <1>4, <2>4
    <3>2. verdict = IF size < off + DeviceMdLen THEN "short"
                    ELSE IF size < off + len THEN "short" ELSE "ok"
      BY <2>3
    <3> HIDE DEF len, off, size, verdict
    <3>3. verdict = "short" => size < off + len
      BY <3>1, <3>2 DEF DeviceMdLen
    <3>4. QED
      BY <3>3 DEF len, off, size
  <2>6. verdict = "short" => f.size < f.hdr.fsize
    <3> DEFINE end == f.recs[n].off + f.recs[n].len
               blen == BusesLen(Len(t.buses))
               fsize == f.hdr.fsize
               size == f.size
    <3>1. /\ end \in Nat /\ end <= f.busoff /\ f.busoff \in Nat /\ blen \in Nat
          /\ fsize = f.busoff + blen /\ size \in Nat
      <4>1. end \in Nat
        <5>1. f.recs[n].off \in Nat /\ f.recs[n].len \in Nat
          BY <1>4
        <5>2. QED
          BY <5>1
      <4>2. end <= f.busoff /\ f.busoff \in Nat
        BY <1>4
      <4>3. blen \in Nat /\ fsize = f.busoff + blen /\ size \in Nat
        BY <2>4
      <4>4. QED
        BY <4>1, <4>2, <4>3
    <3>2. verdict = "short" => size < end
      BY <1>2, <2>5
    <3> HIDE DEF end, blen, fsize, size, verdict
    <3>3. verdict = "short" => size < fsize
      BY <3>1, <3>2
    <3>4. QED
      BY <3>3 DEF size, fsize
  <2>7. QED
    BY <2>3, <2>6 DEF Truncated
<1> HIDE DEF verdict
<1>7. UNCHANGED <<fsVars, capVars, vstat, vfd, vtotal, vbuses>>
  BY DEF ReadDevice
<1>8. CASE verdict # "ok"
  <2>1. vpc' = [vpc EXCEPT ![v] = verdict] /\ UNCHANGED <<vnum, voff, vdevs>>
    BY <1>8 DEF ReadDevice, verdict
  <2>2. vpc'[v] = "short" /\ Truncated(i)
    BY <1>6, <1>8, <2>1 DEF IInv, TypeOK
  <2>3. TypeOK'
    BY <1>6, <1>8, <2>1
    DEF IInv, TypeOK, ReadDevice, ViewBusy, ViewEnd, Rejections, fsVars, capVars
  <2>4. ViewerInv(v)'
    BY <1>1, <1>7, <2>2 DEF ViewerInv, IsSnapshot, Finished, fsVars, capVars
  <2>5. Faithful(v)' /\ Justified(v)'
    BY <1>7, <2>2 DEF Faithful, Justified, Truncated, fsVars
  <2>6. QED
    BY <1>7, <2>1, <2>3, <2>4, <2>5, ViewFrame DEF ReadDevice, IInv, TypeOK
<1>9. CASE verdict = "ok"
  <2>1. /\ vdevs' = [vdevs EXCEPT ![v] = Append(@, t.devs[n])]
        /\ voff' = [voff EXCEPT ![v] = @ + f.recs[n].len]
        /\ vnum' = [vnum EXCEPT ![v] = @ + 1]
        /\ vpc' = [vpc EXCEPT ![v] =
                     IF n + 1 <= Len(t.devs) THEN "devices" ELSE "buses"]
    <3>1. vtotal[v].devs = Len(t.devs)
      BY <1>2
    <3>2. QED
      BY <1>4, <1>5, <1>9, <3>1 DEF ReadDevice, verdict
  <2>2. TypeOK'
    <3>1. /\ voff[v] + f.recs[n].len \in Nat /\ n + 1 \in Nat
          /\ Append(vdevs[v], t.devs[n]) \in Seq(DeviceDesc)
      <4>1. t.devs[n] \in DeviceDesc /\ f.recs[n].len \in Nat /\ n \in Nat
        BY <1>4, <1>n
      <4>2. voff[v] + f.recs[n].len \in Nat
        BY <1>1, <4>1
      <4>3. Append(vdevs[v], t.devs[n]) \in Seq(DeviceDesc)
        BY <1>1, <4>1
      <4>4. QED
        BY <4>1, <4>2, <4>3
    <3>2. /\ voff' \in [Viewers -> Nat] /\ vnum' \in [Viewers -> Nat]
          /\ vdevs' \in [Viewers -> Seq(DeviceDesc)]
      BY <2>1, <3>1 DEF IInv, TypeOK
    <3>3. vpc' \in [Viewers -> {"idle"} \cup ViewBusy \cup ViewEnd]
      BY <2>1 DEF IInv, TypeOK, ViewBusy
    <3>4. QED
      BY <3>2, <3>3 DEF IInv, TypeOK, ReadDevice, fsVars, capVars
  <2>3. /\ vnum'[v] = n + 1 /\ voff'[v] = f.recs[n].off + f.recs[n].len
        /\ vpc'[v] = IF n + 1 <= Len(t.devs) THEN "devices" ELSE "buses"
        /\ vdevs'[v] = Append(vdevs[v], t.devs[n])
    BY <1>2, <2>1 DEF IInv, TypeOK
  <2>4. vdevs'[v] = SubSeq(t.devs, 1, n)
    <3>1. t.devs \in Seq(DeviceDesc)
      BY <1>3, TopologyType DEF Readable, HeaderFits
    <3>2. SubSeq(t.devs, 1, n) = Append(SubSeq(t.devs, 1, n - 1), t.devs[n])
      BY <1>2, <3>1, Prefixes
    <3>3. QED
      BY <1>2, <2>3, <3>2
  <2>5. voff'[v] = EndOfRecs(f, n)
    <3>1. n # 0
      BY <1>2
    <3>2. QED
      BY <2>3, <3>1 DEF EndOfRecs
  <2>6. n + 1 <= Len(t.devs) =>
          /\ n + 1 \in 1 .. Len(t.devs)
          /\ voff'[v] = f.recs[n + 1].off
    <3>1. ASSUME n + 1 <= Len(t.devs)
          PROVE  n + 1 \in 1 .. Len(t.devs) /\ voff'[v] = f.recs[n + 1].off
      <4>1. n + 1 \in 1 .. Len(t.devs) /\ (n + 1) - 1 = n
        <5>1. Len(t.devs) \in Nat
          BY <1>4
        <5>2. QED
          BY <1>n, <3>1, <5>1
      <4>2. f.recs[n + 1].off = EndOfRecs(f, (n + 1) - 1)
        BY <1>3, <4>1 DEF Readable, RecordFits
      <4>3. QED
        BY <2>5, <4>1, <4>2
    <3>2. QED
      BY <3>1
  <2>7. ~(n + 1 <= Len(t.devs)) => vdevs'[v] = t.devs /\ voff'[v] = f.busoff
    <3>1. ASSUME ~(n + 1 <= Len(t.devs))
          PROVE  vdevs'[v] = t.devs /\ voff'[v] = f.busoff
      <4>1. n = Len(t.devs)
        <5>1. Len(t.devs) \in Nat
          BY <1>4
        <5>2. QED
          BY <1>n, <3>1, <5>1
      <4>2. t.devs \in Seq(DeviceDesc) /\ f.busoff = EndOfRecs(f, Len(t.devs))
        BY <1>3, TopologyType DEF Readable, HeaderFits
      <4>3. SubSeq(t.devs, 1, Len(t.devs)) = t.devs
        BY <4>2, Prefixes
      <4>4. QED
        BY <2>4, <2>5, <4>1, <4>2, <4>3
    <3>2. QED
      BY <3>1
  <2>8. (n + 1) - 1 = n
    BY <1>2
  <2>9. ViewerInv(v)'
    BY <1>1, <1>2, <1>7, <2>3, <2>4, <2>6, <2>7, <2>8
    DEF ViewerInv, IsSnapshot, Finished, fsVars, capVars
  <2>10. Faithful(v)' /\ Justified(v)'
    BY <2>3 DEF Faithful, Justified
  <2>11. QED
    BY <1>7, <2>1, <2>2, <2>9, <2>10, ViewFrame DEF ReadDevice, IInv, TypeOK
<1>10. QED
  BY <1>8, <1>9

LEMMA ReadBusesInv ==
  ASSUME IInv, NEW v \in Viewers, ReadBuses(v)
  PROVE  IInv'
<1> DEFINE i == vfd[v]
           f == file[i]
           t == topo[i]
           len == BusesLen(vtotal[v].buses)
           verdict == BusesVerdict(f, voff[v], vtotal[v].buses)
<1>1. /\ ViewerInv(v) /\ vpc[v] = "buses" /\ voff[v] \in Nat
  BY DEF IInv, TypeOK, ReadBuses
<1>2. /\ i \in Capturers /\ cpc[i] = "published"
      /\ vtotal[v] = [devs |-> Len(t.devs), buses |-> Len(t.buses)]
      /\ vdevs[v] = t.devs /\ voff[v] = f.busoff
  BY <1>1, DistinctAssumption DEF ViewerInv, Finished, IsSnapshot
<1>3. Readable(f, t)
  BY <1>2, FinishedSnapshot
<1>4. t.buses \in Seq(BusDesc) /\ f.buses = t.buses
  BY <1>3, TopologyType DEF Readable, HeaderFits
<1>5. len = BusesLen(Len(t.buses)) /\ len \in Nat
  <2>1. Len(t.buses) \in Nat
    BY <1>4
  <2>2. QED
    BY <1>2, <2>1 DEF BusesLen, BusDescLen
<1>6. /\ verdict \in {"short", "done"}
      /\ verdict = "short" => Truncated(i)
  <2>1. verdict = IF f.size < f.busoff + len THEN "short" ELSE "done"
    BY <1>2 DEF BusesVerdict
  <2>2. f.hdr.fsize = f.busoff + len
    BY <1>3, <1>5 DEF Readable, HeaderFits
  <2>3. QED
    BY <2>1, <2>2 DEF Truncated
<1>7. SubSeq(f.buses, 1, vtotal[v].buses) = t.buses
  <2>1. SubSeq(t.buses, 1, Len(t.buses)) = t.buses
    BY <1>4, Prefixes
  <2>2. vtotal[v].buses = Len(t.buses)
    BY <1>2
  <2>3. QED
    BY <1>4, <2>1, <2>2
<1>8. UNCHANGED <<fsVars, capVars, vpath, vstat, vfd, vtotal, vnum, vdevs>>
  BY DEF ReadBuses
<1>9. /\ vpc' = [vpc EXCEPT ![v] = verdict]
      /\ \/ /\ verdict = "done"
            /\ vbuses' = [vbuses EXCEPT ![v] = t.buses]
            /\ voff' = [voff EXCEPT ![v] = @ + len]
         \/ /\ verdict # "done"
            /\ UNCHANGED <<vbuses, voff>>
  BY <1>7 DEF ReadBuses
<1> HIDE DEF verdict, len
<1>10. TypeOK'
  <2>1. voff[v] + len \in Nat
    BY <1>1, <1>5
  <2>2. voff' \in [Viewers -> Nat]
    BY <1>9, <2>1 DEF IInv, TypeOK
  <2>3. vbuses' \in [Viewers -> Seq(BusDesc)]
    BY <1>4, <1>9 DEF IInv, TypeOK
  <2>4. vpc' \in [Viewers -> {"idle"} \cup ViewBusy \cup ViewEnd]
    BY <1>6, <1>9 DEF IInv, TypeOK, ViewEnd, Rejections
  <2>5. QED
    BY <1>8, <2>2, <2>3, <2>4 DEF IInv, TypeOK, fsVars, capVars
<1>11. vpc'[v] = verdict /\ (verdict = "done" => vbuses'[v] = t.buses)
  BY <1>9 DEF IInv, TypeOK
<1>12. ViewerInv(v)'
  BY <1>1, <1>2, <1>6, <1>8, <1>11
  DEF ViewerInv, IsSnapshot, Finished, fsVars, capVars
<1>13. Faithful(v)' /\ Justified(v)'
  BY <1>2, <1>6, <1>8, <1>11
  DEF Faithful, Justified, Truncated, IsSnapshot, fsVars, capVars
<1>14. QED
  BY <1>8, <1>9, <1>10, <1>12, <1>13, ViewFrame DEF IInv, TypeOK

-----------------------------------------------------------------------------
(***************************************************************************)
(* The theorems.                                                           *)
(***************************************************************************)

LEMMA StepInv == IInv /\ [Next]_vars => IInv'
<1> SUFFICES ASSUME IInv, [Next]_vars
             PROVE  IInv'
  OBVIOUS
<1>1. ASSUME NEW c \in Capturers,
             StartCapture(c) \/ CaptureStep(c) \/ AbortCapture(c)
      PROVE  IInv'
  BY <1>1, StartCaptureInv, ScanInv, PrepareInv, WriteDeviceInv, WriteBusesInv,
     StoreHeaderInv, FinalizeInv, AbortCaptureInv DEF CaptureStep
<1>2. ASSUME NEW v \in Viewers, StartView(v) \/ ViewStep(v) \/ AbortView(v)
      PROVE  IInv'
  BY <1>2, StartViewInv, OpenSnapshotInv, ReadHeaderInv, ReadDeviceInv,
     ReadBusesInv, AbortViewInv DEF ViewStep
<1>3. ASSUME NEW p \in Paths, Remove(p) \/ Truncate(p)
      PROVE  IInv'
  BY <1>3, RemoveInv, TruncateInv
<1>4. CASE UNCHANGED vars
  <2>1. TypeOK' /\ \A c \in Capturers : WriterInv(c)'
    BY <1>4 DEF IInv, vars, TypeOK, WriterInv
  <2>2. \A p \in Paths : EntryInv(p)'
    BY <1>4 DEF IInv, vars, EntryInv, Finished
  <2>3. \A v \in Viewers : ViewerInv(v)' /\ Faithful(v)' /\ Justified(v)'
    BY <1>4 DEF IInv, vars, ViewFaithful, RejectionsJustified, ViewerInv, Faithful,
                Justified, Finished, Truncated
  <2>4. QED
    BY <2>1, <2>2, <2>3 DEF IInv, ViewFaithful, RejectionsJustified
<1>5. QED
  BY <1>1, <1>2, <1>3, <1>4 DEF Next

\* IInv holds in every reachable state of any number of captures and viewers.
THEOREM Invariance == Spec => []IInv
BY InitInv, StepInv, PTL DEF Spec

\* Type correctness: every length fits the field it is stored in.
THEOREM TypeCorrectness == Spec => []TypeOK
<1>1. IInv => TypeOK
  BY DEF IInv
<1>2. QED
  BY <1>1, Invariance, PTL

\* What has a name is a finished snapshot.
THEOREM Publication == Spec => []PublishedComplete
<1>1. IInv => PublishedComplete
  <2>1. ASSUME IInv, NEW p \in Paths, IsSnapshot(entry[p])
        PROVE  LET f == file[entry[p]]
                   t == topo[entry[p]]
               IN
               /\ f.hdr.dev_cnt = Len(t.devs) /\ Len(f.recs) = Len(t.devs)
               /\ f.hdr.bus_cnt = Len(t.buses) /\ f.buses = t.buses
               /\ f.size <= f.hdr.fsize
               /\ f.hdr.fsize = f.busoff + BusesLen(f.hdr.bus_cnt)
               /\ Contiguous(f)
               /\ \A k \in DOMAIN f.recs :
                    /\ ReadLen(f.recs[k].md) = f.recs[k].len
                    /\ f.recs[k].md.is_final_dev_entry = 1 <=> k = Len(f.recs)
    <3> DEFINE f == file[entry[p]]
               t == topo[entry[p]]
    <3>1. entry[p] \in Capturers /\ cpc[entry[p]] = "published"
      BY <2>1, DistinctAssumption DEF IInv, EntryInv, Finished, IsSnapshot
    <3>2. Readable(f, t)
      BY <2>1, <3>1, FinishedSnapshot
    <3>3. DOMAIN f.recs = 1 .. Len(t.devs)
      BY <3>2 DEF Readable, HeaderFits, File
    <3>4. Contiguous(f)
      BY <3>2, <3>3 DEF Readable, HeaderFits, RecordFits, Contiguous
    <3>5. Len(f.recs) = Len(t.devs) /\ f.hdr.bus_cnt = Len(t.buses)
      BY <3>2 DEF Readable, HeaderFits
    <3>6. /\ f.hdr.dev_cnt = Len(t.devs) /\ f.buses = t.buses
          /\ f.size <= f.hdr.fsize
          /\ f.hdr.fsize = f.busoff + BusesLen(f.hdr.bus_cnt)
      BY <3>2 DEF Readable, HeaderFits
    <3>7. \A k \in DOMAIN f.recs :
            /\ ReadLen(f.recs[k].md) = f.recs[k].len
            /\ f.recs[k].md.is_final_dev_entry = 1 <=> k = Len(f.recs)
      BY <3>2, <3>3, <3>5 DEF Readable, RecordFits
    <3>8. QED
      BY <3>4, <3>5, <3>6, <3>7
  <2>2. QED
    BY <2>1 DEF PublishedComplete
<1>2. QED
  BY <1>1, Invariance, PTL

\* What a viewer shows is what one capture found.
THEOREM Faithfulness == Spec => []ViewFaithful
<1>1. IInv => ViewFaithful
  BY DEF IInv
<1>2. QED
  BY <1>1, Invariance, PTL

\* What a viewer refuses it refuses for a reason that is there.
THEOREM Justification == Spec => []RejectionsJustified
<1>1. IInv => RejectionsJustified
  BY DEF IInv
<1>2. QED
  BY <1>1, Invariance, PTL

-----------------------------------------------------------------------------
(***************************************************************************)
(* Snapshot implements SnapshotStore.                                      *)
(***************************************************************************)

\* What a capture that is not published yet does to its inode is seen through no
\* name and by no viewer.
LEMMA CaptureHidden ==
  ASSUME IInv, NEW c \in Capturers, OthersKept(c), UNCHANGED viewVars,
         cpc[c] # "published"
  PROVE  /\ \A p \in Paths : entry'[p] = entry[p] =>
                               Contents(entry[p])' = Contents(entry[p])
         /\ heldBar' = heldBar /\ resultBar' = resultBar
         /\ \A d \in Capturers \ {c} : outcomeBar'[d] = outcomeBar[d]
<1>1. \A i \in Inodes : Finished(i) => i # c
  BY DistinctAssumption DEF Finished, IsSnapshot
<1>2. \A i \in Inodes \cup {NoInode} :
        i # c => (IF IsSnapshot(i) THEN topo'[i] ELSE i) = Contents(i)
  BY DEF OthersKept, Contents, IsSnapshot
<1>3. ASSUME NEW p \in Paths, entry'[p] = entry[p]
      PROVE  Contents(entry[p])' = Contents(entry[p])
  <2>1. entry[p] \in Inodes \cup {NoInode} /\ entry[p] # c
    BY <1>1, DistinctAssumption DEF IInv, TypeOK, EntryInv
  <2>2. QED
    BY <1>2, <1>3, <2>1 DEF Contents, IsSnapshot
<1>4. ASSUME NEW v \in Viewers
      PROVE  Contents(vfd[v])' = Contents(vfd[v])
  <2>1. vfd[v] \in Inodes \cup {NoInode} /\ vfd[v] # c
    BY <1>1, DistinctAssumption DEF IInv, TypeOK, ViewerInv
  <2>2. QED
    BY <1>2, <2>1 DEF Contents, IsSnapshot, viewVars
<1>5. heldBar' = heldBar
  BY <1>4 DEF heldBar
<1>6. resultBar' = resultBar
  BY DEF resultBar, viewVars
<1>7. \A d \in Capturers \ {c} : outcomeBar'[d] = outcomeBar[d]
  BY DEF outcomeBar, OthersKept
<1>8. QED
  BY <1>3, <1>5, <1>6, <1>7

\* Every call of a capture leaves the other captures and the viewers alone.
LEMMA CaptureLocal ==
  ASSUME IInv, NEW c \in Capturers,
         StartCapture(c) \/ CaptureStep(c) \/ AbortCapture(c)
  PROVE  OthersKept(c) /\ UNCHANGED viewVars /\ cpc[c] # "published"
<1>1. CASE StartCapture(c)
  BY <1>1 DEF StartCapture, IInv, TypeOK, OthersKept
<1>2. CASE Scan(c)
  BY <1>2 DEF Scan, IInv, TypeOK, OthersKept
<1>3. CASE Prepare(c)
  BY <1>3 DEF Prepare, IInv, TypeOK, OthersKept
<1>4. CASE WriteDevice(c)
  BY <1>4 DEF WriteDevice, IInv, TypeOK, OthersKept
<1>5. CASE WriteBuses(c)
  BY <1>5 DEF WriteBuses, IInv, TypeOK, OthersKept
<1>6. CASE StoreHeader(c)
  BY <1>6 DEF StoreHeader, IInv, TypeOK, OthersKept
<1>7. CASE Finalize(c)
  BY <1>7 DEF Finalize, ExitWithout, IInv, TypeOK, OthersKept
<1>8. CASE AbortCapture(c)
  BY <1>8 DEF AbortCapture, ExitWithout, CaptureBusy, IInv, TypeOK, OthersKept
<1>9. QED
  BY <1>1, <1>2, <1>3, <1>4, <1>5, <1>6, <1>7, <1>8 DEF CaptureStep

LEMMA CaptureRefines ==
  ASSUME IInv, NEW c \in Capturers,
         StartCapture(c) \/ CaptureStep(c) \/ AbortCapture(c)
  PROVE  [Store!Next]_Store!vars
<1>1. /\ \A p \in Paths : entry'[p] = entry[p] =>
                            Contents(entry[p])' = Contents(entry[p])
      /\ heldBar' = heldBar /\ resultBar' = resultBar
      /\ \A d \in Capturers \ {c} : outcomeBar'[d] = outcomeBar[d]
  BY CaptureLocal, CaptureHidden
<1>2. \/ entry' = entry /\ cpc'[c] \notin CaptureEnd /\ cpc[c] \notin CaptureEnd
      \/ entry' = entry /\ cpc'[c] = "failed" /\ cpc[c] \notin CaptureEnd
      \/ /\ cpc[c] = "link" /\ cpc'[c] = "published"
         /\ ~NameIsTaken(LinkTarget(c))
         /\ entry' = [entry EXCEPT ![LinkTarget(c)] = c] /\ topo' = topo
  <2>1. cpc[c] \notin CaptureEnd
    BY DEF StartCapture, CaptureStep, AbortCapture, Scan, Prepare, WriteDevice,
           WriteBuses, StoreHeader, Finalize, CaptureBusy, CaptureEnd
  <2>2. CASE StartCapture(c)
    BY <2>1, <2>2 DEF StartCapture, IInv, TypeOK, CaptureEnd
  <2>3. CASE Scan(c) \/ Prepare(c) \/ StoreHeader(c)
    BY <2>1, <2>3 DEF Scan, Prepare, StoreHeader, IInv, TypeOK, CaptureEnd
  <2>4. CASE WriteDevice(c) \/ WriteBuses(c)
    BY <2>1, <2>4 DEF WriteDevice, WriteBuses, IInv, TypeOK, CaptureEnd
  <2>5. CASE Finalize(c)
    BY <2>1, <2>5 DEF Finalize, ExitWithout, IInv, TypeOK
  <2>6. CASE AbortCapture(c)
    BY <2>1, <2>6 DEF AbortCapture, ExitWithout, IInv, TypeOK
  <2>7. QED
    BY <2>2, <2>3, <2>4, <2>5, <2>6 DEF CaptureStep
<1>3. ASSUME entry' = entry
      PROVE  storeBar' = storeBar
  BY <1>1, <1>3 DEF storeBar
<1>4. CASE entry' = entry /\ cpc'[c] \notin CaptureEnd /\ cpc[c] \notin CaptureEnd
  <2>1. outcomeBar' = outcomeBar
    BY <1>1, <1>4 DEF outcomeBar
  <2>2. QED
    BY <1>1, <1>3, <1>4, <2>1 DEF Store!vars
<1>5. CASE entry' = entry /\ cpc'[c] = "failed" /\ cpc[c] \notin CaptureEnd
  <2>1. outcomeBar[c] = "running" /\ outcomeBar'[c] = "failed"
    BY <1>5 DEF outcomeBar, CaptureEnd
  <2>2. outcomeBar' = [outcomeBar EXCEPT ![c] = "failed"]
    BY <1>1, <2>1 DEF outcomeBar
  <2>3. Store!GiveUp(c)
    BY <1>1, <1>3, <1>5, <2>1, <2>2 DEF Store!GiveUp
  <2>4. QED
    BY <2>3 DEF Store!Next
<1>6. CASE /\ cpc[c] = "link" /\ cpc'[c] = "published"
           /\ ~NameIsTaken(LinkTarget(c))
           /\ entry' = [entry EXCEPT ![LinkTarget(c)] = c] /\ topo' = topo
  <2> DEFINE p == LinkTarget(c)
             t == topo[c]
  <2>1. p \in Paths /\ t \in Topologies
    BY <1>6, CwdAssumption DEF IInv, TypeOK, LinkTarget, WriterInv, Paths
  <2>2. outcomeBar[c] = "running" /\ outcomeBar'[c] = "published"
    BY <1>6 DEF outcomeBar, CaptureEnd
  <2>3. outcomeBar' = [outcomeBar EXCEPT ![c] = "published"]
    BY <1>1, <2>2 DEF outcomeBar
  <2>4. storeBar[p] = NoInode
    BY <1>6, <2>1, DistinctAssumption DEF storeBar, NameIsTaken, Contents, IsSnapshot
  <2>5. storeBar' = [storeBar EXCEPT ![p] = t]
    <3>1. \A q \in Paths \ {p} : entry'[q] = entry[q]
      BY <1>6 DEF IInv, TypeOK
    <3>2. entry'[p] = c
      BY <1>6, <2>1 DEF IInv, TypeOK
    <3>3. storeBar'[p] = t
      BY <1>6, <2>1, <3>2 DEF storeBar, Contents, IsSnapshot
    <3>4. \A q \in Paths \ {p} : storeBar'[q] = storeBar[q]
      BY <1>1, <3>1 DEF storeBar
    <3>5. QED
      BY <3>3, <3>4 DEF storeBar
  <2>6. Store!Publish(c, p, t)
    BY <1>1, <2>2, <2>3, <2>4, <2>5 DEF Store!Publish
  <2>7. QED
    BY <2>1, <2>6 DEF Store!Next
<1>7. QED
  BY <1>2, <1>4, <1>5, <1>6

LEMMA ViewRefines ==
  ASSUME IInv, IInv', NEW v \in Viewers,
         StartView(v) \/ ViewStep(v) \/ AbortView(v)
  PROVE  [Store!Next]_Store!vars
<1>1. /\ entry' = entry /\ cpc' = cpc /\ topo' = topo
      /\ \A w \in Viewers \ {v} :
           /\ vpc'[w] = vpc[w] /\ vfd'[w] = vfd[w]
           /\ vdevs'[w] = vdevs[w] /\ vbuses'[w] = vbuses[w]
  <2>1. CASE StartView(v) \/ OpenSnapshot(v) \/ AbortView(v)
    BY <2>1 DEF StartView, OpenSnapshot, AbortView, fsVars, capVars, IInv, TypeOK
  <2>2. CASE ReadHeader(v)
    BY <2>2 DEF ReadHeader, fsVars, capVars, IInv, TypeOK
  <2>3. CASE ReadDevice(v)
    <3>1. entry' = entry /\ cpc' = cpc /\ topo' = topo /\ vfd' = vfd
          /\ vbuses' = vbuses
      BY <2>3 DEF ReadDevice, fsVars, capVars
    <3>2. \A w \in Viewers \ {v} : vpc'[w] = vpc[w] /\ vdevs'[w] = vdevs[w]
      <4>1. \E x, d \in {vpc'[v], vdevs'[v]} :
              /\ vpc' = [vpc EXCEPT ![v] = x]
              /\ vdevs' = vdevs \/ vdevs' = [vdevs EXCEPT ![v] = d]
        BY <2>3 DEF ReadDevice, IInv, TypeOK
      <4>2. QED
        BY <4>1 DEF IInv, TypeOK
    <3>3. QED
      BY <3>1, <3>2
  <2>4. CASE ReadBuses(v)
    BY <2>4, SMTT(30) DEF ReadBuses, fsVars, capVars, IInv, TypeOK
  <2>5. QED
    BY <2>1, <2>2, <2>3, <2>4 DEF ViewStep
<1>2. storeBar' = storeBar /\ outcomeBar' = outcomeBar
  BY <1>1 DEF storeBar, outcomeBar, Contents
<1>3. \A w \in Viewers \ {v} : heldBar'[w] = heldBar[w] /\ resultBar'[w] = resultBar[w]
  BY <1>1 DEF heldBar, resultBar, Contents
<1>4. vpc[v] \notin ViewEnd
  BY DEF ViewStep, StartView, OpenSnapshot, ReadHeader, ReadDevice, ReadBuses,
         AbortView, ViewBusy, ViewEnd, Rejections
<1>5. resultBar[v] = Pending
  BY <1>4 DEF resultBar, ViewEnd
<1>6. vpc'[v] \in {"idle"} \cup ViewBusy \cup ViewEnd
  BY DEF IInv, TypeOK
<1>7. CASE OpenSnapshot(v) /\ vpc'[v] = "header"
  <2> DEFINE p == vpath[v]
  <2>1. p \in Paths
    BY DEF IInv, TypeOK
  <2>2. vfd'[v] = entry[p] /\ vfd[v] = NoInode
    BY <1>7 DEF OpenSnapshot, IInv, TypeOK, ViewerInv
  <2>3. heldBar[v] = NoInode
    BY <2>2, DistinctAssumption DEF heldBar, Contents, IsSnapshot
  <2>4. heldBar'[v] = storeBar[p]
    BY <1>1, <2>1, <2>2 DEF heldBar, storeBar, Contents
  <2>5. heldBar' = [heldBar EXCEPT ![v] = storeBar[p]]
    BY <1>3, <2>4 DEF heldBar
  <2>6. resultBar'[v] = Pending
    BY <1>7 DEF resultBar, Rejections
  <2>7. resultBar' = resultBar
    BY <1>3, <1>5, <2>6 DEF resultBar
  <2>8. Store!Open(v, p)
    BY <1>2, <1>5, <2>3, <2>5, <2>7 DEF Store!Open
  <2>9. QED
    BY <2>1, <2>8 DEF Store!Next
<1>8. CASE ~(OpenSnapshot(v) /\ vpc'[v] = "header")
  <2>1. vfd' = vfd
    BY <1>8 DEF ViewStep, StartView, OpenSnapshot, ReadHeader, ReadDevice, ReadBuses,
                AbortView, IInv, TypeOK
  <2>2. heldBar' = heldBar
    BY <1>1, <2>1 DEF heldBar, Contents
  <2>3. CASE vpc'[v] \in Rejections
    <3>1. resultBar'[v] = Refused
      BY <2>3 DEF resultBar, Rejections
    <3>2. resultBar' = [resultBar EXCEPT ![v] = Refused]
      BY <1>3, <3>1 DEF resultBar
    <3>3. Store!Reject(v)
      BY <1>2, <1>5, <2>2, <3>2 DEF Store!Reject
    <3>4. QED
      BY <3>3 DEF Store!Next
  <2>4. CASE vpc'[v] = "done"
    <3>1. /\ vfd[v] \in Capturers /\ cpc[vfd[v]] = "published"
          /\ vdevs'[v] = topo[vfd[v]].devs /\ vbuses'[v] = topo[vfd[v]].buses
      <4>1. Faithful(v)' /\ (vfd'[v] = NoInode \/ Finished(vfd[v])')
        BY <2>1 DEF IInv, ViewFaithful, ViewerInv
      <4>2. /\ vfd[v] \in Capturers
            /\ vdevs'[v] = topo'[vfd[v]].devs /\ vbuses'[v] = topo'[vfd[v]].buses
        BY <2>1, <2>4, <4>1 DEF Faithful, IsSnapshot
      <4>3. cpc'[vfd[v]] = "published"
        BY <2>1, <4>1, <4>2, DistinctAssumption DEF Finished
      <4>4. QED
        BY <1>1, <4>2, <4>3
    <3>2. topo[vfd[v]] \in Topologies
      BY <3>1 DEF IInv, WriterInv
    <3>3. topo[vfd[v]] = [devs |-> vdevs'[v], buses |-> vbuses'[v]]
      <4>1. topo[vfd[v]] \in [devs : Seq({d \in DeviceDesc : WellFormed(d)}),
                              buses : Seq(BusDesc)]
        BY <3>2, TopologiesAssumption
      <4>2. QED
        BY <3>1, <4>1
    <3>4. heldBar[v] = topo[vfd[v]]
      BY <3>1 DEF heldBar, Contents, IsSnapshot
    <3>5. resultBar'[v] = heldBar[v]
      BY <2>4, <3>3, <3>4 DEF resultBar
    <3>6. resultBar' = [resultBar EXCEPT ![v] = heldBar[v]]
      BY <1>3, <3>5 DEF resultBar
    <3>7. Store!Show(v)
      BY <1>2, <1>5, <2>2, <3>2, <3>4, <3>6 DEF Store!Show
    <3>8. QED
      BY <3>7 DEF Store!Next
  <2>5. CASE vpc'[v] \notin ViewEnd
    <3>1. resultBar'[v] = Pending
      BY <2>5 DEF resultBar, ViewEnd
    <3>2. resultBar' = resultBar
      BY <1>3, <1>5, <3>1 DEF resultBar
    <3>3. QED
      BY <1>2, <2>2, <3>2 DEF Store!vars
  <2>6. QED
    BY <2>3, <2>4, <2>5 DEF ViewEnd
<1>9. QED
  BY <1>7, <1>8

LEMMA UserRefines ==
  ASSUME IInv, NEW p \in Paths, Remove(p) \/ Truncate(p)
  PROVE  [Store!Next]_Store!vars
<1>1. UNCHANGED <<capVars, viewVars>>
  BY DEF Remove, Truncate
<1>2. outcomeBar' = outcomeBar /\ heldBar' = heldBar /\ resultBar' = resultBar
  BY <1>1 DEF capVars, viewVars, outcomeBar, heldBar, resultBar, Contents
<1>3. CASE Remove(p)
  <2>1. storeBar'[p] = NoInode
    BY <1>3, DistinctAssumption DEF Remove, IInv, TypeOK, storeBar, Contents, IsSnapshot
  <2>2. \A q \in Paths \ {p} : storeBar'[q] = storeBar[q]
    BY <1>1, <1>3 DEF Remove, IInv, TypeOK, storeBar, Contents, capVars
  <2>3. storeBar' = [storeBar EXCEPT ![p] = NoInode]
    BY <2>1, <2>2 DEF storeBar
  <2>4. Store!Remove(p)
    BY <1>2, <2>3 DEF Store!Remove
  <2>5. QED
    BY <2>4 DEF Store!Next
<1>4. CASE Truncate(p)
  <2>1. storeBar' = storeBar
    BY <1>1, <1>4 DEF Truncate, storeBar, Contents, capVars
  <2>2. QED
    BY <1>2, <2>1 DEF Store!vars
<1>5. QED
  BY <1>3, <1>4

\* Whatever happens to the files, captures and views do what a store would do that
\* binds a name to a whole topology in one step.
THEOREM Refinement == Spec => ImplementsStore
<1>1. Init => Store!Init
  <2> SUFFICES ASSUME Init
               PROVE  Store!Init
    OBVIOUS
  <2>1. storeBar \in [Paths -> {NoInode, Foreign}]
    <3>1. \A p \in Paths : entry[p] \in {NoInode, Foreign}
      BY DEF Init
    <3>2. \A p \in Paths : Contents(entry[p]) \in {NoInode, Foreign}
      BY <3>1, DistinctAssumption DEF Contents, IsSnapshot
    <3>3. QED
      BY <3>2 DEF storeBar
  <2>2. outcomeBar = [c \in Capturers |-> "running"]
    BY DEF Init, outcomeBar, CaptureEnd
  <2>3. heldBar = [v \in Viewers |-> NoInode]
    BY DistinctAssumption DEF Init, heldBar, Contents, IsSnapshot
  <2>4. resultBar = [v \in Viewers |-> Pending]
    BY DEF Init, resultBar, Rejections
  <2>5. QED
    BY <2>1, <2>2, <2>3, <2>4 DEF Store!Init
<1>2. IInv /\ IInv' /\ [Next]_vars => [Store!Next]_Store!vars
  <2> SUFFICES ASSUME IInv, IInv', [Next]_vars
               PROVE  [Store!Next]_Store!vars
    OBVIOUS
  <2>1. ASSUME NEW c \in Capturers,
               StartCapture(c) \/ CaptureStep(c) \/ AbortCapture(c)
        PROVE  [Store!Next]_Store!vars
    BY <2>1, CaptureRefines
  <2>2. ASSUME NEW v \in Viewers, StartView(v) \/ ViewStep(v) \/ AbortView(v)
        PROVE  [Store!Next]_Store!vars
    BY <2>2, ViewRefines
  <2>3. ASSUME NEW p \in Paths, Remove(p) \/ Truncate(p)
        PROVE  [Store!Next]_Store!vars
    BY <2>3, UserRefines
  <2>4. CASE UNCHANGED vars
    BY <2>4 DEF vars, Store!vars, storeBar, outcomeBar, heldBar, resultBar, Contents
  <2>5. QED
    BY <2>1, <2>2, <2>3, <2>4 DEF Next
<1>3. QED
  BY <1>1, <1>2, Invariance, PTL DEF Spec, ImplementsStore, Store!Spec

-----------------------------------------------------------------------------
(***************************************************************************)
(* Every process gets nearer to its end.                                   *)
(***************************************************************************)

\* The capture that writes a record has one device less to write, and writes no more than
\* there are; any other call is followed by a later one.
LEMMA CaptureStepNearer ==
  ASSUME IInv, NEW c \in Capturers,
         StartCapture(c) \/ CaptureStep(c) \/ AbortCapture(c)
  PROVE  CaptureNearer(c)
<1>1. cpc[c] \in {"idle"} \cup CaptureBusy \cup CaptureEnd
  BY DEF IInv, TypeOK
<1>2. CASE StartCapture(c)
  <2>1. cpc[c] = "idle" /\ cpc'[c] \in {"scan", "failed"}
    BY <1>2 DEF StartCapture, IInv, TypeOK
  <2>2. QED
    BY <2>1 DEF CaptureNearer, CaptureCalls
<1>3. CASE Scan(c)
  <2>1. cpc[c] = "scan" /\ cpc'[c] = "prepare"
    BY <1>3 DEF Scan, IInv, TypeOK
  <2>2. QED
    BY <2>1 DEF CaptureNearer, CaptureCalls
<1>4. CASE Prepare(c)
  <2>1. cpc[c] = "prepare" /\ cpc'[c] = "devices"
    BY <1>4 DEF Prepare, IInv, TypeOK
  <2>2. QED
    BY <2>1 DEF CaptureNearer, CaptureCalls
<1>5. CASE WriteDevice(c)
  <2>1. /\ cpc' = cpc /\ topo' = topo /\ wnum'[c] = wnum[c] + 1
        /\ wnum[c] \in Nat /\ wnum[c] < Len(topo[c].devs)
    BY <1>5 DEF WriteDevice, IInv, TypeOK
  <2>2. Len(topo[c].devs) \in Nat
    <3>1. topo[c] \in Topologies \cup {NoTopology}
      BY DEF IInv, TypeOK
    <3>2. QED
      BY <3>1, TopologyType
  <2> DEFINE n == Len(topo[c].devs)
             k == wnum[c]
  <2>3. /\ CaptureTurns(c) = n - k /\ CaptureTurns(c)' = n - (k + 1)
        /\ n \in Nat /\ k \in Nat /\ k < n
    BY <2>1, <2>2 DEF CaptureTurns
  <2> HIDE DEF n, k
  <2>4. CaptureTurns(c)' \in 0..(CaptureTurns(c) - 1)
    BY <2>3
  <2>5. CaptureCalls(c)' = CaptureCalls(c)
    BY <2>1 DEF CaptureCalls
  <2>6. QED
    BY <2>4, <2>5 DEF CaptureNearer
<1>6. CASE WriteBuses(c)
  <2>1. cpc[c] = "devices" /\ cpc'[c] = "header"
    BY <1>6 DEF WriteBuses, IInv, TypeOK
  <2>2. QED
    BY <2>1 DEF CaptureNearer, CaptureCalls
<1>7. CASE StoreHeader(c)
  <2>1. cpc[c] = "header" /\ cpc'[c] = "link"
    BY <1>7 DEF StoreHeader, IInv, TypeOK
  <2>2. QED
    BY <2>1 DEF CaptureNearer, CaptureCalls
<1>8. CASE Finalize(c)
  <2>1. cpc[c] = "link" /\ cpc'[c] \in {"published", "failed"}
    BY <1>8 DEF Finalize, ExitWithout, IInv, TypeOK
  <2>2. QED
    BY <2>1 DEF CaptureNearer, CaptureCalls
<1>9. CASE AbortCapture(c)
  <2>1. cpc[c] \in CaptureBusy /\ cpc'[c] = "failed"
    BY <1>9 DEF AbortCapture, ExitWithout, IInv, TypeOK
  <2>2. QED
    BY <2>1 DEF CaptureNearer, CaptureCalls, CaptureBusy
<1>10. QED
  BY <1>2, <1>3, <1>4, <1>5, <1>6, <1>7, <1>8, <1>9 DEF CaptureStep

\* What a call of a view does to it.
LEMMA ViewStepNearer ==
  ASSUME IInv, NEW v \in Viewers, StartView(v) \/ ViewStep(v) \/ AbortView(v)
  PROVE  ViewNearer(v)
<1>1. vpc[v] \in {"idle"} \cup ViewBusy \cup ViewEnd
  BY DEF IInv, TypeOK
<1>2. CASE StartView(v)
  <2>1. vpc[v] = "idle" /\ vpc'[v] \in {"missing", "open"}
    BY <1>2 DEF StartView, IInv, TypeOK
  <2>2. QED
    BY <2>1 DEF ViewNearer, ViewCalls
<1>3. CASE OpenSnapshot(v)
  <2>1. vpc[v] = "open" /\ vpc'[v] \in {"missing", "header"}
    BY <1>3 DEF OpenSnapshot, IInv, TypeOK
  <2>2. QED
    BY <2>1 DEF ViewNearer, ViewCalls
<1>4. CASE ReadHeader(v)
  <2>1. HeaderVerdict(vfd[v], vstat[v].size) \in {"short", "magic", "size", "count", "ok"}
    BY DEF HeaderVerdict
  <2>2. vpc[v] = "header" /\ vpc'[v] \in {"short", "magic", "size", "count", "devices"}
    BY <1>4, <2>1 DEF ReadHeader, IInv, TypeOK
  <2>3. QED
    BY <2>2 DEF ViewNearer, ViewCalls
<1>5. CASE ReadDevice(v)
  <2> DEFINE verdict == DeviceVerdict(file[vfd[v]], voff[v], vnum[v], vtotal[v].devs)
             n == vtotal[v].devs
             k == vnum[v]
  <2>1. verdict \in {"short", "garbled", "last", "ok"}
    BY DEF DeviceVerdict
  <2>2. vpc[v] = "devices" /\ vpc \in [Viewers -> {"idle"} \cup ViewBusy \cup ViewEnd]
    BY <1>5 DEF ReadDevice, IInv, TypeOK
  <2>3. n \in Nat /\ k \in Nat
    BY DEF IInv, TypeOK
  <2>4. CASE verdict # "ok"
    <3>1. vpc'[v] \in {"short", "garbled", "last"}
      BY <1>5, <2>1, <2>2, <2>4 DEF ReadDevice
    <3>2. QED
      BY <2>2, <3>1 DEF ViewNearer, ViewCalls
  <2>5. CASE verdict = "ok"
    <3>1. /\ vpc'[v] = IF k + 1 <= n THEN "devices" ELSE "buses"
          /\ vnum'[v] = k + 1 /\ vtotal' = vtotal
      BY <1>5, <2>2, <2>5 DEF ReadDevice, IInv, TypeOK
    <3>2. ViewTurns(v) = n - k /\ ViewTurns(v)' = n - (k + 1)
      BY <3>1 DEF ViewTurns
    <3> HIDE DEF n, k
    <3>3. CASE k + 1 <= n
      <4>1. ViewTurns(v)' \in 0..(ViewTurns(v) - 1)
        BY <2>3, <3>2, <3>3
      <4>2. ViewCalls(v)' = ViewCalls(v)
        BY <2>2, <3>1, <3>3 DEF ViewCalls
      <4>3. QED
        BY <4>1, <4>2 DEF ViewNearer
    <3>4. CASE ~(k + 1 <= n)
      BY <2>2, <3>1, <3>4 DEF ViewNearer, ViewCalls
    <3>5. QED
      BY <3>3, <3>4
  <2>6. QED
    BY <2>4, <2>5
<1>6. CASE ReadBuses(v)
  <2>1. BusesVerdict(file[vfd[v]], voff[v], vtotal[v].buses) \in {"short", "garbled", "done"}
    BY DEF BusesVerdict
  <2>2. vpc[v] = "buses" /\ vpc'[v] \in {"short", "garbled", "done"}
    BY <1>6, <2>1 DEF ReadBuses, IInv, TypeOK
  <2>3. QED
    BY <2>2 DEF ViewNearer, ViewCalls
<1>7. CASE AbortView(v)
  <2>1. vpc[v] \in ViewBusy /\ vpc'[v] = "io"
    BY <1>7 DEF AbortView, IInv, TypeOK
  <2>2. QED
    BY <2>1 DEF ViewNearer, ViewCalls, ViewBusy
<1>8. QED
  BY <1>2, <1>3, <1>4, <1>5, <1>6, <1>7 DEF ViewStep

\* It leaves the captures and the other views alone.
LEMMA ViewLocal ==
  ASSUME IInv, NEW v \in Viewers, StartView(v) \/ ViewStep(v) \/ AbortView(v)
  PROVE  UNCHANGED capVars /\ \A w \in Viewers \ {v} : ViewStands(w)
<1>1. CASE StartView(v)
  BY <1>1 DEF StartView, IInv, TypeOK, ViewStands
<1>2. CASE OpenSnapshot(v)
  BY <1>2 DEF OpenSnapshot, IInv, TypeOK, ViewStands
<1>3. CASE ReadHeader(v)
  BY <1>3 DEF ReadHeader, IInv, TypeOK, ViewStands
<1>4. CASE ReadDevice(v)
  BY <1>4 DEF ReadDevice, IInv, TypeOK, ViewStands
<1>5. CASE ReadBuses(v)
  BY <1>5 DEF ReadBuses, IInv, TypeOK, ViewStands
<1>6. CASE AbortView(v)
  BY <1>6 DEF AbortView, IInv, TypeOK, ViewStands
<1>7. QED
  BY <1>1, <1>2, <1>3, <1>4, <1>5, <1>6 DEF ViewStep

\* However captures, views and the user take their steps, no process does a call again:
\* the safety half of Termination.
THEOREM ProcessesComeNearer == Spec => CallsComeNearer
<1>1. ASSUME IInv, Next
      PROVE  AllComeNearer
  <2>1. ASSUME UNCHANGED capVars
        PROVE  \A c \in Capturers : CaptureStands(c)
    BY <2>1 DEF capVars, CaptureStands
  <2>2. ASSUME UNCHANGED viewVars
        PROVE  \A v \in Viewers : ViewStands(v)
    BY <2>2 DEF viewVars, ViewStands
  <2>3. ASSUME NEW c \in Capturers, StartCapture(c) \/ CaptureStep(c) \/ AbortCapture(c)
        PROVE  AllComeNearer
    <3>1. CaptureNearer(c)
      BY <1>1, <2>3, CaptureStepNearer
    <3>2. OthersKept(c) /\ UNCHANGED viewVars
      BY <1>1, <2>3, CaptureLocal
    <3>3. \A d \in Capturers \ {c} : CaptureStands(d)
      BY <3>2 DEF OthersKept, CaptureStands
    <3>4. QED
      BY <2>2, <3>1, <3>2, <3>3 DEF AllComeNearer
  <2>4. ASSUME NEW v \in Viewers, StartView(v) \/ ViewStep(v) \/ AbortView(v)
        PROVE  AllComeNearer
    <3>1. ViewNearer(v)
      BY <1>1, <2>4, ViewStepNearer
    <3>2. UNCHANGED capVars /\ \A w \in Viewers \ {v} : ViewStands(w)
      BY <1>1, <2>4, ViewLocal
    <3>3. QED
      BY <2>1, <3>1, <3>2 DEF AllComeNearer
  <2>5. ASSUME NEW p \in Paths, Remove(p) \/ Truncate(p)
        PROVE  UNCHANGED <<capVars, viewVars>>
    BY <2>5 DEF Remove, Truncate
  <2>6. QED
    BY <1>1, <2>1, <2>2, <2>3, <2>4, <2>5 DEF Next, AllComeNearer
<1>2. IInv /\ [Next]_vars => [AllComeNearer]_vars
  BY <1>1
<1>3. QED
  BY <1>2, Invariance, PTL DEF Spec, CallsComeNearer
=============================================================================
