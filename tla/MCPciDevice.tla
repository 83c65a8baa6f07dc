----------------------------- MODULE MCPciDevice -----------------------------
(***************************************************************************)
(* Instances of PciDevice for TLC.  Addresses count in units of a quarter  *)
(* of a page.                                                              *)
(***************************************************************************)
EXTENDS PciDevice, TLC

Hdr(i, n) == [id |-> i, next |-> n]
None == [start |-> 0, end |-> 0, kind |-> "none"]
Res(s, e, k) == [start |-> s, end |-> e, kind |-> k]

\* Lists of one to three compatible capabilities, among them one that leads to a
\* lower offset, one whose Express capability comes last and one without it.
MCCompat ==
  {<<64, 64 :> Hdr(Express, 0)>>,
   <<67, 64 :> Hdr(1, 80) @@ 80 :> Hdr(5, 72) @@ 72 :> Hdr(Express, 0)>>,
   <<82, 64 :> Hdr(5, 0) @@ 80 :> Hdr(9, 64)>>,
   <<72, 64 :> Hdr(9, 0) @@ 72 :> Hdr(Express, 80) @@ 80 :> Hdr(9, 64)>>}

\* Extended lists: none, with a null header first, between others and last.
MCExt ==
  {256 :> Hdr(0, 0),
   256 :> Hdr(1, 0),
   256 :> Hdr(0, 272) @@ 272 :> Hdr(3, 0),
   256 :> Hdr(1, 512) @@ 272 :> Hdr(3, 0) @@ 512 :> Hdr(0, 272),
   256 :> Hdr(1, 272) @@ 272 :> Hdr(1, 512) @@ 512 :> Hdr(0, 0)}

\* Adjacent BARs, one smaller than a page, one behind a gap, ports, and gaps in the
\* numbering as 64-bit BARs leave them.
MCResources ==
  {<<Res(8, 15, "mem"), None, Res(16, 16, "mem"), Res(17, 19, "mem"), Res(4, 7, "io"), None>>,
   <<Res(16, 17, "mem"), Res(8, 13, "mem"), None, None, None, None>>,
   <<None, Res(4, 11, "io"), Res(12, 15, "mem"), None, None, None>>}

MCDescs ==
  {[len |-> l, type0 |-> t, caps |-> c, ptr |-> cp[1], compat |-> cp[2],
    ext |-> IF l = ECS THEN x ELSE << >>, res |-> r] :
     l \in {Legacy, ECS}, t \in BOOLEAN, c \in {TRUE}, cp \in MCCompat, x \in MCExt,
     r \in MCResources}
  \cup {[len |-> Legacy, type0 |-> TRUE, caps |-> FALSE, ptr |-> 0, compat |-> << >>,
         ext |-> << >>, res |-> r] : r \in MCResources}

Line(io, va, pages, phys) ==
  [ioremap |-> io, start |-> va, end |-> va + 4 * (pages + 1), phys |-> phys]

\* By virtual address, as the kernel lists them: of no BAR, of one, of one BAR twice,
\* at the start and the end of one, and not of an ioremap.
MCVmInfos ==
  {<< >>,
   <<Line(TRUE, 100, 1, 16), Line(TRUE, 120, 2, 8), Line(FALSE, 140, 1, 12),
     Line(TRUE, 160, 1, 12)>>,
   <<Line(TRUE, 100, 1, 20), Line(TRUE, 120, 1, 12), Line(TRUE, 140, 1, 12),
     Line(TRUE, 160, 1, 0)>>}

MCBeyond == {Hdr(0, 0), Hdr(1, 260), Hdr(0, 70)}
=============================================================================
