----------------------------- MODULE MCUnichrome -----------------------------
(***************************************************************************)
(* Modes of every depth and of clocks over the whole range, one larger     *)
(* than the memory, and one of a depth the driver does not know; addresses *)
(* in every byte of the start address.                                     *)
(***************************************************************************)
EXTENDS UnichromeMode

Mode(c, h, b, g, v) == [clock |-> c, hdisplay |-> h, bpp |-> b, green |-> g, size |-> h * v * (b \div 8)]

MCModes ==
  {Mode(25175, 640, 8, 8, 480), Mode(40000, 800, 16, 5, 600), Mode(65000, 1024, 16, 6, 768),
   Mode(108000, 1280, 32, 8, 1024), Mode(122000, 1400, 8, 8, 1050), Mode(162000, 1600, 32, 8, 1200),
   Mode(7160, 320, 24, 8, 200), Mode(300000, 2048, 32, 8, 1536),
   Mode(1840000, 4000, 32, 8, 4000)}
MCClocks == {m.clock : m \in MCModes}
=============================================================================
