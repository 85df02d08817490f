------------------------------- MODULE Screen -------------------------------
(***************************************************************************)
(* The screen of kernel/src/drivers/screen.rs as operators on its record:  *)
(* the geometry, the length of the back buffer in the heap, and how many   *)
(* of its first bytes have been written to.                                *)
(***************************************************************************)
EXTENDS Integers, FiniteSetsExt

\* Screen::new
NewScreen == [width |-> 0, height |-> 0, bits_per_pixel |-> 0, stride |-> 0,
              len |-> 0, filled |-> 0]

\* Mutant: four bytes a pixel whatever the tag says.
buffer_size_rgba(fb) == fb.width * fb.height * 4

\* The length of the back buffer of Screen::init: rows without padding.
buffer_size(fb) == (fb.width * fb.height * fb.bpp) \div 8

\* Screen::init, once the buffer has been allocated.
InitScreen(fb) ==
  [width |-> fb.width, height |-> fb.height, bits_per_pixel |-> fb.bpp,
   stride |-> fb.pitch, len |-> buffer_size(fb), filled |-> 0]

\* Screen::write: as much of the data as there is room for.
write(screen, data_len) ==
  [screen EXCEPT !.filled = Max({@, Min({data_len, screen.len})})]

\* PixmapMut::from_bytes of the crate tiny_skia: four bytes a pixel, exactly.
from_bytes(screen) ==
  /\ screen.width > 0 /\ screen.height > 0
  /\ screen.len = screen.width * screen.height * 4

\* pixmap.fill and fill_path: every pixel is painted.
paint(screen) == [screen EXCEPT !.filled = screen.len]

\* Screen::sync: the bytes from the start of the frame buffer it overwrites.
sync(screen) == 0 .. screen.len - 1
=============================================================================
