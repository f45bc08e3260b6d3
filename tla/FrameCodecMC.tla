---------------------------- MODULE FrameCodecMC ----------------------------
(***************************************************************************)
(* FrameCodec over parameters with each piece there, missing or wrong, and *)
(* over a few streams followed to a frame: subsampled and not, with and    *)
(* without the colour transform, slices that fit and slices that do not.   *)
(***************************************************************************)
EXTENDS FrameCodec

Block(fourcc, n) == CanonicalExtradataFor(fourcc, n).value
None == [Block("ULY0", 1) EXCEPT !.length = 0]

Tags == Fourccs \cup {"other", Absent}
Formats == {"Yuv420P", "Yuv422P", "Yuv444P", "Rgb24", Absent}
Sides == {Absent, 0, 1, 2}
MCBlocks ==
  {None, [Block("ULY0", 1) EXCEPT !.length = 8],
   Block("ULY2", 1), [Block("ULRG", 256) EXCEPT !.version = "other"],
   [Block("ULRA", 2) EXCEPT !.length = 20, !.tag = "other"],
   [Block("ULY4", 1) EXCEPT !.frameInfoSize = 8, !.huffman = FALSE],
   [Block("ULY4", 1) EXCEPT !.huffman = FALSE, !.interlaced = TRUE],
   [Block("ULY4", 1) EXCEPT !.interlaced = TRUE]}

Paperwork ==
  [tag : Tags, pixelFormat : Formats, width : Sides, height : Sides,
   extradata : MCBlocks]

Shot(fourcc, w, h, n) ==
  [tag |-> fourcc, pixelFormat |-> Absent, width |-> w, height |-> h,
   extradata |-> Block(fourcc, n)]
MCShots ==
  {Shot("ULY0", 2, 4, 2), Shot("ULY0", 2, 4, 3), Shot("ULY2", 4, 2, 2),
   Shot("ULY4", 1, 3, 3), Shot("ULRG", 2, 2, 2), Shot("ULRG", 1, 2, 3),
   Shot("ULRA", 3, 1, 1), Shot("ULRA", 1, 2, 2)}

MCParams == Paperwork \cup MCShots

MCPictures == {<<0, 1, 2, 0>>, <<2, 0, 1, 1>>, <<1, 2, 2, 0>>}
=============================================================================
