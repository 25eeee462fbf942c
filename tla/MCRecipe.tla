------------------------------ MODULE MCRecipe ------------------------------
(***************************************************************************)
(* One source for every route through the recipes: the two ways into cjxl  *)
(* and around it, files whose name lies or is not known to djxl, pictures  *)
(* deeper than eight bits whose format says so or not, sound deeper than   *)
(* sixteen, an animation, a silent and a partly undecodable transport      *)
(* stream.                                                                 *)
(***************************************************************************)
EXTENDS Recipe

Of(parts) == [p \in Parts |-> IF p \in parts \cup {"file"} THEN "own" ELSE "none"]

File(recipe, holds, named, deep, parts, opaque) ==
  [ recipe |-> recipe, holds |-> holds, named |-> named, deep |-> deep,
    form |-> Of(parts), opaque |-> opaque ]

MCSources ==
  { File("jxl_from_jpeg", "jpeg", "jpg", FALSE, {"coarse"}, {}),
    File("jxl_from_jpeg", "jpeg", "jfif", FALSE, {"coarse"}, {}),
    File("jxl_from_jpeg", "jpeg", "png", FALSE, {"coarse"}, {}),
    File("jxl_from_raster", "png", "png", FALSE, {"coarse"}, {}),
    File("jxl_from_raster", "png", "jpg", TRUE, {"coarse", "fine"}, {}),
    File("jxl_from_raster", "tiff", "tif", FALSE, {"coarse", "fine"}, {}),
    File("jxl_from_raster", "gif", "gif", FALSE, {"coarse", "later"}, {}),
    File("jxl_from_raster", "bmp", "bmp", FALSE, {"coarse"}, {}),
    File("jxl_from_webp", "webp", "png", FALSE, {"coarse"}, {}),
    File("flac", "pcm", "wav", FALSE, {"sound", "faint"}, {}),
    File("flac_recompress", "flac", "flac", FALSE, {"sound"}, {}),
    File("ts_remux", "mpegts", "ts", FALSE, {"coarse", "later", "sound", "faint"}, {}),
    File("ts_remux", "mpegts", "ts", FALSE, {"coarse", "later"}, {}),
    File("ts_remux", "mpegts", "ts", FALSE, {"coarse", "later", "sound"}, {"audio"}),
    File("ffv1", "intra", "mkv", FALSE, {"coarse", "fine", "later", "sound"}, {}) }
=============================================================================
