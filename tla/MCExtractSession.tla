--------------------------- MODULE MCExtractSession ---------------------------
(* ExtractSession for TLC: the archives the MCExtract*.cfg choose from.    *)
EXTENDS ExtractSession

From(source, image, blocks, needed, readsToEnd) ==
  [source |-> source, image |-> image, blocks |-> blocks, needed |-> needed,
   readsToEnd |-> readsToEnd]

Archive(image, blocks, needed, readsToEnd) ==
  From("curl", image, blocks, needed, readsToEnd)

\* A compressed image, and several files in an archive; both and a raw image, too,
\* from a local file.
ImageOrFiles == {Archive(TRUE, 5, 5, TRUE), Archive(FALSE, 3, 3, FALSE),
                 From("file", TRUE, 4, 4, TRUE), From("file", FALSE, 4, 3, FALSE),
                 From("rawFile", TRUE, 4, 4, TRUE)}

ImageWithTail == {Archive(TRUE, 5, 2, FALSE)}

\* Each breaks one of the invariants of MCExtractExceptions.cfg.
Exceptions == {Archive(TRUE, 3, 3, TRUE), Archive(TRUE, 0, 0, TRUE),
               Archive(FALSE, 3, 3, TRUE)} \cup ImageWithTail
===============================================================================
