----------------------------- MODULE MCElfLoader -----------------------------
EXTENDS ElfLoader

\* Segments that begin anywhere in the first pages, with all lengths up to
\* two pages and one byte more in the file and in memory; the second follows
\* the first in the file.
Segments(vaddrs, pos) ==
  {s \in [p_vaddr: vaddrs, p_offset: {pos}, p_filesz: 0 .. 2 * P + 1, p_memsz: 0 .. 2 * P + 1] :
     s.p_filesz <= s.p_memsz + 1}

TwoSegments ==
  UNION {{<<s, t>> : t \in Segments({P, 2 * P + 1}, s.p_filesz)} : s \in Segments(0 .. P, 0)}
=============================================================================
