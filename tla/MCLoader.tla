------------------------------ MODULE MCLoader ------------------------------
(* Loader with initrds of several sizes and places, and files that are     *)
(* programs of both linkers' layouts, programs that get in their own way,  *)
(* and no programs.                                                        *)
EXTENDS Loader

Ehdr_(native, phnum, start) ==
  [is |-> "ehdr", native |-> native, phoff |-> 1, phnum |-> phnum, entry |-> start]
Seg(offset, vaddr, filesz, memsz) ==
  [is |-> "phdr", load |-> TRUE, offset |-> offset, vaddr |-> vaddr,
   filesz |-> filesz, memsz |-> memsz]
Note    == [Seg(0, 0, 0, 0) EXCEPT !.load = FALSE]
Data_(k) == [is |-> "data", id |-> k]

Text == 18
MCLayouts ==
  {[kernel |-> 2, initrd |-> at, tables |-> IF x64 THEN 0 ELSE 2, checks |-> x64] :
     at \in {2, 5, 10}, x64 \in BOOLEAN}
MCPrograms == {
  <<>>,
  <<Data_(1), Data_(2)>>,
  <<Ehdr_(FALSE, 1, Text), Seg(2, Text, 1, 1), Data_(1)>>,
  \* ld.lld on i386: the headers in place, then the text with its bss
  <<Ehdr_(TRUE, 3, Text), Seg(0, STAGE, 4, 4), Note, Seg(4, Text, 2, 4), Data_(1), Data_(2)>>,
  \* ld.lld on x86_64: the headers below the buffer
  <<Ehdr_(TRUE, 2, Text), Seg(0, STAGE - 2, 2, 2), Seg(3, Text, 1, 1), Data_(1)>>,
  <<Ehdr_(TRUE, 2, Text), Seg(3, Text + 1, 1, 3), Seg(4, Text, 1, 1), Data_(1), Data_(2)>>,
  \* bytes beyond the size in memory are copied all the same; no entry point
  <<Ehdr_(TRUE, 1, 0), Seg(2, Text, 2, 1), Data_(1), Data_(2)>>,
  \* into the buffer: over the next header, over the first one, over its data
  <<Ehdr_(TRUE, 2, Text), Seg(3, STAGE + 2, 1, 1), Seg(3, Text, 1, 1), Data_(1)>>,
  <<Ehdr_(TRUE, 2, Text), Seg(1, STAGE, 1, 1), Seg(3, Text, 1, 1), Data_(1)>>,
  <<Ehdr_(TRUE, 1, Text), Seg(2, STAGE + 3, 2, 2), Data_(1), Data_(2)>>,
  \* over its own header, with one that has another size
  <<Ehdr_(TRUE, 1, Text), Seg(2, STAGE + 1, 1, 1), Seg(2, STAGE + 1, 0, 2)>>,
  \* to where there is no memory
  <<Ehdr_(TRUE, 1, Text), Seg(2, MEM - 1, 1, 2), Data_(1)>>}
=============================================================================
