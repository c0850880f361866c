---------------------------- MODULE MCCartSaves ----------------------------
\* Two granules, an erase block each; a blank cartridge and a full one.  The command
\* addresses fall in the first granule.
EXTENDS CartSaves

MCBlock == {{1}, {2}}
MCPristine == {[g \in Granule |-> 1]}
MCTried ==
  [at : {"5555"}, g : {1}, v : {"AA", "A0", "80", "9A", "10", "90"}]
    \cup [at : {"2AAA"}, g : {1}, v : {"55"}]
    \cup [at : {"data"}, g : Granule, v : {"30", "F0"}]
============================================================================
