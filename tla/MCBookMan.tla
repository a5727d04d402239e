----------------------------- MODULE MCBookMan ------------------------------
EXTENDS BookMan

\* 'b', and the first byte of many Chinese characters: they have bits in common
\* with each other, and none with the first row of the first floor.
MCLetter == {98, 228}
MCSelectShelf == {1}

\* A floor without rows below one with two, and the other way round.
MCUserShelf == {[nfloors |-> 2, depths |-> <<0, 2, 0, 0, 0>>], [nfloors |-> 3, depths |-> <<2, 1, 0, 0, 0>>]}

\* Memory full of zeros, and memory with more floors than there can be.
MCStackShelf == {[nfloors |-> 0, depths |-> [i \in Byte |-> 0]], [nfloors |-> 7, depths |-> [i \in Byte |-> 3]]}
=============================================================================
