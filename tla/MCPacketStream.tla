--------------------------- MODULE MCPacketStream ---------------------------
EXTENDS PacketStream

\* One buffer of the client's: with the library's own there are two to swap.
CONSTANT b1
MCUserBufs == {b1}

\* One packet in the middle of a frame may come short.
MCShortSlots == {2}
=============================================================================
