--------------------------- MODULE MCTransferStack ---------------------------
(* The addresses of the source; a caller with just the room the stock path  *)
(* needs, interrupts of the shortest frame and of the longest that fits.    *)
EXTENDS TransferStack

MCPrivateStack == \h1FE0
MCLive == {\h1FC6, \h1FC7}
MCCaller == \h0740
MCFrames == {4, 13}
MCLengths == {1, 2, 3, 4, 7, 45, 300}
MCSources == {\h8000, \hC123}
=============================================================================
