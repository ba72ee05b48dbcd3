----------------------------- MODULE MCChannels -----------------------------
EXTENDS Channels, TLC

CONSTANTS a, b, c

(* One producer and one consumer of each fifo, three threads for the locks *)
MCUse ==
    a :> {"write", "put", "lock", "unlock", "take"} @@
    b :> {"read", "get", "lock", "unlock", "post"} @@
    c :> {"write", "lock", "unlock", "take"}
============================================================================
