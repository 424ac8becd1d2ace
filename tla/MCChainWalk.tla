----------------------------- MODULE MCChainWalk -----------------------------
(* Small instances of ChainWalk for TLC. *)
EXTENDS ChainWalk

CONSTANTS Lens, Sectors, BufSizes

Last == CHOOSE d \in Descs : \A e \in Descs : e <= d

\* The chain goes up through the table to stop, or from its last descriptor back
\* to the second.  Descriptors that are not data are alike in all tables.
Table(stop, data, write, len) ==
  [d \in Descs |->
     [len |-> IF d \in data THEN len[d] ELSE 1,
      write |-> IF d \in data THEN write[d] ELSE d # 0,
      next |-> IF d = stop THEN End ELSE IF d = Last THEN 1 ELSE d + 1]]

TablesTo(stop, data) ==
  {Table(stop, data, w, l) : w \in [data -> BOOLEAN], l \in [data -> Lens]}

BlkTables == UNION {TablesTo(stop, 1 .. stop - 1) : stop \in Descs}
             \cup {Table(End, Descs \ {0}, w, [d \in Descs |-> 1]) : w \in [Descs -> BOOLEAN]}
TxTables == UNION {TablesTo(stop, 0 .. stop) : stop \in Descs \ {Last}}
            \cup {Table(End, {0}, [d \in Descs |-> FALSE], [d \in Descs |-> 1])}

Blks(type, fabrics, directs, readonlys) ==
  [dev : {"blk"}, table : BlkTables, type : {type}, sector : Sectors, fabric : fabrics,
   direct : directs, readonly : readonlys, io_buf_size : BufSizes]

SmallRequests ==
  Blks("IN", {"socket", "mapped"}, {FALSE}, {FALSE})
  \cup Blks("IN", {"mapped"}, {TRUE}, {FALSE})
  \cup Blks("OUT", {"socket", "mapped"}, {FALSE}, BOOLEAN)
  \cup Blks("FLUSH", {"socket"}, {FALSE}, {FALSE})
  \cup Blks("OTHER", {"mapped"}, {FALSE}, {FALSE})
  \cup [dev : {"console"}, table : TxTables, type : {"OTHER"}, sector : {0},
        fabric : {"socket", "mapped"}, direct : {FALSE}, readonly : {FALSE},
        io_buf_size : {0}]
=============================================================================
