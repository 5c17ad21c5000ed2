----------------------------- MODULE MCTaskCall -----------------------------
EXTENDS TaskCall

Programs ==
  UNION {[1..n -> {"in", "out", "err"}] : n \in 0..3}
  \union {<<"out", "out", "in", "in", "err">>, <<"err", "err", "err", "err">>,
          <<"out", "in", "out", "in", "out", "out">>}

\* Every short child, one that writes more than a pipe holds before it reads,
\* one that floods stderr and one that answers line by line.  Only a provider's
\* child has something on its stdin, and only a task's has a time limit.
MCChildren ==
  {c \in [program : Programs, exit : {0, 3}, stdin : 0..2, timed : BOOLEAN, daemon : BOOLEAN] :
     c.stdin > 0 => ~c.timed}

MCRequests ==
  [kind : {"fetch"}, wellFormed : BOOLEAN, retries : {0, 1, 3}, timed : BOOLEAN]
  \union [kind : {"chat"}, wellFormed : BOOLEAN, retries : {0}, timed : {FALSE}]
  \union [kind : StoreKinds, wellFormed : BOOLEAN, retries : {0}, timed : BOOLEAN]

NoChild == [program |-> <<>>, exit |-> 0, stdin |-> 0, timed |-> FALSE, daemon |-> FALSE]
NoRequest == CHOOSE r \in MCRequests : r.kind = "chat"

Base(type) ==
  [type |-> type, given |-> {}, op |-> "none", bad |-> FALSE, depth |-> 0,
   path |-> "p", destination |-> "p", size |-> 1, child |-> NoChild, request |-> NoRequest]

ProcessCalls ==
  {[Base("exec") EXCEPT !.child = c] : c \in {x \in MCChildren : x.stdin = 0}}
  \union {[Base("method") EXCEPT !.child = c, !.given = {"subcommand", "binary"}] :
            c \in {x \in MCChildren : ~x.timed}}
  \union {[Base(type) EXCEPT !.given = g, !.bad = b /\ type = "run"] :
            type \in {"run", "method"}, b \in BOOLEAN,
            g \in SUBSET {"script", "file", "subcommand", "binary"}}

WebCalls ==
  {[Base(IF r.kind \in StoreKinds THEN "store" ELSE r.kind)
      EXCEPT !.request = r, !.op = r.kind, !.given = g, !.bad = b] :
     r \in MCRequests, g \in {{}, {"key"}}, b \in BOOLEAN}

FileCalls ==
  {[Base("file") EXCEPT !.op = o, !.given = g, !.destination = d, !.size = n] :
     o \in FileOps \union {"chmod"}, d \in {"p", "q"}, n \in 0..2,
     g \in {{}, {"destination"}, {"destination", "encoding"}}}

OtherCalls ==
  {[Base(type) EXCEPT !.bad = b, !.depth = d, !.op = "touch"] :
     type \in {"assert", "flow", "map", "eval", "store"}, b \in BOOLEAN, d \in 0..2}

MCCalls == ProcessCalls \union WebCalls \union FileCalls \union OtherCalls
=============================================================================
