----------------------------- MODULE PublicSuffix -----------------------------
(***************************************************************************)
(* The public suffix list as the library reads it: a byte-coded automaton  *)
(* (libpsl's DAFSA), looked up name by name, and the registrable domain    *)
(* that follows from it.  Names and graphs are sequences of bytes;         *)
(* positions are counted from 0, as in the code.                           *)
(***************************************************************************)
EXTENDS Naturals, Sequences, SequencesExt

Dot == 46

(* What the code returns as an Option is a set of at most one element.     *)
None == {}
The(option) == CHOOSE x \in option : TRUE

-------------------------------------------------------------------------------
(* The graph: nodes are bytes of a key up to one with the high bit, which  *)
(* is either the last byte of the key so far, with a list of children      *)
(* behind it, or the value of a key that ends here.                        *)

At(bytes, pos) == IF pos < Len(bytes) THEN {bytes[pos + 1]} ELSE None

is_eol(graph, offset) == \E b \in At(graph, offset) : b >= 128

is_match(graph, offset, key, k) == At(graph, offset) \cap At(key, k) # {}

is_end_char_match(graph, offset, key, k) ==
    \E b \in At(graph, offset) : \E c \in At(key, k) : b >= 128 /\ b - 128 = c

get_return_value(graph, offset) == {b % 16 : b \in {x \in At(graph, offset) : x \div 32 = 4}}

(* A list of children: the offsets of all of them in one to three bytes    *)
(* each, counted from the child before; the high bit marks the last.       *)
get_next_offset(graph, pos, offset) ==
    LET Entry(b, bytes, distance) ==
            [pos |-> IF b >= 128 THEN Len(graph) ELSE pos + bytes, offset |-> offset + distance]
    IN  UNION {CASE (b \div 32) % 4 = 3 ->
                       {Entry(b, 3, (b % 32) * 65536 + hi * 256 + lo) :
                           hi \in At(graph, pos + 1), lo \in At(graph, pos + 2)}
                 [] (b \div 32) % 4 = 2 ->
                       {Entry(b, 2, (b % 32) * 256 + lo) : lo \in At(graph, pos + 1)}
                 [] OTHER -> {Entry(b, 1, b % 64)}
               : b \in At(graph, pos)}

(* How many bytes of the node at offset the key goes on with from k.       *)
Consumed(graph, offset, key, k) ==
    LET Agrees(i) == ~is_eol(graph, offset + i) /\ is_match(graph, offset + i, key, k + i)
    IN  CHOOSE j \in 0..(Len(key) - k) :
            /\ \A i \in 0..(j - 1) : Agrees(i)
            /\ j = Len(key) - k \/ ~Agrees(j)

(* The children are tried in order.  Once a byte of a child was consumed   *)
(* there is no other: no two children of a node begin alike.               *)
lookup(graph, key) ==
    LET Search[pos \in Nat, offset \in Nat, k \in Nat] ==
            LET Go(next, c) ==
                    LET end == next.offset + c
                        value == get_return_value(graph, end)
                    IN  IF k + c = Len(key) /\ value # None THEN value
                        ELSE IF k + c < Len(key) /\ is_end_char_match(graph, end, key, k + c)
                        THEN Search[end + 1, end + 1, k + c + 1]
                        ELSE IF c > 0 THEN None ELSE Search[next.pos, next.offset, k]
            IN  UNION {Go(next, Consumed(graph, next.offset, key, k)) :
                          next \in get_next_offset(graph, pos, offset)}
    IN  Search[0, 0, 0]

-------------------------------------------------------------------------------
(* The rules of the list.                                                  *)

FLAG_EXCEPTION(flags) == flags % 2 = 1
FLAG_WILDCARD(flags) == (flags \div 2) % 2 = 1

(* split_once('.') *)
Parent(domain) ==
    LET dot == SelectInSeq(domain, LAMBDA b : b = Dot)
    IN  IF dot = 0 THEN None ELSE {SubSeq(domain, dot + 1, Len(domain))}

(* Changed form, with which the property is tested. *)
is_public_suffix_ExceptionsToo(graph, domain) ==
    LET own == lookup(graph, domain)
    IN  IF own # None THEN TRUE
        ELSE \E p \in Parent(domain) : \E flags \in lookup(graph, p) : FLAG_WILDCARD(flags)

is_public_suffix(graph, domain) ==
    LET own == lookup(graph, domain)
    IN  IF own # None THEN ~FLAG_EXCEPTION(The(own))
        ELSE \E p \in Parent(domain) : \E flags \in lookup(graph, p) : FLAG_WILDCARD(flags)

public_suffix(graph, host) ==
    LET From[current \in Seq(Nat)] ==
            IF is_public_suffix(graph, current) THEN {current}
            ELSE IF Parent(current) = None THEN None
            ELSE From[The(Parent(current))]
    IN  From[host]

(* The suffix and one label more. *)
registrable_domain(graph, host) ==
    LET Under(suffix) ==
            LET prefix == SubSeq(host, 1, Len(host) - Len(suffix) - 1)
                dot == SelectLastInSeq(prefix, LAMBDA b : b = Dot)
            IN  SubSeq(prefix, dot + 1, Len(prefix)) \o <<Dot>> \o suffix
    IN  {Under(suffix) : suffix \in public_suffix(graph, host) \ {host}}
===============================================================================
