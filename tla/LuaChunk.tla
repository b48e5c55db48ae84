------------------------------- MODULE LuaChunk -------------------------------
(***************************************************************************)
(* Precompiled chunks of Lua: string.dump() writes a function (ldump.c),   *)
(* load() reads it (lundump.c) from pieces as they come (lzio.c).  A chunk *)
(* is a sequence of numbers: a field of fixed size is one of them, and so  *)
(* is a character.  A chunk that has been cut, or written by another       *)
(* version, is refused.                                                    *)
(*                                                                         *)
(* The line numbers and sizes of a function are its field "sizes"; the     *)
(* lines of its instructions, and the names of its variables with their    *)
(* scopes, can be stripped off.  That the code is sane is the matter of    *)
(* luaG_checkcode() (LuaCode).                                             *)
(***************************************************************************)
EXTENDS Integers, Sequences, SequencesExt

CONSTANTS
  Program,     \* functions: [source, sizes, code, k, p, lineinfo, locvars, upvalues]
  Pieces       \* how a reader hands a chunk out: lengths, over and over

\* Without it a reader would be at its end at once.
ASSUME PiecesAssumption == \A s \in Pieces : s # <<>> /\ \A i \in DOMAIN s : s[i] \in Nat \ {0}

VARIABLES
  function,    \* what is dumped, and whether it is stripped
  bytes,       \* the chunk
  whole,       \* it is all there
  loaded       \* what becomes of it: [ok, f, why]

lua_chunk_vars == <<function, bytes, whole, loaded>>

NoString == <<-1>>
LUA_TNIL == 0
LUA_TBOOLEAN == 1
LUA_TNUMBER == 3
LUA_TSTRING == 4
luaU_header == <<27, 81, 0>>          \* the signature, version and format
Unknown == <<61, 63>>                 \* "=?"

-----------------------------------------------------------------------------
(* Writing.                                                                *)

\* With the zero at the end.
DumpString(s) == IF s = NoString THEN <<0>> ELSE <<Len(s) + 1>> \o s \o <<0>>
DumpVector(v) == <<Len(v)>> \o v
DumpAll(v, Dump(_)) == <<Len(v)>> \o FlattenSeq([i \in DOMAIN v |-> Dump(v[i])])
DumpConstant(o) == <<o.t>> \o CASE o.t = LUA_TNIL -> <<>> [] o.t = LUA_TSTRING -> DumpString(o.v) [] OTHER -> o.v
DumpVariable(v) == DumpString(v.varname) \o <<v.startpc, v.endpc>>
DumpDebug(f, strip) ==
  IF strip THEN <<0, 0, 0>>
  ELSE DumpVector(f.lineinfo) \o DumpAll(f.locvars, DumpVariable) \o DumpAll(f.upvalues, DumpString)

\* A source that is that of the function around is not written again.
RECURSIVE DumpFunction(_, _, _)
DumpFunction(f, p, strip) ==
  LET inner(g) == DumpFunction(g, f.source, strip)
  IN DumpString(IF f.source = p \/ strip THEN NoString ELSE f.source)
     \o f.sizes \o DumpVector(f.code) \o DumpAll(f.k, DumpConstant) \o DumpAll(f.p, inner) \o DumpDebug(f, strip)

luaU_dump(f, strip) == luaU_header \o DumpFunction(f, NoString, strip)

-----------------------------------------------------------------------------
(* The stream: the piece at hand, the rest, how it is handed out; why it   *)
(* failed.                                                                 *)

luaZ_init(b, pieces) == [at |-> <<>>, rest |-> b, pieces |-> pieces, why |-> "none"]
Raise(z, why) == IF z.why = "none" THEN [z EXCEPT !.why = why] ELSE z

\* getS() hands out all of it, getF() and generic_reader() what they have.
luaZ_fill(z) ==
  LET n == IF Head(z.pieces) < Len(z.rest) THEN Head(z.pieces) ELSE Len(z.rest)
  IN [z EXCEPT !.at = SubSeq(z.rest, 1, n), !.rest = SubSeq(z.rest, n + 1, Len(z.rest)),
               !.pieces = Append(Tail(@), Head(@))]
\* The piece is empty afterwards at the end only.
luaZ_lookahead(z) == IF z.at = <<>> THEN luaZ_fill(z) ELSE z

\* [z, b, missing]
RECURSIVE luaZ_read(_, _, _)
ReadOn(z, b, n, m) == luaZ_read([z EXCEPT !.at = SubSeq(@, m + 1, Len(@))], b \o SubSeq(z.at, 1, m), n - m)
ReadFrom(z, b, n) == IF z.at = <<>> THEN [z |-> z, b |-> b, missing |-> n]
                     ELSE ReadOn(z, b, n, IF n <= Len(z.at) THEN n ELSE Len(z.at))
luaZ_read(z, b, n) == IF n = 0 THEN [z |-> z, b |-> b, missing |-> 0] ELSE ReadFrom(luaZ_lookahead(z), b, n)

-----------------------------------------------------------------------------
(* Reading: [z, v].  After an error nothing more is read.  r is what has   *)
(* been read so far.                                                       *)

Got(z, v) == [z |-> z, v |-> v]
LoadNext(r, Load(_)) == LET next == Load(r.z) IN Got(next.z, Append(r.v, next.v))
First(r) == Got(r.z, <<r.v>>)

BlockOf(z, r) == IF z.why = "none" /\ r.missing = 0 THEN Got(r.z, r.b)
               ELSE Got(Raise(z, "unexpected end"), r.b \o [i \in 1 .. r.missing |-> 0])
LoadBlock(z, n) == BlockOf(z, IF z.why = "none" THEN luaZ_read(z, <<>>, n) ELSE [z |-> z, b |-> <<>>, missing |-> n])
Integer(r) == IF r.v[1] < 0 THEN Got(Raise(r.z, "bad integer"), 0) ELSE Got(r.z, r.v[1])
LoadInt(z) == Integer(LoadBlock(z, 1))
Chars(r) == Got(r.z, Front(r.v))
StringOf(size) == IF size.v = 0 THEN Got(size.z, NoString) ELSE Chars(LoadBlock(size.z, size.v))
LoadString(z) == StringOf(LoadInt(z))
LoadVector(z) == LET n == LoadInt(z) IN LoadBlock(n.z, n.v)
LoadAll(z, Load(_)) ==
  LET n == LoadInt(z) IN FoldLeft(LAMBDA r, i : LoadNext(r, Load), Got(n.z, <<>>), [i \in 1 .. n.v |-> i])

Value(tag, v) == Got(IF tag \in {LUA_TNIL, LUA_TBOOLEAN, LUA_TNUMBER, LUA_TSTRING} THEN v.z ELSE Raise(v.z, "bad constant"),
                        [t |-> tag, v |-> v.v])
Tagged(t) == Value(t.v[1], IF t.v[1] = LUA_TSTRING THEN LoadString(t.z) ELSE LoadBlock(t.z, IF t.v[1] = LUA_TNIL THEN 0 ELSE 1))
LoadConstant(z) == Tagged(LoadBlock(z, 1))
Variable(r) == Got(r.z, [varname |-> r.v[1], startpc |-> r.v[2], endpc |-> r.v[3]])
LoadVariable(z) == Variable(LoadNext(LoadNext(First(LoadString(z)), LoadInt), LoadInt))

LoadSizes(z) == LoadBlock(z, 2)
LoadConstants(z) == LoadAll(z, LoadConstant)
LoadLocals(z) == LoadAll(z, LoadVariable)
LoadUpvalues(z) == LoadAll(z, LoadString)
LoadDebug(r) == LoadNext(LoadNext(LoadNext(r, LoadVector), LoadLocals), LoadUpvalues)
Proto(r, source) ==
  Got(r.z, [source |-> source, sizes |-> r.v[2], code |-> r.v[3], k |-> r.v[4], p |-> r.v[5],
               lineinfo |-> r.v[6], locvars |-> r.v[7], upvalues |-> r.v[8]])

RECURSIVE LoadFunction(_, _)
LoadFunctions(z, source) == LET inner(y) == LoadFunction(y, source) IN LoadAll(z, inner)
LoadBody(name, source) ==
  LET functions(z) == LoadFunctions(z, source)
  IN Proto(LoadDebug(LoadNext(LoadNext(LoadNext(LoadNext(First(name), LoadSizes), LoadVector), LoadConstants), functions)), source)
Named(name, p) == LoadBody(name, IF name.v = NoString THEN p ELSE name.v)
LoadFunction(z, p) == Named(LoadString(z), p)

Header(r) == IF r.v = luaU_header THEN r.z ELSE Raise(r.z, "bad header")
LoadHeader(z) == Header(LoadBlock(z, Len(luaU_header)))
luaU_undump(z) == LoadFunction(LoadHeader(z), Unknown)

-----------------------------------------------------------------------------
Nothing == [ok |-> FALSE, f |-> "nothing", why |-> "not loaded"]
Loaded == loaded.why # "not loaded"

LuaChunkInit == /\ \E f \in Program, strip \in BOOLEAN : function = [f |-> f, strip |-> strip]
                /\ bytes = <<>> /\ whole = TRUE /\ loaded = Nothing

str_dump == /\ bytes = <<>> /\ bytes' = luaU_dump(function.f, function.strip)
            /\ UNCHANGED <<function, whole, loaded>>

\* What can happen to a file.
Cut(n) == /\ bytes # <<>> /\ whole /\ ~Loaded /\ n < Len(bytes)
          /\ bytes' = SubSeq(bytes, 1, n) /\ whole' = FALSE /\ UNCHANGED <<function, loaded>>
OtherVersion == /\ bytes # <<>> /\ whole /\ ~Loaded
                /\ bytes' = [bytes EXCEPT ![2] = 82] /\ whole' = FALSE /\ UNCHANGED <<function, loaded>>

\* The first character tells a chunk from a program text.
Outcome(r) == IF r.z.why = "none" THEN [ok |-> TRUE, f |-> r.v, why |-> "none"] ELSE [Nothing EXCEPT !.why = r.z.why]
LoadedFrom(z) == IF z.at = <<>> \/ Head(z.at) # Head(luaU_header) THEN [Nothing EXCEPT !.why = "text"]
             ELSE Outcome(luaU_undump(z))
f_parser(pieces) ==
  /\ bytes # <<>> /\ ~Loaded /\ UNCHANGED <<function, bytes, whole>>
  /\ loaded' = LoadedFrom(luaZ_lookahead(luaZ_init(bytes, pieces)))

\* What was loaded is a function like any other, to be dumped again.
Again == /\ loaded.ok /\ function.strip /\ function' = [f |-> loaded.f, strip |-> FALSE]
         /\ bytes' = <<>> /\ whole' = TRUE /\ loaded' = Nothing

LuaChunkNext == \/ str_dump \/ OtherVersion \/ Again \/ \E n \in 1 .. Len(bytes) : Cut(n)
                \/ \E pieces \in Pieces : f_parser(pieces)
LuaChunkSpec == LuaChunkInit /\ [][LuaChunkNext]_lua_chunk_vars

-----------------------------------------------------------------------------
RECURSIVE Stripped(_)
Stripped(f) == [f EXCEPT !.source = Unknown, !.lineinfo = <<>>, !.locvars = <<>>, !.upvalues = <<>>,
                         !.p = [i \in DOMAIN @ |-> Stripped(@[i])]]

\* However it comes in pieces, a chunk that is whole is the function that was
\* dumped, with what was stripped off missing; one that is not is refused
\* (lundump.c:43, 196).
ChunkRight ==
  Loaded =>
    IF whole THEN loaded.ok /\ loaded.f = IF function.strip THEN Stripped(function.f) ELSE function.f
    ELSE ~loaded.ok /\ loaded.why \in {"unexpected end", "bad header"}
=============================================================================
