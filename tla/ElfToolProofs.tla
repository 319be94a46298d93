--------------------------- MODULE ElfToolProofs ----------------------------
(***************************************************************************)
(* Proofs about module ElfTool, for all files and any number of calls.     *)
(***************************************************************************)
EXTENDS ElfTool, TLAPS

(* Memory *)

LEMMA AllocIs ==
    ASSUME NEW s \in State, NEW B \in SUBSET Block
    PROVE  /\ Alloc(s, B) \in State
           /\ Alloc(s, B).live = s.live \cup B
           /\ Alloc(s, B).e = s.e /\ Alloc(s, B).crashed = s.crashed
BY DEF Alloc, State

LEMMA TouchIs ==
    ASSUME NEW s, NEW B, B \subseteq s.live
    PROVE  Touch(s, B) = s
BY DEF Touch

LEMMA FreeIs ==
    ASSUME NEW s \in State, NEW B, B \subseteq s.live
    PROVE  /\ Free(s, B) \in State
           /\ Free(s, B).live = s.live \ B
           /\ Free(s, B).e = s.e /\ Free(s, B).crashed = s.crashed
<1>1. Free(s, B) = [s EXCEPT !.live = @ \ B] BY TouchIs DEF Free
<1>. QED BY <1>1 DEF State

\* A state whose handle becomes x while B is allocated.
LEMMA GrowGood ==
    ASSUME NEW s, Good(s), s.e # NULL,
           NEW t \in State, NEW B, t.live = s.live \cup B, t.crashed = s.crashed,
           t.e # NULL, HandleOK(t.e),
           Owned(t.e) \subseteq Owned(s.e) \cup B, Owned(s.e) \subseteq Owned(t.e),
           \A b \in B : b \in Owned(t.e) \/ b.kind \in Leaky
    PROVE  Good(t)
BY DEF Good

\* Blocks are leaked, or the call changes nothing.
LEMMA LeakGood ==
    ASSUME NEW s, Good(s), s.e # NULL,
           NEW t \in State, NEW B, t.live = s.live \cup B, t.crashed = s.crashed,
           t.e = s.e, \A b \in B : b.kind \in Leaky
    PROVE  Good(t)
BY GrowGood DEF Good

-----------------------------------------------------------------------------
(* Handles *)

\* The headers, and what is found through them, depend on the file and entry 0 only.
LEMMA SameHeaders ==
    ASSUME NEW x, NEW y, x.file = y.file, x.zero = y.zero
    PROVE  /\ \A i : Shdr(x, i) = Shdr(y, i)
           /\ \A t : OfType(x, t) = OfType(y, t)
BY DEF Shdr, OfType

LEMMA SameSearch ==
    ASSUME NEW x, NEW y, x.file = y.file, x.zero = y.zero, x.strtab = y.strtab
    PROVE  \A i : Search(x, i) = Search(y, i)
<1>. SUFFICES ASSUME NEW i PROVE Search(x, i) = Search(y, i) OBVIOUS
<1>1. Shdr(x, i) = Shdr(y, i) BY SameHeaders
<1>. QED BY <1>1 DEF Search

LEMMA KeptSelf ==
    ASSUME NEW x PROVE Kept(x, x)
BY DEF Kept

LEMMA KeptTrans ==
    ASSUME NEW x, NEW y, NEW z, Kept(x, y), Kept(y, z)
    PROVE  Kept(x, z)
BY DEF Kept

\* Fields are not NULL when they hold blocks.
LEMMA OwnedIs ==
    ASSUME NEW x, x # NULL
    PROVE  Owned(x) = {x.block, x.fd, x.elf} \cup Ptr(x.phdr) \cup Ptr(x.shdr) \cup TabPtrs(x.strtab)
                      \cup SymOwned(x.sym) \cup SymOwned(x.dsym)
BY DEF Owned

LEMMA FreshIs ==
    ASSUME calls \in Nat, NEW i \in Nat,
           NEW k \in {"fd", "elf", "handle", "phdr", "shdr", "tab", "data", "sym", "symbols"}
    PROVE  /\ Fresh(k, i) \in Block /\ Fresh(k, i) # NULL
           /\ Fresh(k, i).kind = k /\ Fresh(k, i).sect = i
BY PointerAssumption DEF Fresh, Block

-----------------------------------------------------------------------------
(* Loading *)

LEMMA LoadPhdr ==
    ASSUME calls \in Nat, NEW s, Good(s), s.e # NULL, NEW t \in elf_load_phdr(s)
    PROVE  /\ Good(t) /\ t.e # NULL /\ Kept(s.e, t.e) /\ t.e.file = s.e.file
<1>. DEFINE b == Fresh("phdr", 0)
            x == [s.e EXCEPT !.phdr = b]
<1>1. s \in State /\ s.e \in Handle BY DEF Good, State
<1>2. b \in Block /\ b # NULL /\ b.kind = "phdr" BY FreshIs
<1>3. /\ Alloc(s, {b}) \in State /\ Alloc(s, {b}).live = s.live \cup {b}
      /\ Alloc(s, {b}).e = s.e /\ Alloc(s, {b}).crashed = s.crashed
    BY <1>1, <1>2, AllocIs
<1>. DEFINE a == Alloc(s, {b})
<1>. HIDE DEF b, a
<1>4. CASE t = s BY <1>4, KeptSelf
<1>5. CASE s.e.phdr = NULL /\ t = [a EXCEPT !.e.phdr = b]
    <2>1. /\ x \in Handle /\ x.phdr = b /\ x.block = s.e.block /\ x.fd = s.e.fd /\ x.elf = s.e.elf
          /\ x.file = s.e.file /\ x.shdr = s.e.shdr /\ x.zero = s.e.zero /\ x.strtab = s.e.strtab
          /\ x.sym = s.e.sym /\ x.dsym = s.e.dsym /\ x["sym"] = x.sym /\ x["dsym"] = x.dsym
        BY <1>1, <1>2 DEF Handle
    <2>2. t \in State /\ t.live = s.live \cup {b} /\ t.crashed = s.crashed /\ t.e = x
        <3>1. a \in State /\ a.live = s.live \cup {b} /\ a.e = s.e /\ a.crashed = s.crashed
            BY <1>3 DEF a
        <3>. QED BY <3>1, <1>5, <2>1 DEF State
    <2>. HIDE DEF x
    <2>3. x # NULL BY <2>1, PointerAssumption
    <2>4. Kept(s.e, x) BY <2>1, <1>5 DEF Kept
    <2>5. HandleOK(x)
        BY <2>1, <1>2, SameHeaders, SameSearch DEF HandleOK, Kinds, Listed, SymOK, Good
    <2>6. Owned(x) = Owned(s.e) \cup {b}
        BY <2>1, <2>3, <1>2, <1>5 DEF Owned, Ptr
    <2>. QED BY <2>1, <2>2, <2>3, <2>4, <2>5, <2>6, GrowGood
<1>6. CASE t = [a EXCEPT !.crashed = "header"]
    <2>1. t \in State /\ t.live = s.live \cup {b} /\ t.crashed = "header" /\ t.e = s.e
        BY <1>3, <1>6 DEF State, a
    <2>. QED BY <2>1, KeptSelf DEF Good
<1>7. \/ t = s
      \/ s.e.phdr = NULL /\ t = [a EXCEPT !.e.phdr = b]
      \/ t = [a EXCEPT !.crashed = "header"]
    BY DEF elf_load_phdr, a, b
<1>. QED BY <1>4, <1>5, <1>6, <1>7

LEMMA LoadShdr ==
    ASSUME calls \in Nat, NEW s, Good(s), s.e # NULL, NEW t \in elf_load_shdr(s)
    PROVE  /\ Good(t) /\ t.e # NULL /\ Kept(s.e, t.e) /\ t.e.file = s.e.file
           /\ t.e.strtab = s.e.strtab /\ t.e.sym = s.e.sym /\ t.e.dsym = s.e.dsym
<1>. DEFINE b == Fresh("shdr", 0)
            a == Alloc(s, {b})
            Z == [type : {"strtab", "symtab", "dynsym", "other"}, link : 0 .. Len(s.e.file.sect)]
<1>1. s \in State /\ s.e \in Handle /\ s.e.file \in Files BY DEF Good, State, Handle
<1>2. b \in Block /\ b # NULL /\ b.kind = "shdr" BY FreshIs
<1>3. a \in State /\ a.live = s.live \cup {b} /\ a.e = s.e /\ a.crashed = s.crashed
    BY <1>1, <1>2, AllocIs
<1>4. Z \subseteq Header BY <1>1, FilesAssumption DEF Header
<1>5. \/ t = s
      \/ t = [a EXCEPT !.crashed = "header"]
      \/ s.e.shdr = NULL /\ \E z \in Z : t = [a EXCEPT !.e.shdr = b, !.e.zero = z]
    BY DEF elf_load_shdr
<1>. HIDE DEF b, a
<1>6. CASE t = s BY <1>6, KeptSelf
<1>7. ASSUME s.e.shdr = NULL, NEW z \in Z, t = [a EXCEPT !.e.shdr = b, !.e.zero = z]
      PROVE  /\ Good(t) /\ t.e # NULL /\ Kept(s.e, t.e) /\ t.e.file = s.e.file
             /\ t.e.strtab = s.e.strtab /\ t.e.sym = s.e.sym /\ t.e.dsym = s.e.dsym
    <2>. DEFINE x == [s.e EXCEPT !.shdr = b, !.zero = z]
    <2>0. z \in Header BY <1>4
    <2>1. /\ x \in Handle /\ x.phdr = s.e.phdr /\ x.block = s.e.block /\ x.fd = s.e.fd
          /\ x.elf = s.e.elf /\ x.file = s.e.file /\ x.shdr = b /\ x.strtab = s.e.strtab
          /\ x.sym = s.e.sym /\ x.dsym = s.e.dsym
        BY <1>1, <1>2, <2>0 DEF Handle
    <2>2. t \in State /\ t.live = s.live \cup {b} /\ t.crashed = s.crashed /\ t.e = x
        BY <1>3, <1>7, <2>1 DEF State
    <2>. HIDE DEF x
    <2>3. x # NULL BY <2>1, PointerAssumption
    <2>4. s.e.strtab = {} /\ s.e.sym = NULL /\ s.e.dsym = NULL
        BY <1>7 DEF Good, HandleOK, Listed, SymOK
    <2>5. Kept(s.e, x) BY <2>1, <2>4, <1>7 DEF Kept
    <2>6. HandleOK(x)
        BY <2>1, <2>4, <1>2 DEF HandleOK, Kinds, Listed, SymOK, Good
    <2>7. Owned(x) = Owned(s.e) \cup {b}
        BY <2>1, <2>3, <1>2, <1>7 DEF Owned, Ptr
    <2>. QED BY <2>1, <2>2, <2>3, <2>5, <2>6, <2>7, GrowGood
<1>8. CASE t = [a EXCEPT !.crashed = "header"]
    <2>1. t \in State /\ t.live = s.live \cup {b} /\ t.crashed = "header" /\ t.e = s.e
        BY <1>3, <1>8 DEF State
    <2>. QED BY <2>1, KeptSelf DEF Good
<1>. QED BY <1>5, <1>6, <1>7, <1>8

\* The blocks of a handle in order can be read.
LEMMA CanRead ==
    ASSUME NEW s, Good(s), s.e # NULL
    PROVE  /\ Touch(s, TabPtrs(s.e.strtab)) = s
           /\ s.e.shdr # NULL => Touch(s, {s.e.shdr}) = s
BY TouchIs DEF Good, Owned, Ptr

LEMMA LoadStrtab ==
    ASSUME calls \in Nat, NEW s, Good(s), s.e # NULL, NEW u \in elf_load_strtab(s)
    PROVE  /\ Good(u) /\ u.e # NULL /\ Kept(s.e, u.e) /\ u.e.file = s.e.file
           /\ u.e.sym = s.e.sym /\ u.e.dsym = s.e.dsym
<1>1. CASE s.e.strtab # {}
    <2>1. u = s BY <1>1 DEF elf_load_strtab
    <2>. QED BY <2>1, KeptSelf
<1>2. CASE s.e.strtab = {}
    <2>. DEFINE T(t) == OfType(t.e, "strtab")
                node(i) == Fresh("tab", i)
                data(i) == Fresh("data", i)
                L(t) == {[id |-> i, node |-> node(i), data |-> data(i)] : i \in T(t)}
                B(t) == {node(i) : i \in T(t)} \cup {data(i) : i \in T(t)}
    <2>1. PICK t \in elf_load_shdr(s) :
              u \in IF t.e.shdr = NULL THEN {t}
                    ELSE {[Alloc(Touch(t, {t.e.shdr}), B(t)) EXCEPT !.e.strtab = L(t)]}
                         \cup {Touch(t, {t.e.shdr})}
                         \cup {Alloc(Touch(t, {t.e.shdr}), {node(i)}) : i \in T(t)}
                         \cup {Alloc(Touch(t, {t.e.shdr}), {node(i), data(i)}) : i \in T(t)}
        BY <1>2 DEF elf_load_strtab
    <2>2. /\ Good(t) /\ t.e # NULL /\ Kept(s.e, t.e) /\ t.e.file = s.e.file
          /\ t.e.strtab = {} /\ t.e.sym = s.e.sym /\ t.e.dsym = s.e.dsym
        BY <1>2, LoadShdr
    <2>3. t \in State /\ t.e \in Handle /\ t.e.file \in Files BY <2>2 DEF Good, State, Handle
    <2>4. T(t) \subseteq Nat BY <2>3, FilesAssumption DEF OfType
    <2>5. \A i \in T(t) : /\ node(i) \in Block /\ node(i).kind = "tab"
                          /\ data(i) \in Block /\ data(i).kind = "data"
        BY <2>4, FreshIs
    <2>6. \/ u = t
          \/ t.e.shdr # NULL /\ u = [Alloc(t, B(t)) EXCEPT !.e.strtab = L(t)]
          \/ \E i \in T(t) : u = Alloc(t, {node(i)})
          \/ \E i \in T(t) : u = Alloc(t, {node(i), data(i)})
        BY <2>1, <2>2, CanRead
    <2>7. CASE u = t BY <2>2, <2>7
    <2>8. ASSUME NEW i \in T(t), u = Alloc(t, {node(i)}) \/ u = Alloc(t, {node(i), data(i)})
          PROVE  Good(u) /\ u.e = t.e
        <3>1. {node(i)} \in SUBSET Block /\ {node(i), data(i)} \in SUBSET Block BY <2>5
        <3>2. PICK D \in SUBSET Block : u = Alloc(t, D) /\ \A b \in D : b.kind \in Leaky
            BY <2>5, <2>8, <3>1 DEF Leaky
        <3>3. u \in State /\ u.live = t.live \cup D /\ u.e = t.e /\ u.crashed = t.crashed
            BY <3>2, <2>3, AllocIs
        <3>. QED BY <3>2, <3>3, <2>2, LeakGood
    <2>9. CASE t.e.shdr # NULL /\ u = [Alloc(t, B(t)) EXCEPT !.e.strtab = L(t)]
        <3>. DEFINE x == [t.e EXCEPT !.strtab = L(t)]
                    a == Alloc(t, B(t))
        <3>1. B(t) \in SUBSET Block BY <2>5
        <3>2. L(t) \in SUBSET Tab BY <2>4, <2>5 DEF Tab
        <3>3. /\ {l.id : l \in L(t)} = T(t)
              /\ TabPtrs(L(t)) = B(t)
              /\ \A l \in L(t) : l.node.kind = "tab" /\ l.data.kind = "data"
            <4>1. \A l \in L(t) : \E i \in T(t) : l.id = i /\ l.node = node(i) /\ l.data = data(i)
                OBVIOUS
            <4>2. \A i \in T(t) : \E l \in L(t) : l.id = i /\ l.node = node(i) /\ l.data = data(i)
                <5>. TAKE i \in T(t)
                <5>. DEFINE l == [id |-> i, node |-> node(i), data |-> data(i)]
                <5>1. l \in L(t) OBVIOUS
                <5>2. l.id = i /\ l.node = node(i) /\ l.data = data(i) OBVIOUS
                <5>. HIDE DEF l, L
                <5>. QED BY <5>1, <5>2
            <4>. HIDE DEF L, T, node, data
            <4>3. {l.id : l \in L(t)} = T(t) BY <4>1, <4>2
            <4>4. TabPtrs(L(t)) = B(t) BY <4>1, <4>2 DEF TabPtrs
            <4>5. \A l \in L(t) : l.node.kind = "tab" /\ l.data.kind = "data" BY <4>1, <2>5
            <4>. QED BY <4>3, <4>4, <4>5
        <3>4. a \in State /\ a.live = t.live \cup B(t) /\ a.e = t.e /\ a.crashed = t.crashed
            BY <2>3, <3>1, AllocIs
        <3>5. u = [a EXCEPT !.e.strtab = L(t)] BY <2>9
        <3>. HIDE DEF a, B, L, T
        <3>6. /\ x \in Handle /\ x.phdr = t.e.phdr /\ x.block = t.e.block /\ x.fd = t.e.fd
              /\ x.elf = t.e.elf /\ x.file = t.e.file /\ x.shdr = t.e.shdr /\ x.zero = t.e.zero
              /\ x.strtab = L(t) /\ x.sym = t.e.sym /\ x.dsym = t.e.dsym
            BY <2>3, <3>2 DEF Handle
        <3>7. u \in State /\ u.live = t.live \cup B(t) /\ u.crashed = t.crashed /\ u.e = x
            BY <3>4, <3>5, <3>6 DEF State
        <3>. HIDE DEF x
        <3>8. x # NULL BY <3>6, PointerAssumption
        <3>9. t.e.sym = NULL /\ t.e.dsym = NULL BY <2>2 DEF Good, HandleOK, SymOK
        <3>10. Kept(t.e, x) BY <3>6, <2>2 DEF Kept
        <3>11. OfType(x, "strtab") = T(t) BY <3>6, SameHeaders DEF T
        <3>12. HandleOK(x)
            <4>1. Kinds(x) BY <2>2, <3>3, <3>6 DEF Good, HandleOK, Kinds
            <4>2. Listed(x) BY <2>9, <3>3, <3>6, <3>11 DEF Listed
            <4>. QED BY <4>1, <4>2, <3>6, <3>9 DEF HandleOK, SymOK
        <3>13. Owned(x) = Owned(t.e) \cup B(t)
            <4>1. TabPtrs(t.e.strtab) = {} BY <2>2 DEF TabPtrs
            <4>. QED BY <4>1, <3>3, <3>6, <3>8, <2>2 DEF Owned
        <3>14. Good(u) BY <2>2, <3>7, <3>8, <3>12, <3>13, GrowGood
        <3>. QED BY <3>6, <3>7, <3>8, <3>10, <3>14, <2>2, KeptTrans
    <2>. QED BY <2>2, <2>6, <2>7, <2>8, <2>9
<1>. QED BY <1>1, <1>2

\* The two symbol tables of a handle are different blocks.
LEMMA SymsApart ==
    ASSUME NEW x, SymOK(x, "sym", "symtab"), SymOK(x, "dsym", "dynsym"),
           x.sym # NULL, x.dsym # NULL
    PROVE  x.sym.block # x.dsym.block
<1>1. Shdr(x, x.sym.sect).type = "symtab" /\ Shdr(x, x.dsym.sect).type = "dynsym"
    BY DEF SymOK, First, OfType
<1>. QED BY <1>1 DEF SymOK

\* What elf_load_symtab_internal does for a field that is still NULL.
LEMMA LoadInternal ==
    ASSUME calls \in Nat, NEW s, Good(s), s.e # NULL,
           NEW f \in {"sym", "dsym"}, NEW type,
           type = IF f = "sym" THEN "symtab" ELSE "dynsym",
           s.e[f] = NULL, s.e.shdr # NULL, NEW i \in First(OfType(s.e, type)),
           NEW u \in elf_load_symtab_internal(s, f, i)
    PROVE  /\ Good(u) /\ u.e # NULL /\ Kept(s.e, u.e) /\ u.e.file = s.e.file
<1>. DEFINE b == Fresh("sym", i)
            d == Fresh("symbols", i)
            y(k) == [block |-> b, symbols |-> d, sect |-> i, strtab |-> k]
<1>1. PICK t \in elf_load_strtab(s) :
          u \in IF t.e.strtab = {} THEN {t}
                ELSE LET r == Touch(t, TabPtrs(t.e.strtab))
                     IN  {r, Free(Alloc(r, {b}), {b}), Free(Alloc(r, {b, d}), {b})}
                         \cup {[Alloc(r, {b, d}) EXCEPT !.e[f] = y(k)] : k \in Search(t.e, i)}
    BY DEF elf_load_symtab_internal
<1>2. /\ Good(t) /\ t.e # NULL /\ Kept(s.e, t.e) /\ t.e.file = s.e.file
      /\ t.e.sym = s.e.sym /\ t.e.dsym = s.e.dsym
    BY LoadStrtab
<1>3. t \in State /\ t.e \in Handle /\ t.e.file \in Files BY <1>2 DEF Good, State, Handle
<1>4. t.e.zero = s.e.zero /\ t.e[f] = NULL BY <1>2 DEF Kept
<1>5. i \in First(OfType(t.e, type)) BY <1>2, <1>4, SameHeaders
<1>6. i \in Nat /\ Shdr(t.e, i).type = type BY <1>5, <1>3, FilesAssumption DEF First, OfType
<1>7. /\ b \in Block /\ b.kind = "sym" /\ b.sect = i
      /\ d \in Block /\ d.kind = "symbols"
    BY <1>6, FreshIs
<1>8. \/ u = t
      \/ u = Free(Alloc(t, {b}), {b}) \/ u = Free(Alloc(t, {b, d}), {b})
      \/ t.e.strtab # {} /\ \E k \in Search(t.e, i) : u = [Alloc(t, {b, d}) EXCEPT !.e[f] = y(k)]
    BY <1>1, <1>2, CanRead
<1>9. b \notin Owned(t.e)
    <2>1. ASSUME t.e.sym # NULL, b = t.e.sym.block PROVE FALSE
        BY <2>1, <1>2, <1>4, <1>6, <1>7 DEF Good, HandleOK, SymOK, First, OfType
    <2>2. ASSUME t.e.dsym # NULL, b = t.e.dsym.block PROVE FALSE
        BY <2>2, <1>2, <1>4, <1>6, <1>7 DEF Good, HandleOK, SymOK, First, OfType
    <2>3. HandleOK(t.e) BY <1>2 DEF Good
    <2>4. b \notin SymOwned(t.e.sym) /\ b \notin SymOwned(t.e.dsym)
        BY <2>1, <2>2, <2>3, <1>7 DEF SymOwned, HandleOK, SymOK
    <2>5. b \notin TabPtrs(t.e.strtab)
        BY <2>3, <1>7 DEF TabPtrs, HandleOK, Kinds
    <2>. QED BY <2>3, <2>4, <2>5, <1>2, <1>7 DEF Owned, HandleOK, Kinds, Ptr
<1>. HIDE DEF b, d
<1>10. CASE u = t BY <1>2, <1>10
<1>11. ASSUME NEW D \in {{b}, {b, d}}, u = Free(Alloc(t, D), {b})
       PROVE  Good(u) /\ u.e = t.e
    <2>1. D \in SUBSET Block BY <1>7
    <2>2. /\ Alloc(t, D) \in State /\ Alloc(t, D).live = t.live \cup D
          /\ Alloc(t, D).e = t.e /\ Alloc(t, D).crashed = t.crashed
        BY <2>1, <1>3, AllocIs
    <2>3. /\ u \in State /\ u.live = (t.live \cup D) \ {b}
          /\ u.e = t.e /\ u.crashed = t.crashed
        BY <2>2, <1>11, FreeIs
    <2>. QED BY <2>3, <1>2, <1>7, <1>9 DEF Good, Leaky
<1>12. ASSUME t.e.strtab # {}, NEW k \in Search(t.e, i), u = [Alloc(t, {b, d}) EXCEPT !.e[f] = y(k)]
       PROVE  Good(u) /\ u.e # NULL /\ Kept(t.e, u.e) /\ u.e.file = t.e.file
    <2>. DEFINE a == Alloc(t, {b, d})
                x == [t.e EXCEPT ![f] = y(k)]
    <2>1. {b, d} \in SUBSET Block BY <1>7
    <2>2. a \in State /\ a.live = t.live \cup {b, d} /\ a.e = t.e /\ a.crashed = t.crashed
        BY <2>1, <1>3, AllocIs
    <2>3. u = [a EXCEPT !.e[f] = y(k)] BY <1>12
    <2>. HIDE DEF a
    <2>4. k \in Block \cup {Junk}
        <3>1. t.e.strtab \subseteq Tab BY <1>3 DEF Handle
        <3>. QED BY <3>1 DEF Search, Tab
    <2>5. /\ y(k) \in Sym /\ y(k).block = b /\ y(k).symbols = d /\ y(k).sect = i
          /\ y(k).strtab = k
        BY <2>4, <1>6, <1>7 DEF Sym
    <2>6. y(k) # NULL BY <2>5, PointerAssumption
    <2>. HIDE DEF y
    <2>7. /\ x \in Handle /\ x.phdr = t.e.phdr /\ x.block = t.e.block /\ x.fd = t.e.fd
          /\ x.elf = t.e.elf /\ x.file = t.e.file /\ x.shdr = t.e.shdr /\ x.zero = t.e.zero
          /\ x.strtab = t.e.strtab
          /\ f = "sym" => x.sym = y(k) /\ x.dsym = t.e.dsym
          /\ f = "dsym" => x.dsym = y(k) /\ x.sym = t.e.sym
        BY <1>3, <2>5 DEF Handle
    <2>8. u \in State /\ u.live = t.live \cup {b, d} /\ u.crashed = t.crashed /\ u.e = x
        BY <2>2, <2>3, <2>7 DEF State
    <2>. HIDE DEF x
    <2>9. x # NULL BY <2>7, PointerAssumption
    <2>10. Kept(t.e, x) BY <2>7, <1>4 DEF Kept
    <2>11. HandleOK(x)
        <3>1. HandleOK(t.e) BY <1>2 DEF Good
        <3>2. Kinds(x) BY <3>1, <2>7 DEF HandleOK, Kinds
        <3>3. \A v : OfType(x, v) = OfType(t.e, v) BY <2>7, SameHeaders
        <3>4. \A j : Search(x, j) = Search(t.e, j) BY <2>7, SameSearch
        <3>5. Listed(x) BY <3>1, <3>3, <2>7 DEF HandleOK, Listed
        <3>6. CASE f = "sym"
            <4>1. SymOK(x, "sym", "symtab")
                BY <3>3, <3>4, <3>6, <2>5, <2>7, <1>5, <1>7, <1>12 DEF SymOK
            <4>2. SymOK(x, "dsym", "dynsym")
                BY <3>1, <3>3, <3>4, <3>6, <2>7 DEF HandleOK, SymOK
            <4>. QED BY <4>1, <4>2, <3>2, <3>5 DEF HandleOK
        <3>7. CASE f = "dsym"
            <4>1. SymOK(x, "dsym", "dynsym")
                BY <3>3, <3>4, <3>7, <2>5, <2>7, <1>5, <1>7, <1>12 DEF SymOK
            <4>2. SymOK(x, "sym", "symtab")
                BY <3>1, <3>3, <3>4, <3>7, <2>7 DEF HandleOK, SymOK
            <4>. QED BY <4>1, <4>2, <3>2, <3>5 DEF HandleOK
        <3>. QED BY <3>6, <3>7
    <2>12. Owned(x) = Owned(t.e) \cup {b, d}
        <3>1. CASE f = "sym"
            <4>1. SymOwned(x.sym) = {b, d} BY <3>1, <2>5, <2>6, <2>7 DEF SymOwned
            <4>2. SymOwned(t.e.sym) = {} BY <3>1, <1>4 DEF SymOwned
            <4>. QED BY <4>1, <4>2, <3>1, <2>7, <2>9, <1>2 DEF Owned
        <3>2. CASE f = "dsym"
            <4>1. SymOwned(x.dsym) = {b, d} BY <3>2, <2>5, <2>6, <2>7 DEF SymOwned
            <4>2. SymOwned(t.e.dsym) = {} BY <3>2, <1>4 DEF SymOwned
            <4>. QED BY <4>1, <4>2, <3>2, <2>7, <2>9, <1>2 DEF Owned
        <3>. QED BY <3>1, <3>2
    <2>13. Good(u) BY <1>2, <2>8, <2>9, <2>11, <2>12, GrowGood
    <2>. QED BY <2>7, <2>8, <2>9, <2>10, <2>13
<1>. HIDE DEF y
<1>13. CASE u = Free(Alloc(t, {b}), {b})
    <2>1. {b} \in {{b}, {b, d}} OBVIOUS
    <2>2. Good(u) /\ u.e = t.e BY <2>1, <1>11, <1>13
    <2>. QED BY <2>2, <1>2
<1>14. CASE u = Free(Alloc(t, {b, d}), {b})
    <2>1. {b, d} \in {{b}, {b, d}} OBVIOUS
    <2>2. Good(u) /\ u.e = t.e BY <2>1, <1>11, <1>14
    <2>. QED BY <2>2, <1>2
<1>15. CASE t.e.strtab # {} /\ \E k \in Search(t.e, i) : u = [Alloc(t, {b, d}) EXCEPT !.e[f] = y(k)]
    <2>1. Good(u) /\ u.e # NULL /\ Kept(t.e, u.e) /\ u.e.file = t.e.file BY <1>12, <1>15
    <2>. QED BY <2>1, <1>2, KeptTrans
<1>. QED BY <1>8, <1>10, <1>13, <1>14, <1>15

LEMMA LoadSym ==
    ASSUME calls \in Nat, NEW s, Good(s), s.e # NULL,
           NEW f \in {"sym", "dsym"}, NEW type,
           type = IF f = "sym" THEN "symtab" ELSE "dynsym",
           NEW u \in LoadSymbols(s, f, type)
    PROVE  /\ Good(u) /\ u.e # NULL /\ Kept(s.e, u.e) /\ u.e.file = s.e.file
<1>1. CASE s.e[f] # NULL
    <2>1. u = s BY <1>1 DEF LoadSymbols
    <2>. QED BY <2>1, KeptSelf
<1>2. CASE s.e[f] = NULL
    <2>1. PICK t \in elf_load_shdr(s) :
              u \in IF t.e.shdr = NULL \/ OfType(t.e, type) = {} THEN {t}
                    ELSE UNION {elf_load_symtab_internal(Touch(t, {t.e.shdr}), f, i) :
                                   i \in First(OfType(t.e, type))}
        BY <1>2 DEF LoadSymbols
    <2>2. /\ Good(t) /\ t.e # NULL /\ Kept(s.e, t.e) /\ t.e.file = s.e.file
          /\ t.e.sym = s.e.sym /\ t.e.dsym = s.e.dsym
        BY LoadShdr
    <2>3. CASE u = t BY <2>2, <2>3
    <2>4. ASSUME t.e.shdr # NULL, NEW i \in First(OfType(t.e, type)),
                 u \in elf_load_symtab_internal(Touch(t, {t.e.shdr}), f, i)
          PROVE  /\ Good(u) /\ u.e # NULL /\ Kept(s.e, u.e) /\ u.e.file = s.e.file
        <3>1. u \in elf_load_symtab_internal(t, f, i) BY <2>2, <2>4, CanRead
        <3>2. t.e[f] = NULL BY <1>2, <2>2
        <3>3. /\ Good(u) /\ u.e # NULL /\ Kept(t.e, u.e) /\ u.e.file = t.e.file
            BY <2>2, <2>4, <3>1, <3>2, LoadInternal
        <3>. QED BY <2>2, <3>3, KeptTrans
    <2>. QED BY <2>1, <2>3, <2>4
<1>. QED BY <1>1, <1>2

-----------------------------------------------------------------------------
(* Freeing *)

\* The tables of a handle in order can be freed one after the other.
LEMMA FreeTablesGood ==
    ASSUME NEW s, Good(s), s.e # NULL
    PROVE  LET t == FreeTables(s) IN
           /\ Good(t) /\ t.e # NULL /\ Bare(t.e) /\ t.e.file = s.e.file
           /\ t.e.block = s.e.block /\ t.e.fd = s.e.fd /\ t.e.elf = s.e.elf
<1>. DEFINE B1 == SymPtr(s.e.dsym)
            B2 == SymPtr(s.e.sym)
            B3 == TabPtrs(s.e.strtab)
            B4 == Ptr(s.e.shdr)
            B5 == Ptr(s.e.phdr)
            s1 == Free(s, B1)
            s2 == Free(s1, B2)
            s3 == Free(s2, B3)
            s4 == Free(s3, B4)
            s5 == Free(s4, B5)
            t == [s5 EXCEPT !.e.dsym = NULL, !.e.sym = NULL, !.e.strtab = {},
                            !.e.shdr = NULL, !.e.phdr = NULL]
            x == [s.e EXCEPT !.dsym = NULL, !.sym = NULL, !.strtab = {},
                             !.shdr = NULL, !.phdr = NULL]
<1>1. s \in State /\ s.e \in Handle /\ HandleOK(s.e) /\ Owned(s.e) \subseteq s.live
    BY DEF Good, State
<1>2. FreeTables(s) = t BY DEF FreeTables
<1>3. \A b \in B1 : s.e.dsym # NULL /\ b = s.e.dsym.block /\ b.kind = "sym"
    BY <1>1 DEF SymPtr, HandleOK, SymOK
<1>4. \A b \in B2 : s.e.sym # NULL /\ b = s.e.sym.block /\ b.kind = "sym"
    BY <1>1 DEF SymPtr, HandleOK, SymOK
<1>5. \A b \in B3 : b.kind \in {"tab", "data"} BY <1>1 DEF TabPtrs, HandleOK, Kinds
<1>6. \A b \in B4 : b.kind = "shdr" BY <1>1 DEF Ptr, HandleOK, Kinds
<1>7. \A b \in B5 : b.kind = "phdr" BY <1>1 DEF Ptr, HandleOK, Kinds
<1>8. \A b \in B1 : b \notin B2 BY <1>1, <1>3, <1>4, SymsApart DEF HandleOK
<1>9. /\ B1 \subseteq Owned(s.e) /\ B2 \subseteq Owned(s.e) /\ B3 \subseteq Owned(s.e)
      /\ B4 \subseteq Owned(s.e) /\ B5 \subseteq Owned(s.e)
    BY DEF Owned, SymPtr, SymOwned
<1>. HIDE DEF B1, B2, B3, B4, B5
<1>10. s1 \in State /\ s1.live = s.live \ B1 /\ s1.e = s.e /\ s1.crashed = s.crashed
    BY <1>1, <1>9, FreeIs
<1>. HIDE DEF s1
<1>11. /\ s2 \in State /\ s2.live = (s.live \ B1) \ B2 /\ s2.e = s.e /\ s2.crashed = s.crashed
    <2>1. B2 \subseteq s1.live BY <1>1, <1>8, <1>9, <1>10
    <2>. QED BY <2>1, <1>10, FreeIs
<1>. HIDE DEF s2
<1>12. /\ s3 \in State /\ s3.live = ((s.live \ B1) \ B2) \ B3 /\ s3.e = s.e /\ s3.crashed = s.crashed
    <2>1. B3 \subseteq s2.live BY <1>1, <1>3, <1>4, <1>5, <1>9, <1>11
    <2>. QED BY <2>1, <1>11, FreeIs
<1>. HIDE DEF s3
<1>13. /\ s4 \in State /\ s4.live = (((s.live \ B1) \ B2) \ B3) \ B4
       /\ s4.e = s.e /\ s4.crashed = s.crashed
    <2>1. B4 \subseteq s3.live BY <1>1, <1>3, <1>4, <1>5, <1>6, <1>9, <1>12
    <2>. QED BY <2>1, <1>12, FreeIs
<1>. HIDE DEF s4
<1>14. /\ s5 \in State /\ s5.live = ((((s.live \ B1) \ B2) \ B3) \ B4) \ B5
       /\ s5.e = s.e /\ s5.crashed = s.crashed
    <2>1. B5 \subseteq s4.live BY <1>1, <1>3, <1>4, <1>5, <1>6, <1>7, <1>9, <1>13
    <2>. QED BY <2>1, <1>13, FreeIs
<1>. HIDE DEF s5
<1>15. /\ x \in Handle /\ Bare(x) /\ x.block = s.e.block /\ x.fd = s.e.fd /\ x.elf = s.e.elf
       /\ x.file = s.e.file
    BY <1>1 DEF Handle, Bare
<1>16. t \in State /\ t.live = s5.live /\ t.crashed = s.crashed /\ t.e = x
    BY <1>14, <1>15 DEF State
<1>. HIDE DEF x, t
<1>17. x # NULL BY <1>15, PointerAssumption
<1>18. HandleOK(x) BY <1>1, <1>15 DEF HandleOK, Kinds, Listed, SymOK, Bare
<1>19. Owned(x) = {s.e.block, s.e.fd, s.e.elf}
    BY <1>15, <1>17 DEF Owned, Bare, Ptr, TabPtrs, SymOwned
<1>20. Owned(x) \subseteq t.live
    <2>1. {s.e.block, s.e.fd, s.e.elf} \subseteq s.live BY <1>1 DEF Owned
    <2>2. \A b \in {s.e.block, s.e.fd, s.e.elf} : b.kind \in {"handle", "fd", "elf"}
        BY <1>1 DEF HandleOK, Kinds
    <2>. QED BY <2>1, <2>2, <1>3, <1>4, <1>5, <1>6, <1>7, <1>14, <1>16, <1>19
<1>21. t.crashed = "no" => \A b \in t.live \ Owned(x) : b.kind \in Leaky
    <2>. SUFFICES ASSUME s.crashed = "no", NEW b \in t.live, b \notin Owned(x)
                  PROVE  b.kind \in Leaky
        BY <1>16
    <2>1. b \in s.live /\ b \notin B1 \cup B2 \cup B3 \cup B4 \cup B5 BY <1>14, <1>16
    <2>2. CASE b \notin Owned(s.e) BY <2>1, <2>2 DEF Good
    <2>3. CASE b \in Owned(s.e)
        <3>1. b \in SymOwned(s.e.sym) \cup SymOwned(s.e.dsym)
            BY <2>1, <2>3, <1>19 DEF Owned, B3, B4, B5
        <3>2. b.kind = "symbols"
            BY <3>1, <2>1, <1>1 DEF SymOwned, B1, B2, SymPtr, HandleOK, SymOK
        <3>. QED BY <3>2 DEF Leaky
    <2>. QED BY <2>2, <2>3
<1>22. Good(t) BY <1>16, <1>17, <1>18, <1>20, <1>21 DEF Good
<1>. QED BY <1>2, <1>15, <1>16, <1>17, <1>22

LEMMA ClosedGood ==
    ASSUME NEW s, Good(s), s.e # NULL
    PROVE  Good(Closed(s)) /\ Closed(s).e = NULL
<1>. DEFINE t == FreeTables(s)
            B == {s.e.elf, s.e.fd, s.e.block}
            u == Free(t, B)
<1>1. /\ Good(t) /\ t.e # NULL /\ Bare(t.e)
      /\ t.e.block = s.e.block /\ t.e.fd = s.e.fd /\ t.e.elf = s.e.elf
    BY FreeTablesGood
<1>2. Closed(s) = [u EXCEPT !.e = NULL] BY DEF Closed
<1>. HIDE DEF t
<1>3. t \in State /\ B \subseteq t.live /\ Owned(t.e) = B
    BY <1>1 DEF Good, Owned, Bare, Ptr, TabPtrs, SymOwned
<1>4. u \in State /\ u.live = t.live \ B /\ u.crashed = t.crashed BY <1>3, FreeIs
<1>. HIDE DEF u
<1>5. /\ Closed(s) \in State /\ Closed(s).live = t.live \ B /\ Closed(s).e = NULL
      /\ Closed(s).crashed = t.crashed
    BY <1>2, <1>4 DEF State
<1>6. Owned(Closed(s).e) = {} BY <1>5 DEF Owned
<1>. QED BY <1>1, <1>3, <1>5, <1>6 DEF Good

-----------------------------------------------------------------------------
(* Calls *)

LEMMA LoadAllGood ==
    ASSUME calls \in Nat, NEW s, Good(s), s.e # NULL, NEW u \in elf_load_all(s)
    PROVE  Good(u) /\ u.e # NULL /\ (Kept(s.e, u.e) \/ Bare(u.e))
<1>. DEFINE A == elf_load_phdr(s)
            B == UNION {elf_load_shdr(t) : t \in {a \in A : a.e.phdr # NULL}}
            C == UNION {elf_load_strtab(t) : t \in {b \in B : b.e.shdr # NULL}}
            D == UNION {elf_load_symtab(t) : t \in {c \in C : c.e.strtab # {}}}
            E == UNION {elf_load_dsymtab(t) : t \in D}
            Ok(t) == Good(t) /\ t.e # NULL /\ Kept(s.e, t.e)
<1>0. elf_load_all(s) = E \cup {FreeTables(t) : t \in {a \in A : a.crashed = "no" /\ a.e.phdr = NULL}
                                \cup {b \in B : b.crashed = "no" /\ b.e.shdr = NULL}
                                \cup {c \in C : c.e.strtab = {}}}
                        \cup {t \in A \cup B : t.crashed # "no"}
    BY DEF elf_load_all
<1>1. \A t \in A : Ok(t) BY LoadPhdr
<1>. HIDE DEF A
<1>2. ASSUME NEW t \in B PROVE Ok(t)
    <2>1. PICK a \in A : t \in elf_load_shdr(a) OBVIOUS
    <2>2. Ok(a) BY <1>1
    <2>3. Good(t) /\ t.e # NULL /\ Kept(a.e, t.e) BY <2>1, <2>2, LoadShdr
    <2>. QED BY <2>2, <2>3, KeptTrans
<1>. HIDE DEF B
<1>3. ASSUME NEW t \in C PROVE Ok(t)
    <2>1. PICK b \in B : t \in elf_load_strtab(b) OBVIOUS
    <2>2. Ok(b) BY <1>2
    <2>3. Good(t) /\ t.e # NULL /\ Kept(b.e, t.e) BY <2>1, <2>2, LoadStrtab
    <2>. QED BY <2>2, <2>3, KeptTrans
<1>. HIDE DEF C
<1>4. ASSUME NEW t \in D PROVE Ok(t)
    <2>1. PICK c \in C : t \in LoadSymbols(c, "sym", "symtab") BY DEF elf_load_symtab
    <2>2. Ok(c) BY <1>3
    <2>3. Good(t) /\ t.e # NULL /\ Kept(c.e, t.e) BY <2>1, <2>2, LoadSym
    <2>. QED BY <2>2, <2>3, KeptTrans
<1>. HIDE DEF D
<1>5. ASSUME NEW t \in E PROVE Ok(t)
    <2>1. PICK d \in D : t \in LoadSymbols(d, "dsym", "dynsym") BY DEF elf_load_dsymtab
    <2>2. Ok(d) BY <1>4
    <2>3. Good(t) /\ t.e # NULL /\ Kept(d.e, t.e) BY <2>1, <2>2, LoadSym
    <2>. QED BY <2>2, <2>3, KeptTrans
<1>. HIDE DEF E
<1>6. u \in E \/ u \in A \cup B \/ \E t \in A \cup B \cup C : u = FreeTables(t) BY <1>0
<1>7. CASE u \in E \/ u \in A \cup B BY <1>1, <1>2, <1>5, <1>7
<1>8. ASSUME NEW t \in A \cup B \cup C, u = FreeTables(t)
      PROVE  Good(u) /\ u.e # NULL /\ Bare(u.e)
    <2>1. Ok(t) BY <1>1, <1>2, <1>3
    <2>. QED BY <2>1, <1>8, FreeTablesGood
<1>. QED BY <1>6, <1>7, <1>8

LEMMA LoadsGood ==
    ASSUME calls \in Nat, Good(Now), e # NULL, NEW u \in Loads
    PROVE  Good(u) /\ u.e # NULL /\ Kept(e, u.e)
<1>1. Now.e = e BY DEF Now
<1>2. CASE u \in elf_load_phdr(Now) BY <1>1, <1>2, LoadPhdr
<1>3. CASE u \in elf_load_shdr(Now) BY <1>1, <1>3, LoadShdr
<1>4. CASE u \in elf_load_strtab(Now) BY <1>1, <1>4, LoadStrtab
<1>5. CASE u \in elf_load_symtab(Now) BY <1>1, <1>5, LoadSym DEF elf_load_symtab
<1>6. CASE u \in elf_load_dsymtab(Now) BY <1>1, <1>6, LoadSym DEF elf_load_dsymtab
<1>. QED BY <1>2, <1>3, <1>4, <1>5, <1>6 DEF Loads

LEMMA OpenedGood ==
    ASSUME calls \in Nat, Good(Now), e = NULL, NEW f \in Files, NEW u \in Opened(f)
    PROVE  Good(u)
<1>. DEFINE fd == Fresh("fd", 0)
            elf == Fresh("elf", 0)
            h == Fresh("handle", 0)
            all == Alloc(Now, {fd, elf, h})
            x == [block |-> h, fd |-> fd, elf |-> elf, file |-> f,
                  phdr |-> NULL, shdr |-> NULL, zero |-> [type |-> "other", link |-> 0],
                  strtab |-> {}, sym |-> NULL, dsym |-> NULL]
<1>1. /\ fd \in Block /\ fd.kind = "fd" /\ elf \in Block /\ elf.kind = "elf"
      /\ h \in Block /\ h.kind = "handle"
    BY FreshIs
<1>2. Now \in State /\ Now.e = NULL /\ Now.live \subseteq Block BY DEF Good, Now, State
<1>3. \/ u = Now
      \/ \E B \in {{fd}, {fd, elf}, {fd, elf, h}} : u = Free(Alloc(Now, B), B)
      \/ u = [all EXCEPT !.crashed = "header"]
      \/ u = [all EXCEPT !.e = x]
    BY DEF Opened
<1>. HIDE DEF fd, elf, h, all
<1>4. /\ all \in State /\ all.live = Now.live \cup {fd, elf, h} /\ all.e = NULL
      /\ all.crashed = Now.crashed
    <2>1. {fd, elf, h} \in SUBSET Block BY <1>1
    <2>. QED BY <2>1, <1>2, AllocIs DEF all
<1>5. CASE u = Now BY <1>5
<1>6. ASSUME NEW B \in {{fd}, {fd, elf}, {fd, elf, h}}, u = Free(Alloc(Now, B), B)
      PROVE  Good(u)
    <2>1. B \in SUBSET Block BY <1>1
    <2>2. /\ Alloc(Now, B) \in State /\ Alloc(Now, B).live = Now.live \cup B
          /\ Alloc(Now, B).e = NULL /\ Alloc(Now, B).crashed = Now.crashed
        BY <2>1, <1>2, AllocIs
    <2>3. /\ u \in State /\ u.live = (Now.live \cup B) \ B /\ u.e = NULL
          /\ u.crashed = Now.crashed
        BY <2>2, <1>6, FreeIs
    <2>. QED BY <2>3, <1>2 DEF Good, Owned
<1>7. CASE u = [all EXCEPT !.crashed = "header"]
    <2>1. u \in State /\ u.crashed = "header" /\ u.e = NULL BY <1>4, <1>7 DEF State
    <2>. QED BY <2>1 DEF Good, Owned
<1>8. CASE u = [all EXCEPT !.e = x]
    <2>1. /\ x \in Handle /\ x.block = h /\ x.fd = fd /\ x.elf = elf /\ Bare(x)
        BY <1>1 DEF Handle, Header, Bare
    <2>2. u \in State /\ u.live = Now.live \cup {fd, elf, h} /\ u.crashed = Now.crashed /\ u.e = x
        BY <2>1, <1>4, <1>8 DEF State
    <2>. HIDE DEF x
    <2>3. x # NULL BY <2>1, PointerAssumption
    <2>4. HandleOK(x) BY <2>1, <1>1 DEF HandleOK, Kinds, Listed, SymOK, Bare
    <2>5. Owned(x) = {h, fd, elf} BY <2>1, <2>3 DEF Owned, Bare, Ptr, TabPtrs, SymOwned
    <2>. QED BY <2>2, <2>3, <2>4, <2>5, <1>2 DEF Good, Owned
<1>. QED BY <1>3, <1>5, <1>6, <1>7, <1>8

LEMMA BecomeIs ==
    ASSUME NEW s, Good(s), Become(s), calls' \in 0 .. MaxCalls, initialized' \in BOOLEAN
    PROVE  ElfInv'
<1>1. s \in State BY DEF Good
<1>2. Now' = s BY <1>1 DEF Now, Become, State
<1>3. TypeOK' BY <1>1 DEF TypeOK, Become, State
<1>4. Good(Now') BY <1>2
<1>5. Good(Now)' BY <1>4 DEF Good, Owned, HandleOK, Kinds, Listed, SymOK, OfType, Search, Shdr
<1>. QED BY <1>3, <1>5 DEF ElfInv

LEMMA StepInv ==
    ASSUME ElfInv, [Next]_vars
    PROVE  ElfInv' /\ (e # NULL /\ e' # NULL => Kept(e, e') \/ (LoadAll /\ Bare(e')))
<1>1. Good(Now) /\ calls \in 0 .. MaxCalls /\ initialized \in BOOLEAN BY DEF ElfInv, TypeOK
<1>2. MaxCalls \in Nat /\ calls \in Nat BY <1>1, FilesAssumption
<1>3. ASSUME Calling PROVE calls' \in 0 .. MaxCalls BY <1>2, <1>3 DEF Calling
<1>4. CASE elf_init
    <2>1. Become(Now) BY <1>4 DEF elf_init, Become, Now
    <2>2. calls' = calls /\ initialized' \in BOOLEAN /\ e' = e BY <1>4 DEF elf_init
    <2>. QED BY <2>1, <2>2, <1>1, BecomeIs, KeptSelf
<1>5. CASE elf_open
    <2>1. PICK f \in Files : \E s \in Opened(f) : Become(s) BY <1>5 DEF elf_open
    <2>2. PICK s \in Opened(f) : Become(s) BY <2>1
    <2>3. e = NULL /\ initialized' \in BOOLEAN /\ calls' \in 0 .. MaxCalls
        BY <1>1, <1>3, <1>5 DEF elf_open
    <2>4. Good(s) BY <2>3, <1>1, <1>2, OpenedGood
    <2>. QED BY <2>2, <2>3, <2>4, BecomeIs
<1>6. CASE elf_close
    <2>1. initialized' \in BOOLEAN /\ calls' \in 0 .. MaxCalls BY <1>1, <1>3, <1>6 DEF elf_close
    <2>2. CASE e = NULL
        <3>1. Become(Now) BY <2>2, <1>6 DEF elf_close
        <3>. QED BY <3>1, <2>1, <2>2, <1>1, BecomeIs
    <2>3. CASE e # NULL
        <3>1. Become(Closed(Now)) BY <2>3, <1>6 DEF elf_close
        <3>2. Now.e # NULL BY <2>3 DEF Now
        <3>3. Good(Closed(Now)) /\ Closed(Now).e = NULL BY <3>2, <1>1, ClosedGood
        <3>4. e' = NULL BY <3>1, <3>3 DEF Become
        <3>. QED BY <3>1, <3>3, <3>4, <2>1, BecomeIs
    <2>. QED BY <2>2, <2>3
<1>7. CASE LoadOne
    <2>1. PICK s \in Loads : Become(s) BY <1>7 DEF LoadOne
    <2>2. e # NULL /\ initialized' \in BOOLEAN /\ calls' \in 0 .. MaxCalls
        BY <1>1, <1>3, <1>7 DEF LoadOne
    <2>3. Good(s) /\ Kept(e, s.e) BY <2>2, <1>1, <1>2, LoadsGood
    <2>4. e' = s.e BY <2>1 DEF Become
    <2>. QED BY <2>1, <2>2, <2>3, <2>4, BecomeIs
<1>8. CASE LoadAll
    <2>1. PICK s \in elf_load_all(Now) : Become(s) BY <1>8 DEF LoadAll
    <2>2. e # NULL /\ initialized' \in BOOLEAN /\ calls' \in 0 .. MaxCalls
        BY <1>1, <1>3, <1>8 DEF LoadAll
    <2>3. Now.e = e BY DEF Now
    <2>4. Good(s) /\ (Kept(e, s.e) \/ Bare(s.e)) BY <2>2, <2>3, <1>1, <1>2, LoadAllGood
    <2>5. e' = s.e BY <2>1 DEF Become
    <2>. QED BY <1>8, <2>1, <2>2, <2>4, <2>5, BecomeIs
<1>9. CASE UNCHANGED vars
    <2>1. Become(Now) BY <1>9 DEF vars, Become, Now
    <2>2. calls' = calls /\ initialized' = initialized /\ e' = e BY <1>9 DEF vars
    <2>. QED BY <2>1, <2>2, <1>1, BecomeIs, KeptSelf
<1>. QED BY <1>4, <1>5, <1>6, <1>7, <1>8, <1>9 DEF Next

LEMMA InitInv ==
    ASSUME Init
    PROVE  ElfInv
<1>1. /\ Now \in State /\ Now.crashed = "no" /\ Now.live = {} /\ Now.e = NULL
      /\ Owned(Now.e) = {}
    BY DEF Init, Now, State, Owned
<1>2. Good(Now) BY <1>1 DEF Good
<1>3. TypeOK
    <2>1. calls \in 0 .. MaxCalls BY FilesAssumption DEF Init
    <2>2. live \subseteq Block /\ initialized \in BOOLEAN /\ crashed \in {"no", "header", "memory"}
        BY DEF Init
    <2>3. e \in Handle \cup {NULL} BY DEF Init
    <2>. QED BY <2>1, <2>2, <2>3 DEF TypeOK
<1>. QED BY <1>2, <1>3 DEF ElfInv

-----------------------------------------------------------------------------
(* Theorems *)

\* Whatever is called, and whatever fails, the handle is in order after each call.
THEOREM ElfInvariant == Spec => []ElfInv
<1>1. Init => ElfInv BY InitInv
<1>2. ElfInv /\ [Next]_vars => ElfInv' BY StepInv
<1>. QED BY <1>1, <1>2, PTL DEF Spec

\* No call frees or reads a block that is not held, for any file and any number of calls.
THEOREM NeverMemory == Spec => []MemorySafe
<1>1. ElfInv => MemorySafe BY DEF ElfInv, Good, Now, MemorySafe
<1>. QED BY <1>1, ElfInvariant, PTL

\* Only symbols, and string tables in hand when loading fails, are ever leaked.
THEOREM LeaksKnown == Spec => []OnlyTablesLeak
<1>1. ElfInv => OnlyTablesLeak BY DEF ElfInv, Good, Now, OnlyTablesLeak
<1>. QED BY <1>1, ElfInvariant, PTL

\* A loaded symbol table satisfies what the search was for.
LEMMA RightIs ==
    ASSUME ElfInv, e # NULL, e.zero.type = "other",
           NEW f \in {"sym", "dsym"}, NEW type \in {"symtab", "dynsym"},
           SymOK(e, f, type), e[f] # NULL
    PROVE  RightSymbols(e, f, type)
<1>. DEFINE S == e.file.sect
            i == e[f].sect
<1>1. e \in Handle /\ e.file \in Files /\ Listed(e) /\ Owned(e) \subseteq live
    BY DEF ElfInv, TypeOK, Good, Now, HandleOK, Handle
<1>2. Len(S) \in Nat BY <1>1, FilesAssumption
<1>3. i \in First(OfType(e, type)) /\ e[f].strtab \in Search(e, i) /\ e.strtab # {} BY DEF SymOK
<1>4. i \in 0 .. Len(S) /\ Shdr(e, i).type = type /\ \A j \in OfType(e, type) : i <= j
    BY <1>3 DEF First, OfType
<1>5. i # 0 BY <1>4 DEF Shdr
<1>6. i \in 1 .. Len(S) /\ S[i].type = type BY <1>2, <1>4, <1>5 DEF Shdr
<1>7. ASSUME NEW j \in 1 .. i - 1 PROVE S[j].type # type
    <2>1. j \in 0 .. Len(S) /\ j # 0 /\ ~(i <= j) BY <1>2, <1>6
    <2>2. j \notin OfType(e, type) BY <2>1, <1>4
    <2>. QED BY <2>1, <2>2 DEF OfType, Shdr
<1>8. ASSUME S[i].link \in 1 .. Len(S), S[S[i].link].type = "strtab"
      PROVE  \E t \in e.strtab : /\ t.id = S[i].link /\ e[f].strtab = t.node
                                 /\ {t.node, t.data} \subseteq live
    <2>1. Shdr(e, i).link = S[i].link BY <1>5 DEF Shdr
    <2>2. S[i].link \in OfType(e, "strtab") BY <1>2, <1>8 DEF OfType, Shdr
    <2>3. \E t \in e.strtab : t.id = S[i].link BY <2>2, <1>1, <1>3 DEF Listed
    <2>4. PICK t \in e.strtab : t.id = S[i].link /\ e[f].strtab = t.node
        BY <2>1, <2>3, <1>3 DEF Search
    <2>5. {t.node, t.data} \subseteq live BY <2>4, <1>1 DEF Owned, TabPtrs
    <2>. QED BY <2>4, <2>5
<1>. QED BY <1>6, <1>7, <1>8 DEF RightSymbols

\* Symbols and their names are the file's, as long as entry 0 does not look like a table.
THEOREM SymbolsFound == Spec => []SymbolsRight
<1>1. ASSUME ElfInv PROVE SymbolsRight
    <2>. SUFFICES ASSUME e # NULL, e.zero.type = "other"
                  PROVE  /\ e.sym # NULL => RightSymbols(e, "sym", "symtab")
                         /\ e.dsym # NULL => RightSymbols(e, "dsym", "dynsym")
        BY DEF SymbolsRight
    <2>1. SymOK(e, "sym", "symtab") /\ SymOK(e, "dsym", "dynsym")
        BY <1>1 DEF ElfInv, Good, Now, HandleOK
    <2>. QED BY <2>1, <1>1, RightIs
<1>. QED BY <1>1, ElfInvariant, PTL

\* The pointers the client has been given stay valid until elf_close, or a failing
\* elf_load_all, takes all of them.
THEOREM PointersKept == Spec => KeptOrDropped
<1>1. ElfInv /\ [Next]_vars => [e # NULL /\ e' # NULL => Kept(e, e') \/ (LoadAll /\ Bare(e'))]_vars
    BY StepInv
<1>. QED BY <1>1, ElfInvariant, PTL DEF Spec, KeptOrDropped
=============================================================================
