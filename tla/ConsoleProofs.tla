---------------------------- MODULE ConsoleProofs ----------------------------
(***************************************************************************)
(* The console, for every size of the screen, every text kmain prints and  *)
(* every text a key echoes, wherever the echoes fall into kmain's kputch.  *)
(***************************************************************************)
EXTENDS Scrn, SequenceTheorems, WellFoundedInduction, TLAPS

Ops == {"where", "put", "loadx", "storex", "margin", "loady", "storey", "edge",
        "full", "temp", "copy", "blank", "last", "select_high", "high",
        "select_low", "low", "back"}
Memories == [x : Nat, y : Nat, cell : [Cells -> Printable], index : {14, 15},
             high : 0..(Byte - 1), low : 0..(Byte - 1)]
Programs == [c : Printable \cup Controls, code : Seq(Ops), reg : Nat]

-----------------------------------------------------------------------------
(* What may be left of a kputch                                            *)

Then(op, code) == <<op>> \o code

\* move_csr
Csr1 == Then("low", <<>>)
Csr2 == Then("select_low", Csr1)
Csr3 == Then("high", Csr2)
Csr4 == Then("select_high", Csr3)
Csr5 == Then("where", Csr4)
\* kscroll
Scroll1 == Then("last", Csr5)
Scroll2 == Then("blank", Scroll1)
Scroll3 == Then("copy", Scroll2)
Scroll4 == Then("temp", Scroll3)
AtFull == Then("full", Csr5)
\* csr_x was at the edge
Wrap1 == Then("storey", AtFull)
Wrap2 == Then("loady", Wrap1)
Wrap3 == Then("margin", Wrap2)
AtEdge == Then("edge", AtFull)
\* the kinds of characters
Line1 == Then("storey", AtEdge)
Line2 == Then("loady", Line1)
Line3 == Then("margin", Line2)
Home == Then("margin", AtEdge)
Char1 == Then("storex", AtEdge)
Char2 == Then("loadx", Char1)
Char3 == Then("put", Char2)
Char4 == Then("where", Char3)
Back == Then("back", AtEdge)

\* code is op and rest.
Begins(code, op, rest) == /\ op \in Ops /\ rest \in Seq(Ops) /\ code \in Seq(Ops)
                          /\ Len(code) = Len(rest) + 1 /\ code # <<>>
                          /\ Head(code) = op /\ Tail(code) = rest
                          /\ code[1] = op
                          /\ \A i \in 1..Len(rest) : code[i + 1] = rest[i]

LEMMA ThenBegins ==
    ASSUME NEW op \in Ops, NEW rest \in Seq(Ops), NEW code, code = Then(op, rest)
    PROVE  Begins(code, op, rest)
<1>1. /\ code \in Seq(Ops) /\ Len(code) = Len(rest) + 1 /\ code[1] = op
      /\ \A i \in 1..Len(rest) : code[i + 1] = rest[i]
  BY DEF Then
<1>2. Len(rest) \in Nat
  OBVIOUS
<1>3. code # <<>>
  BY <1>1, <1>2
<1>4. Head(code) = op
  BY <1>1, <1>3
<1>5. Tail(code) = rest
  <2>1. /\ Tail(code) \in Seq(Ops) /\ Len(Tail(code)) = Len(rest)
        /\ \A i \in 1..Len(rest) : Tail(code)[i] = code[i + 1]
    BY <1>1, <1>2, <1>3, HeadTailProperties
  <2>. QED BY <1>1, <2>1
<1>. QED BY <1>1, <1>3, <1>4, <1>5 DEF Begins

Shapes == {<<>>, Csr1, Csr2, Csr3, Csr4, Csr5, Scroll1, Scroll2, Scroll3, Scroll4,
           AtFull, Wrap1, Wrap2, Wrap3, AtEdge, Line1, Line2, Line3, Home,
           Char1, Char2, Char3, Char4, Back}

LEMMA Chains ==
    /\ Begins(Csr1, "low", <<>>) /\ Begins(Csr2, "select_low", Csr1)
    /\ Begins(Csr3, "high", Csr2) /\ Begins(Csr4, "select_high", Csr3)
    /\ Begins(Csr5, "where", Csr4)
    /\ Begins(Scroll1, "last", Csr5) /\ Begins(Scroll2, "blank", Scroll1)
    /\ Begins(Scroll3, "copy", Scroll2) /\ Begins(Scroll4, "temp", Scroll3)
    /\ Begins(AtFull, "full", Csr5)
    /\ Begins(Wrap1, "storey", AtFull) /\ Begins(Wrap2, "loady", Wrap1)
    /\ Begins(Wrap3, "margin", Wrap2)
    /\ Begins(AtEdge, "edge", AtFull)
    /\ Begins(Line1, "storey", AtEdge) /\ Begins(Line2, "loady", Line1)
    /\ Begins(Line3, "margin", Line2) /\ Begins(Home, "margin", AtEdge)
    /\ Begins(Char1, "storex", AtEdge) /\ Begins(Char2, "loadx", Char1)
    /\ Begins(Char3, "put", Char2) /\ Begins(Char4, "where", Char3)
    /\ Begins(Back, "back", AtEdge)
<1>0. <<>> \in Seq(Ops) /\ \A c, op, r : Begins(c, op, r) => c \in Seq(Ops)
  BY DEF Begins
<1>1. Begins(Csr1, "low", <<>>)
  <2>1. "low" \in Ops /\ <<>> \in Seq(Ops)
    BY <1>0 DEF Ops
  <2>. QED BY <2>1, ThenBegins DEF Csr1
<1>2. Begins(Csr2, "select_low", Csr1)
  <2>1. "select_low" \in Ops /\ Csr1 \in Seq(Ops)
    BY <1>0, <1>1 DEF Ops
  <2>. QED BY <2>1, ThenBegins DEF Csr2
<1>3. Begins(Csr3, "high", Csr2)
  <2>1. "high" \in Ops /\ Csr2 \in Seq(Ops)
    BY <1>0, <1>2 DEF Ops
  <2>. QED BY <2>1, ThenBegins DEF Csr3
<1>4. Begins(Csr4, "select_high", Csr3)
  <2>1. "select_high" \in Ops /\ Csr3 \in Seq(Ops)
    BY <1>0, <1>3 DEF Ops
  <2>. QED BY <2>1, ThenBegins DEF Csr4
<1>5. Begins(Csr5, "where", Csr4)
  <2>1. "where" \in Ops /\ Csr4 \in Seq(Ops)
    BY <1>0, <1>4 DEF Ops
  <2>. QED BY <2>1, ThenBegins DEF Csr5
<1>6. Begins(Scroll1, "last", Csr5)
  <2>1. "last" \in Ops /\ Csr5 \in Seq(Ops)
    BY <1>0, <1>5 DEF Ops
  <2>. QED BY <2>1, ThenBegins DEF Scroll1
<1>7. Begins(Scroll2, "blank", Scroll1)
  <2>1. "blank" \in Ops /\ Scroll1 \in Seq(Ops)
    BY <1>0, <1>6 DEF Ops
  <2>. QED BY <2>1, ThenBegins DEF Scroll2
<1>8. Begins(Scroll3, "copy", Scroll2)
  <2>1. "copy" \in Ops /\ Scroll2 \in Seq(Ops)
    BY <1>0, <1>7 DEF Ops
  <2>. QED BY <2>1, ThenBegins DEF Scroll3
<1>9. Begins(Scroll4, "temp", Scroll3)
  <2>1. "temp" \in Ops /\ Scroll3 \in Seq(Ops)
    BY <1>0, <1>8 DEF Ops
  <2>. QED BY <2>1, ThenBegins DEF Scroll4
<1>10. Begins(AtFull, "full", Csr5)
  <2>1. "full" \in Ops /\ Csr5 \in Seq(Ops)
    BY <1>0, <1>5 DEF Ops
  <2>. QED BY <2>1, ThenBegins DEF AtFull
<1>11. Begins(Wrap1, "storey", AtFull)
  <2>1. "storey" \in Ops /\ AtFull \in Seq(Ops)
    BY <1>0, <1>10 DEF Ops
  <2>. QED BY <2>1, ThenBegins DEF Wrap1
<1>12. Begins(Wrap2, "loady", Wrap1)
  <2>1. "loady" \in Ops /\ Wrap1 \in Seq(Ops)
    BY <1>0, <1>11 DEF Ops
  <2>. QED BY <2>1, ThenBegins DEF Wrap2
<1>13. Begins(Wrap3, "margin", Wrap2)
  <2>1. "margin" \in Ops /\ Wrap2 \in Seq(Ops)
    BY <1>0, <1>12 DEF Ops
  <2>. QED BY <2>1, ThenBegins DEF Wrap3
<1>14. Begins(AtEdge, "edge", AtFull)
  <2>1. "edge" \in Ops /\ AtFull \in Seq(Ops)
    BY <1>0, <1>10 DEF Ops
  <2>. QED BY <2>1, ThenBegins DEF AtEdge
<1>15. Begins(Line1, "storey", AtEdge)
  <2>1. "storey" \in Ops /\ AtEdge \in Seq(Ops)
    BY <1>0, <1>14 DEF Ops
  <2>. QED BY <2>1, ThenBegins DEF Line1
<1>16. Begins(Line2, "loady", Line1)
  <2>1. "loady" \in Ops /\ Line1 \in Seq(Ops)
    BY <1>0, <1>15 DEF Ops
  <2>. QED BY <2>1, ThenBegins DEF Line2
<1>17. Begins(Line3, "margin", Line2)
  <2>1. "margin" \in Ops /\ Line2 \in Seq(Ops)
    BY <1>0, <1>16 DEF Ops
  <2>. QED BY <2>1, ThenBegins DEF Line3
<1>18. Begins(Home, "margin", AtEdge)
  <2>1. "margin" \in Ops /\ AtEdge \in Seq(Ops)
    BY <1>0, <1>14 DEF Ops
  <2>. QED BY <2>1, ThenBegins DEF Home
<1>19. Begins(Char1, "storex", AtEdge)
  <2>1. "storex" \in Ops /\ AtEdge \in Seq(Ops)
    BY <1>0, <1>14 DEF Ops
  <2>. QED BY <2>1, ThenBegins DEF Char1
<1>20. Begins(Char2, "loadx", Char1)
  <2>1. "loadx" \in Ops /\ Char1 \in Seq(Ops)
    BY <1>0, <1>19 DEF Ops
  <2>. QED BY <2>1, ThenBegins DEF Char2
<1>21. Begins(Char3, "put", Char2)
  <2>1. "put" \in Ops /\ Char2 \in Seq(Ops)
    BY <1>0, <1>20 DEF Ops
  <2>. QED BY <2>1, ThenBegins DEF Char3
<1>22. Begins(Char4, "where", Char3)
  <2>1. "where" \in Ops /\ Char3 \in Seq(Ops)
    BY <1>0, <1>21 DEF Ops
  <2>. QED BY <2>1, ThenBegins DEF Char4
<1>23. Begins(Back, "back", AtEdge)
  <2>1. "back" \in Ops /\ AtEdge \in Seq(Ops)
    BY <1>0, <1>14 DEF Ops
  <2>. QED BY <2>1, ThenBegins DEF Back
<1>. QED BY <1>1, <1>2, <1>3, <1>4, <1>5, <1>6, <1>7, <1>8, <1>9, <1>10, <1>11, <1>12,
            <1>13, <1>14, <1>15, <1>16, <1>17, <1>18, <1>19, <1>20, <1>21, <1>22, <1>23

Size(code) == Len(code)

LEMMA ShapesAre ==
    /\ Shapes \subseteq Seq(Ops)
    /\ \A s \in Shapes : Size(s) \in 0..11 /\ (Size(s) = 0 => s = <<>>)
                          /\ (Size(s) = 5 => s = Csr5)
    /\ Size(Csr1) = 1 /\ Size(Csr2) = 2 /\ Size(Csr3) = 3 /\ Size(Csr4) = 4
    /\ Size(Csr5) = 5 /\ Size(<<>>) = 0
    /\ \A s \in Shapes \ {<<>>, Csr1, Csr2, Csr3, Csr4, Csr5} : Size(s) \in 6..11
    /\ \A s \in {AtFull, Scroll1, Scroll2, Scroll3, Scroll4, Wrap1, Wrap2, Wrap3, AtEdge,
               Line1, Line2, Line3, Home, Char1, Char2, Char3, Char4, Back} : Size(s) \in 6..11
<1>1. \A c, op, r : Begins(c, op, r) => Size(c) = Size(r) + 1
  BY DEF Begins, Size
<1>2. Size(<<>>) = 0
  BY DEF Size
<1>3. /\ Size(Csr1) = 1 /\ Size(Csr2) = 2 /\ Size(Csr3) = 3 /\ Size(Csr4) = 4
      /\ Size(Csr5) = 5
  BY <1>1, <1>2, Chains
<1>4. /\ Size(Scroll1) = 6 /\ Size(Scroll2) = 7 /\ Size(Scroll3) = 8 /\ Size(Scroll4) = 9
      /\ Size(AtFull) = 6 /\ Size(AtEdge) = 7
  BY <1>1, <1>3, Chains
<1>5. /\ Size(Wrap1) = 7 /\ Size(Wrap2) = 8 /\ Size(Wrap3) = 9
      /\ Size(Line1) = 8 /\ Size(Line2) = 9 /\ Size(Line3) = 10 /\ Size(Home) = 8
      /\ Size(Back) = 8
      /\ Size(Char1) = 8 /\ Size(Char2) = 9 /\ Size(Char3) = 10 /\ Size(Char4) = 11
  BY <1>1, <1>4, Chains
<1>6. Shapes \subseteq Seq(Ops)
  <2>1. <<>> \in Seq(Ops) /\ \A c, op, r : Begins(c, op, r) => c \in Seq(Ops)
    BY DEF Begins
  <2>. QED BY <2>1, Chains DEF Shapes
<1>7. \A s \in Shapes : Size(s) \in 0..11 /\ (Size(s) = 0 => s = <<>>)
                        /\ (Size(s) = 5 => s = Csr5)
  BY <1>2, <1>3, <1>4, <1>5 DEF Shapes
<1>8. \A s \in {AtFull, Scroll1, Scroll2, Scroll3, Scroll4, Wrap1, Wrap2, Wrap3, AtEdge,
               Line1, Line2, Line3, Home, Char1, Char2, Char3, Char4, Back} : Size(s) \in 6..11
  BY <1>4, <1>5
<1>. QED BY <1>2, <1>3, <1>6, <1>7, <1>8 DEF Shapes

\* kputch and kscroll are these shapes.
LEMMA Programmed ==
    /\ move_csr = Csr5
    /\ \A c \in Printable : kputch(c) = Char4
    /\ kputch("back") = Back /\ kputch("tab") = Char2 /\ kputch("cr") = Home
    /\ kputch("nl") = Line3
    /\ kscroll \o Csr5 = Scroll4
    /\ <<"margin", "loady", "storey">> \o AtFull = Wrap3
    /\ <<"loadx", "storex">> \o AtEdge = Char2
    /\ \A s \in Shapes : <<>> \o s = s
<1>1. /\ "back" \notin Printable /\ "tab" \notin Printable /\ "cr" \notin Printable
      /\ "nl" \notin Printable
  BY ConsoleAssumption DEF ConsoleAssumption, Controls
<1>2. Csr5 = move_csr
  <2>1. /\ Csr1[1] = "low" /\ Csr2[1] = "select_low" /\ Csr3[1] = "high"
        /\ Csr4[1] = "select_high" /\ Csr5[1] = "where" /\ Csr5 \in Seq(Ops)
    BY Chains DEF Begins
  <2>2. \A c, op, r : Begins(c, op, r) => \A i \in 1..Size(r) : c[i + 1] = r[i]
    BY DEF Begins, Size
  <2>3. /\ Size(Csr1) = 1 /\ Size(Csr2) = 2 /\ Size(Csr3) = 3 /\ Size(Csr4) = 4
    BY ShapesAre
  <2>s. Len(Csr5) = 5
    BY ShapesAre DEF Size
  <2>4. Csr2[1 + 1] = Csr1[1]
    BY Chains, <2>2, <2>3
  <2>5. Csr3[1 + 1] = Csr2[1] /\ Csr3[2 + 1] = Csr2[2]
    BY Chains, <2>2, <2>3
  <2>6. Csr4[1 + 1] = Csr3[1] /\ Csr4[2 + 1] = Csr3[2] /\ Csr4[3 + 1] = Csr3[3]
    BY Chains, <2>2, <2>3
  <2>7. /\ Csr5[1 + 1] = Csr4[1] /\ Csr5[2 + 1] = Csr4[2] /\ Csr5[3 + 1] = Csr4[3]
        /\ Csr5[4 + 1] = Csr4[4]
    BY Chains, <2>2, <2>3
  <2>8. /\ Csr5[2] = "select_high" /\ Csr5[3] = "high" /\ Csr5[4] = "select_low"
        /\ Csr5[5] = "low"
    BY <2>1, <2>4, <2>5, <2>6, <2>7
  <2>9. /\ move_csr \in Seq(Ops) /\ Len(move_csr) = 5
        /\ move_csr[1] = "where" /\ move_csr[2] = "select_high" /\ move_csr[3] = "high"
        /\ move_csr[4] = "select_low" /\ move_csr[5] = "low"
    BY DEF move_csr, Ops
  <2>. QED BY <2>1, <2>s, <2>8, <2>9
<1>3. AtEdge = <<"edge", "full">> \o move_csr
  BY <1>2 DEF AtEdge, AtFull, Then
<1>4. /\ AtEdge \in Seq(Ops) /\ AtFull \in Seq(Ops) /\ Csr5 \in Seq(Ops)
      /\ \A s \in Shapes : <<>> \o s = s
  BY ShapesAre DEF Shapes
<1>5. \A c : kputch(c) = Own(c) \o AtEdge
  <2>1. \A c : Own(c) \in Seq(Ops)
    <3>1. /\ <<"where", "put", "loadx", "storex">> \in Seq(Ops) /\ <<"back">> \in Seq(Ops)
          /\ <<"loadx", "storex">> \in Seq(Ops) /\ <<"margin">> \in Seq(Ops)
          /\ <<"margin", "loady", "storey">> \in Seq(Ops) /\ <<>> \in Seq(Ops)
      BY DEF Ops
    <3>. QED BY <3>1 DEF Own
  <2>2. <<"edge", "full">> \in Seq(Ops) /\ move_csr \in Seq(Ops)
    BY DEF Ops, move_csr
  <2>3. \A a, b, d \in Seq(Ops) : (a \o b) \o d = a \o (b \o d)
    BY ConcatAssociative
  <2>. QED BY <1>3, <2>1, <2>2, <2>3 DEF kputch
<1>. HIDE DEF move_csr
<1>6. \A s \in Seq(Ops) : /\ <<"where", "put", "loadx", "storex">> \o s
                             = Then("where", Then("put", Then("loadx", Then("storex", s))))
                          /\ <<"loadx", "storex">> \o s = Then("loadx", Then("storex", s))
                          /\ <<"margin", "loady", "storey">> \o s
                             = Then("margin", Then("loady", Then("storey", s)))
                          /\ <<"temp", "copy", "blank", "last">> \o s
                             = Then("temp", Then("copy", Then("blank", Then("last", s))))
  BY SMTT(30) DEF Then, Ops
<1>7. \A c \in Printable : kputch(c) = Char4
  BY <1>1, <1>4, <1>5, <1>6 DEF Own, Char4, Char3, Char2, Char1
<1>8. kputch("tab") = Char2
  <2>1. Own("tab") = <<"loadx", "storex">>
    BY <1>1 DEF Own
  <2>. QED BY <1>4, <1>5, <1>6, <2>1 DEF Char2, Char1
<1>9. kputch("back") = Back
  <2>1. Own("back") = <<"back">>
    BY <1>1 DEF Own
  <2>. QED BY <1>5, <2>1 DEF Back, Then
<1>10. kputch("cr") = Home
  <2>1. Own("cr") = <<"margin">>
    BY <1>1 DEF Own
  <2>. QED BY <1>5, <2>1 DEF Home, Then
<1>11. kputch("nl") = Line3
  <2>1. Own("nl") = <<"margin", "loady", "storey">>
    BY <1>1 DEF Own
  <2>. QED BY <1>4, <1>5, <1>6, <2>1 DEF Line3, Line2, Line1
<1>. QED BY <1>2, <1>4, <1>6, <1>7, <1>8, <1>9, <1>10, <1>11
         DEF kscroll, Scroll4, Scroll3, Scroll2, Scroll1, Wrap3, Wrap2, Wrap1, Char2, Char1
-----------------------------------------------------------------------------
(* Rows, columns, registers *)

LEMMA Sizes ==
    /\ W \in Nat \ {0} /\ H \in Nat \ {0} /\ H > 1 /\ TabStop \in Nat \ {0}
    /\ Byte \in Nat \ {0} /\ W % TabStop = 0 /\ H * W <= Byte * Byte
    /\ W < Word /\ H < Word
BY ConsoleAssumption DEF ConsoleAssumption, Word

LEMMA Monotone == \A a, b, c \in Nat : a <= b => a * c <= b * c
OBVIOUS

LEMMA RowsApart ==
    ASSUME NEW a \in Int, NEW n \in Nat
    PROVE  /\ (a + 1) * n = a * n + n /\ (a + 2) * n = a * n + n + n
           /\ (a - 1) * n = a * n - n /\ (a - 2) * n = a * n - n - n
           /\ 0 * n = 0 /\ 1 * n = n /\ 2 * n = n + n
OBVIOUS

Place(m) == m.y * W + m.x

\* The place of a column beside the screen, of a row below it.
LEMMA PlaceInCells ==
    ASSUME NEW x \in Nat, NEW y \in Nat, x <= W, y <= H
    PROVE  /\ y * W + x \in Cells /\ y * W + x \in Nat
           /\ x < W /\ y < H => y * W + x < H * W
<1>1. y * W <= H * W /\ y * W \in Nat /\ H * W \in Nat
  BY Sizes, Monotone
<1>2. (H + 2) * W = H * W + W + W
  BY Sizes, RowsApart
<1>3. y * W + x \in Cells /\ y * W + x \in Nat
  BY <1>1, <1>2, Sizes DEF Cells
<1>4. ASSUME x < W, y < H PROVE y * W + x < H * W
  <2>1. y + 1 <= H /\ y + 1 \in Nat
    BY <1>4, Sizes
  <2>2. (y + 1) * W <= H * W
    BY <2>1, Sizes, Monotone
  <2>3. (y + 1) * W = y * W + W
    BY Sizes, RowsApart
  <2>. QED BY <1>1, <1>4, <2>2, <2>3, Sizes
<1>. QED BY <1>3, <1>4

\* What kmemcpyb reads is in the text memory.
LEMMA CopyInCells ==
    ASSUME NEW t \in 0..2, NEW i \in Cells, i < (H - t) * W
    PROVE  i + t * W \in Cells
<1>1. /\ (H + 2) * W = H * W + W + W /\ (H - 1) * W = H * W - W
      /\ (H - 2) * W = H * W - W - W /\ (H - 0) * W = H * W
      /\ 0 * W = 0 /\ 1 * W = W /\ 2 * W = W + W
  BY Sizes, RowsApart
<1>2. H * W \in Nat /\ W \in Nat /\ i \in Int
  BY Sizes DEF Cells
<1>3. t \in {0, 1, 2}
  OBVIOUS
<1>4. i + t * W < H * W /\ 0 <= i + t * W /\ i + t * W \in Int
  <2>1. CASE t = 0
    BY <1>1, <1>2, <2>1 DEF Cells
  <2>2. CASE t = 1
    BY <1>1, <1>2, <2>2 DEF Cells
  <2>3. CASE t = 2
    BY <1>1, <1>2, <2>3 DEF Cells
  <2>. QED BY <1>3, <2>1, <2>2, <2>3
<1>. QED BY <1>1, <1>2, <1>4 DEF Cells

LEMMA DivMod ==
    \A v \in Nat, n \in Nat \ {0} :
        /\ v \div n \in Nat /\ v % n \in 0..(n - 1)
        /\ v = (v \div n) * n + (v % n)
OBVIOUS

\* A place of the screen in two registers.
LEMMA InRegisters ==
    ASSUME NEW v \in Nat, v < H * W
    PROVE  /\ v \div Byte \in 0..(Byte - 1) /\ v % Byte \in 0..(Byte - 1)
           /\ (v \div Byte) * Byte + (v % Byte) = v
<1>1. /\ v \div Byte \in Nat /\ v % Byte \in 0..(Byte - 1)
      /\ v = (v \div Byte) * Byte + (v % Byte)
  <2>1. Byte \in Nat \ {0}
    BY Sizes
  <2>2. \A n \in Nat \ {0} : /\ v \div n \in Nat /\ v % n \in 0..(n - 1)
                             /\ v = (v \div n) * n + (v % n)
    BY DivMod
  <2>. QED BY <2>1, <2>2
<1>2. v < Byte * Byte
  BY Sizes
<1>. DEFINE d == v \div Byte
<1>3. d < Byte
  <2>1. ASSUME Byte <= d PROVE FALSE
    <3>1. Byte * Byte <= d * Byte
      BY <1>1, <2>1, Sizes, Monotone
    <3>. QED BY <1>1, <1>2, <3>1, Sizes
  <2>. QED BY <1>1, <2>1, Sizes
<1>. QED BY <1>1, <1>3, Sizes

\* A tab ends at the right edge of the screen at the latest.
LEMMA TabEnds ==
    ASSUME NEW x \in Nat
    PROVE  /\ (x \div TabStop + 1) * TabStop \in Nat
           /\ x < W => (x \div TabStop + 1) * TabStop <= W
<1>. DEFINE d == x \div TabStop
            k == W \div TabStop
<1>1. /\ d \in Nat /\ x % TabStop \in 0..(TabStop - 1)
      /\ x = d * TabStop + (x % TabStop)
  <2>1. TabStop \in Nat \ {0}
    BY Sizes
  <2>2. \A n \in Nat \ {0} : /\ x \div n \in Nat /\ x % n \in 0..(n - 1)
                             /\ x = (x \div n) * n + (x % n)
    BY DivMod
  <2>. QED BY <2>1, <2>2
<1>2. k \in Nat /\ W = k * TabStop
  <2>1. W \in Nat /\ TabStop \in Nat \ {0} /\ W % TabStop = 0
    BY Sizes
  <2>2. \A n \in Nat \ {0} : W \div n \in Nat /\ W = (W \div n) * n + (W % n)
    BY <2>1, DivMod
  <2>. QED BY ONLY <2>1, <2>2
<1>. HIDE DEF d, k
<1>3. (d + 1) * TabStop \in Nat
  BY <1>1, Sizes
<1>4. ASSUME x < W PROVE d + 1 <= k
  <2>1. ASSUME k <= d PROVE FALSE
    <3>1. k * TabStop <= d * TabStop
      BY <1>1, <1>2, <2>1, Sizes, Monotone
    <3>. QED BY <1>1, <1>2, <1>4, <3>1, Sizes
  <2>. QED BY <1>1, <1>2, <2>1
<1>5. x < W => (d + 1) * TabStop <= k * TabStop
  <2>1. d + 1 \in Nat
    BY <1>1
  <2>. QED BY <1>2, <1>4, <2>1, Sizes, Monotone
<1>. QED BY <1>2, <1>3, <1>5 DEF d

LEMMA Advanced ==
    ASSUME NEW x \in Nat
    PROVE  /\ \A c \in Printable : Advance(c, x) = x + 1
           /\ Advance("tab", x) \in Nat /\ (x < W => Advance("tab", x) <= W)
           /\ Advance("tab", x) = (x \div TabStop + 1) * TabStop
           /\ x \in 1..W => Advance("back", x) = x - 1
<1>1. "back" \notin Printable /\ "tab" \notin Printable
  BY ConsoleAssumption DEF ConsoleAssumption, Controls
<1>2. \A c \in Printable : c # "back" /\ c # "tab"
  BY <1>1
<1>3. \A c \in Printable : Advance(c, x) = x + 1
  BY <1>2 DEF Advance
<1>4. Advance("tab", x) = (x \div TabStop + 1) * TabStop
  BY DEF Advance
<1>5. Advance("back", x) = (x - 1) % Word
  BY DEF Advance
<1>6. x \in 1..W => (x - 1) % Word = x - 1
  BY Sizes DEF Word
<1>. QED BY <1>3, <1>4, <1>5, <1>6, TabEnds
-----------------------------------------------------------------------------
(* What the accesses do *)

Program(c, code, reg) == [c |-> c, code |-> code, reg |-> reg]

LEMMA Accesses ==
    ASSUME NEW m, NEW p, NEW op, NEW rest, Begins(p.code, op, rest),
           p = Program(p.c, p.code, p.reg)
    PROVE  /\ Exec(m, p).mem = Memory(m, p, op)
           /\ Exec(m, p).pgm = Program(p.c, Branch(m, op) \o rest, Register(m, p, op))
<1>1. Head(p.code) = op /\ Tail(p.code) = rest
  BY DEF Begins
<1>. QED BY <1>1 DEF Exec, Program

\* Which fields of m differ from n.
LEMMA MemoryIs ==
    ASSUME NEW m \in Memories, NEW p
    PROVE  /\ \A op \in {"where", "loadx", "loady", "temp", "edge", "full", "back"} :
                 Memory(m, p, op) = m
           /\ Memory(m, p, "put") = [m EXCEPT !.cell[p.reg] = p.c]
           /\ Memory(m, p, "storex") = [m EXCEPT !.x = Advance(p.c, p.reg)]
           /\ Memory(m, p, "margin") = [m EXCEPT !.x = 0]
           /\ Memory(m, p, "storey") = [m EXCEPT !.y = p.reg + 1]
           /\ Memory(m, p, "copy") = [m EXCEPT !.cell = Copied(m, p.reg)]
           /\ Memory(m, p, "blank") = [m EXCEPT !.cell = Blanked(m, p.reg)]
           /\ Memory(m, p, "last") = [m EXCEPT !.y = H - 1]
           /\ Memory(m, p, "select_high") = [m EXCEPT !.index = 14]
           /\ Memory(m, p, "select_low") = [m EXCEPT !.index = 15]
           /\ Memory(m, p, "high") = IF m.index = 14
                                     THEN [m EXCEPT !.high = p.reg \div Byte]
                                     ELSE [m EXCEPT !.low = p.reg \div Byte]
           /\ Memory(m, p, "low") = IF m.index = 15
                                    THEN [m EXCEPT !.low = p.reg % Byte]
                                    ELSE [m EXCEPT !.high = p.reg % Byte]
<1>1. m.index \in {14, 15}
  BY DEF Memories
<1>. QED BY <1>1 DEF Memory

LEMMA RegisterIs ==
    ASSUME NEW m, NEW p
    PROVE  /\ Register(m, p, "where") = Place(m) /\ Register(m, p, "loadx") = m.x
           /\ Register(m, p, "loady") = m.y /\ Register(m, p, "temp") = m.y - H + 1
           /\ \A op \in Ops \ {"where", "loadx", "loady", "temp"} :
                 Register(m, p, op) = p.reg
BY DEF Register, Place

LEMMA BranchIs ==
    ASSUME NEW m \in Memories
    PROVE  /\ \A op \in Ops \ {"edge", "full", "back"}, s \in Shapes :
                 Branch(m, op) \o s = s
           /\ Branch(m, "edge") \o AtFull = IF m.x >= W THEN Wrap3 ELSE AtFull
           /\ Branch(m, "full") \o Csr5 = IF m.y >= H THEN Scroll4 ELSE Csr5
           /\ Branch(m, "back") \o AtEdge = IF m.x # 0 THEN Char2 ELSE AtEdge
<1>1. \A op \in Ops \ {"edge", "full", "back"} : Branch(m, op) = <<>>
  BY DEF Branch, Ops
<1>2. /\ Branch(m, "edge") = IF m.x >= W THEN <<"margin", "loady", "storey">> ELSE <<>>
      /\ Branch(m, "full") = IF m.y >= H THEN kscroll ELSE <<>>
      /\ Branch(m, "back") = IF m.x # 0 THEN <<"loadx", "storex">> ELSE <<>>
  BY DEF Branch, Full
<1>3. AtFull \in Shapes /\ Csr5 \in Shapes /\ AtEdge \in Shapes
  BY DEF Shapes
<1>. QED BY <1>1, <1>2, <1>3, Programmed

\* Everything but the drawing leaves the types alone.
LEMMA FieldTypes ==
    ASSUME NEW m \in Memories
    PROVE  /\ m.x \in Nat /\ m.y \in Nat /\ m.cell \in [Cells -> Printable]
           /\ m.index \in {14, 15} /\ m.high \in 0..(Byte - 1) /\ m.low \in 0..(Byte - 1)
           /\ \A v \in Nat : /\ [m EXCEPT !.x = v] \in Memories
                             /\ [m EXCEPT !.y = v] \in Memories
           /\ \A i \in {14, 15} : [m EXCEPT !.index = i] \in Memories
           /\ \A v \in 0..(Byte - 1) : /\ [m EXCEPT !.high = v] \in Memories
                                       /\ [m EXCEPT !.low = v] \in Memories
           /\ \A c \in [Cells -> Printable] : [m EXCEPT !.cell = c] \in Memories
BY DEF Memories

LEMMA CellTypes ==
    ASSUME NEW m \in Memories
    PROVE  /\ \A i \in Cells, c \in Printable : [m EXCEPT !.cell[i] = c] \in Memories
           /\ \A t \in 0..2 : /\ Copied(m, t) \in [Cells -> Printable]
                              /\ Blanked(m, t) \in [Cells -> Printable]
<1>1. m.cell \in [Cells -> Printable]
  BY DEF Memories
<1>2. \A i \in Cells, c \in Printable : [m EXCEPT !.cell[i] = c] \in Memories
  BY DEF Memories
<1>3. ASSUME NEW t \in 0..2 PROVE Copied(m, t) \in [Cells -> Printable]
  <2>1. \A i \in Cells : i < (H - t) * W => i + t * W \in Cells
    BY CopyInCells
  <2>. QED BY <1>1, <2>1 DEF Copied
<1>4. ASSUME NEW t \in 0..2 PROVE Blanked(m, t) \in [Cells -> Printable]
  <2>1. Blank \in Printable
    BY ConsoleAssumption DEF ConsoleAssumption
  <2>. QED BY <1>1, <2>1 DEF Blanked
<1>. QED BY <1>2, <1>3, <1>4

\* The accesses of a kputch, one by one.
LEMMA StepIs ==
    ASSUME NEW m \in Memories, NEW p, p = Program(p.c, p.code, p.reg),
           NEW n, n = Exec(m, p).mem, NEW q, q = Exec(m, p).pgm
    PROVE  /\ p.code = Csr5 => /\ n = m
                               /\ q = Program(p.c, Csr4, Place(m))
           /\ p.code = Csr4 => /\ n = [m EXCEPT !.index = 14]
                               /\ q = Program(p.c, Csr3, p.reg)
           /\ p.code = Csr3 => /\ n = (IF m.index = 14 THEN [m EXCEPT !.high = p.reg \div Byte]
                                        ELSE [m EXCEPT !.low = p.reg \div Byte])
                               /\ q = Program(p.c, Csr2, p.reg)
           /\ p.code = Csr2 => /\ n = [m EXCEPT !.index = 15]
                               /\ q = Program(p.c, Csr1, p.reg)
           /\ p.code = Csr1 => /\ n = (IF m.index = 15 THEN [m EXCEPT !.low = p.reg % Byte]
                                        ELSE [m EXCEPT !.high = p.reg % Byte])
                               /\ q = Program(p.c, <<>>, p.reg)
           /\ p.code = AtFull => /\ n = m
                                 /\ q = Program(p.c, IF m.y >= H THEN Scroll4 ELSE Csr5, p.reg)
           /\ p.code = Scroll4 => /\ n = m
                                  /\ q = Program(p.c, Scroll3, m.y - H + 1)
           /\ p.code = Scroll3 => /\ n = [m EXCEPT !.cell = Copied(m, p.reg)]
                                  /\ q = Program(p.c, Scroll2, p.reg)
           /\ p.code = Scroll2 => /\ n = [m EXCEPT !.cell = Blanked(m, p.reg)]
                                  /\ q = Program(p.c, Scroll1, p.reg)
           /\ p.code = Scroll1 => /\ n = [m EXCEPT !.y = H - 1]
                                  /\ q = Program(p.c, Csr5, p.reg)
           /\ p.code = AtEdge => /\ n = m
                                 /\ q = Program(p.c, IF m.x >= W THEN Wrap3 ELSE AtFull, p.reg)
           /\ p.code = Wrap3 => /\ n = [m EXCEPT !.x = 0]
                                /\ q = Program(p.c, Wrap2, p.reg)
           /\ p.code = Wrap2 => /\ n = m
                                /\ q = Program(p.c, Wrap1, m.y)
           /\ p.code = Wrap1 => /\ n = [m EXCEPT !.y = p.reg + 1]
                                /\ q = Program(p.c, AtFull, p.reg)
           /\ p.code = Line3 => /\ n = [m EXCEPT !.x = 0]
                                /\ q = Program(p.c, Line2, p.reg)
           /\ p.code = Line2 => /\ n = m
                                /\ q = Program(p.c, Line1, m.y)
           /\ p.code = Line1 => /\ n = [m EXCEPT !.y = p.reg + 1]
                                /\ q = Program(p.c, AtEdge, p.reg)
           /\ p.code = Home => /\ n = [m EXCEPT !.x = 0]
                               /\ q = Program(p.c, AtEdge, p.reg)
           /\ p.code = Char4 => /\ n = m
                                /\ q = Program(p.c, Char3, Place(m))
           /\ p.code = Char3 => /\ n = [m EXCEPT !.cell[p.reg] = p.c]
                                /\ q = Program(p.c, Char2, p.reg)
           /\ p.code = Char2 => /\ n = m
                                /\ q = Program(p.c, Char1, m.x)
           /\ p.code = Char1 => /\ n = [m EXCEPT !.x = Advance(p.c, p.reg)]
                                /\ q = Program(p.c, AtEdge, p.reg)
           /\ p.code = Back => /\ n = m
                               /\ q = Program(p.c, IF m.x # 0 THEN Char2 ELSE AtEdge, p.reg)
<1>1. \A op, rest : Begins(p.code, op, rest)
      => /\ n = Memory(m, p, op)
         /\ q = Program(p.c, Branch(m, op) \o rest, Register(m, p, op))
  BY Accesses
<1>2. /\ Memory(m, p, "where") = m
      /\ Memory(m, p, "select_high") = [m EXCEPT !.index = 14]
      /\ Memory(m, p, "high") = (IF m.index = 14 THEN [m EXCEPT !.high = p.reg \div Byte]
                                ELSE [m EXCEPT !.low = p.reg \div Byte])
      /\ Memory(m, p, "select_low") = [m EXCEPT !.index = 15]
      /\ Memory(m, p, "low") = (IF m.index = 15 THEN [m EXCEPT !.low = p.reg % Byte]
                                ELSE [m EXCEPT !.high = p.reg % Byte])
      /\ Memory(m, p, "full") = m
      /\ Memory(m, p, "temp") = m
      /\ Memory(m, p, "copy") = [m EXCEPT !.cell = Copied(m, p.reg)]
      /\ Memory(m, p, "blank") = [m EXCEPT !.cell = Blanked(m, p.reg)]
      /\ Memory(m, p, "last") = [m EXCEPT !.y = H - 1]
      /\ Memory(m, p, "edge") = m
      /\ Memory(m, p, "margin") = [m EXCEPT !.x = 0]
      /\ Memory(m, p, "loady") = m
      /\ Memory(m, p, "storey") = [m EXCEPT !.y = p.reg + 1]
      /\ Memory(m, p, "put") = [m EXCEPT !.cell[p.reg] = p.c]
      /\ Memory(m, p, "loadx") = m
      /\ Memory(m, p, "storex") = [m EXCEPT !.x = Advance(p.c, p.reg)]
      /\ Memory(m, p, "back") = m
  <2>1. \A op \in {"where", "loadx", "loady", "temp", "edge", "full", "back"} :
           Memory(m, p, op) = m
    BY MemoryIs
  <2>. QED BY ONLY ZenonT(60), <2>1, MemoryIs, m \in Memories
<1>3. /\ Register(m, p, "where") = Place(m)
      /\ Register(m, p, "select_high") = p.reg
      /\ Register(m, p, "high") = p.reg
      /\ Register(m, p, "select_low") = p.reg
      /\ Register(m, p, "low") = p.reg
      /\ Register(m, p, "full") = p.reg
      /\ Register(m, p, "temp") = m.y - H + 1
      /\ Register(m, p, "copy") = p.reg
      /\ Register(m, p, "blank") = p.reg
      /\ Register(m, p, "last") = p.reg
      /\ Register(m, p, "edge") = p.reg
      /\ Register(m, p, "margin") = p.reg
      /\ Register(m, p, "loady") = m.y
      /\ Register(m, p, "storey") = p.reg
      /\ Register(m, p, "put") = p.reg
      /\ Register(m, p, "loadx") = m.x
      /\ Register(m, p, "storex") = p.reg
      /\ Register(m, p, "back") = p.reg
  BY RegisterIs DEF Ops
<1>4. /\ Branch(m, "where") \o Csr4 = Csr4
      /\ Branch(m, "select_high") \o Csr3 = Csr3
      /\ Branch(m, "high") \o Csr2 = Csr2
      /\ Branch(m, "select_low") \o Csr1 = Csr1
      /\ Branch(m, "low") \o <<>> = <<>>
      /\ Branch(m, "full") \o Csr5 = (IF m.y >= H THEN Scroll4 ELSE Csr5)
      /\ Branch(m, "temp") \o Scroll3 = Scroll3
      /\ Branch(m, "copy") \o Scroll2 = Scroll2
      /\ Branch(m, "blank") \o Scroll1 = Scroll1
      /\ Branch(m, "last") \o Csr5 = Csr5
      /\ Branch(m, "edge") \o AtFull = (IF m.x >= W THEN Wrap3 ELSE AtFull)
      /\ Branch(m, "margin") \o Wrap2 = Wrap2
      /\ Branch(m, "loady") \o Wrap1 = Wrap1
      /\ Branch(m, "storey") \o AtFull = AtFull
      /\ Branch(m, "margin") \o Line2 = Line2
      /\ Branch(m, "loady") \o Line1 = Line1
      /\ Branch(m, "storey") \o AtEdge = AtEdge
      /\ Branch(m, "margin") \o AtEdge = AtEdge
      /\ Branch(m, "where") \o Char3 = Char3
      /\ Branch(m, "put") \o Char2 = Char2
      /\ Branch(m, "loadx") \o Char1 = Char1
      /\ Branch(m, "storex") \o AtEdge = AtEdge
      /\ Branch(m, "back") \o AtEdge = (IF m.x # 0 THEN Char2 ELSE AtEdge)
  <2>1. /\ <<>> \in Shapes /\ Csr5 \in Shapes /\ Csr4 \in Shapes /\ Csr3 \in Shapes
        /\ Csr2 \in Shapes /\ Csr1 \in Shapes /\ AtFull \in Shapes /\ Scroll4 \in Shapes
        /\ Scroll3 \in Shapes /\ Scroll2 \in Shapes /\ Scroll1 \in Shapes /\ AtEdge \in Shapes
        /\ Wrap3 \in Shapes /\ Wrap2 \in Shapes /\ Wrap1 \in Shapes /\ Line3 \in Shapes
        /\ Line2 \in Shapes /\ Line1 \in Shapes /\ Home \in Shapes /\ Char4 \in Shapes
        /\ Char3 \in Shapes /\ Char2 \in Shapes /\ Char1 \in Shapes /\ Back \in Shapes
    BY DEF Shapes
  <2>2. \A op \in Ops \ {"edge", "full", "back"}, s \in Shapes : Branch(m, op) \o s = s
    BY BranchIs
  <2>3. {"where", "select_high", "high", "select_low", "low", "temp", "copy", "blank",
         "last", "margin", "loady", "storey", "put", "loadx", "storex"} \subseteq Ops \ {"edge", "full", "back"}
    BY DEF Ops
  <2>. QED BY ONLY <2>1, <2>2, <2>3, BranchIs, m \in Memories
<1>5. ASSUME p.code = Csr5
       PROVE  /\ n = m
              /\ q = Program(p.c, Csr4, Place(m))
  <2>1. Begins(p.code, "where", Csr4)
    BY <1>5, Chains
  <2>2. /\ n = Memory(m, p, "where")
        /\ q = Program(p.c, Branch(m, "where") \o Csr4, Register(m, p, "where"))
    BY <1>1, <2>1
  <2>. QED BY ONLY <1>2, <1>3, <1>4, <2>2
<1>6. ASSUME p.code = Csr4
       PROVE  /\ n = [m EXCEPT !.index = 14]
              /\ q = Program(p.c, Csr3, p.reg)
  <2>1. Begins(p.code, "select_high", Csr3)
    BY <1>6, Chains
  <2>2. /\ n = Memory(m, p, "select_high")
        /\ q = Program(p.c, Branch(m, "select_high") \o Csr3, Register(m, p, "select_high"))
    BY <1>1, <2>1
  <2>. QED BY ONLY <1>2, <1>3, <1>4, <2>2
<1>7. ASSUME p.code = Csr3
       PROVE  /\ n = (IF m.index = 14 THEN [m EXCEPT !.high = p.reg \div Byte]
                        ELSE [m EXCEPT !.low = p.reg \div Byte])
              /\ q = Program(p.c, Csr2, p.reg)
  <2>1. Begins(p.code, "high", Csr2)
    BY <1>7, Chains
  <2>2. /\ n = Memory(m, p, "high")
        /\ q = Program(p.c, Branch(m, "high") \o Csr2, Register(m, p, "high"))
    BY <1>1, <2>1
  <2>. QED BY ONLY <1>2, <1>3, <1>4, <2>2
<1>8. ASSUME p.code = Csr2
       PROVE  /\ n = [m EXCEPT !.index = 15]
              /\ q = Program(p.c, Csr1, p.reg)
  <2>1. Begins(p.code, "select_low", Csr1)
    BY <1>8, Chains
  <2>2. /\ n = Memory(m, p, "select_low")
        /\ q = Program(p.c, Branch(m, "select_low") \o Csr1, Register(m, p, "select_low"))
    BY <1>1, <2>1
  <2>. QED BY ONLY <1>2, <1>3, <1>4, <2>2
<1>9. ASSUME p.code = Csr1
       PROVE  /\ n = (IF m.index = 15 THEN [m EXCEPT !.low = p.reg % Byte]
                        ELSE [m EXCEPT !.high = p.reg % Byte])
              /\ q = Program(p.c, <<>>, p.reg)
  <2>1. Begins(p.code, "low", <<>>)
    BY <1>9, Chains
  <2>2. /\ n = Memory(m, p, "low")
        /\ q = Program(p.c, Branch(m, "low") \o <<>>, Register(m, p, "low"))
    BY <1>1, <2>1
  <2>. QED BY ONLY <1>2, <1>3, <1>4, <2>2
<1>10. ASSUME p.code = AtFull
       PROVE  /\ n = m
              /\ q = Program(p.c, IF m.y >= H THEN Scroll4 ELSE Csr5, p.reg)
  <2>1. Begins(p.code, "full", Csr5)
    BY <1>10, Chains
  <2>2. /\ n = Memory(m, p, "full")
        /\ q = Program(p.c, Branch(m, "full") \o Csr5, Register(m, p, "full"))
    BY <1>1, <2>1
  <2>. QED BY ONLY <1>2, <1>3, <1>4, <2>2
<1>11. ASSUME p.code = Scroll4
       PROVE  /\ n = m
              /\ q = Program(p.c, Scroll3, m.y - H + 1)
  <2>1. Begins(p.code, "temp", Scroll3)
    BY <1>11, Chains
  <2>2. /\ n = Memory(m, p, "temp")
        /\ q = Program(p.c, Branch(m, "temp") \o Scroll3, Register(m, p, "temp"))
    BY <1>1, <2>1
  <2>. QED BY ONLY <1>2, <1>3, <1>4, <2>2
<1>12. ASSUME p.code = Scroll3
       PROVE  /\ n = [m EXCEPT !.cell = Copied(m, p.reg)]
              /\ q = Program(p.c, Scroll2, p.reg)
  <2>1. Begins(p.code, "copy", Scroll2)
    BY <1>12, Chains
  <2>2. /\ n = Memory(m, p, "copy")
        /\ q = Program(p.c, Branch(m, "copy") \o Scroll2, Register(m, p, "copy"))
    BY <1>1, <2>1
  <2>. QED BY ONLY <1>2, <1>3, <1>4, <2>2
<1>13. ASSUME p.code = Scroll2
       PROVE  /\ n = [m EXCEPT !.cell = Blanked(m, p.reg)]
              /\ q = Program(p.c, Scroll1, p.reg)
  <2>1. Begins(p.code, "blank", Scroll1)
    BY <1>13, Chains
  <2>2. /\ n = Memory(m, p, "blank")
        /\ q = Program(p.c, Branch(m, "blank") \o Scroll1, Register(m, p, "blank"))
    BY <1>1, <2>1
  <2>. QED BY ONLY <1>2, <1>3, <1>4, <2>2
<1>14. ASSUME p.code = Scroll1
       PROVE  /\ n = [m EXCEPT !.y = H - 1]
              /\ q = Program(p.c, Csr5, p.reg)
  <2>1. Begins(p.code, "last", Csr5)
    BY <1>14, Chains
  <2>2. /\ n = Memory(m, p, "last")
        /\ q = Program(p.c, Branch(m, "last") \o Csr5, Register(m, p, "last"))
    BY <1>1, <2>1
  <2>. QED BY ONLY <1>2, <1>3, <1>4, <2>2
<1>15. ASSUME p.code = AtEdge
       PROVE  /\ n = m
              /\ q = Program(p.c, IF m.x >= W THEN Wrap3 ELSE AtFull, p.reg)
  <2>1. Begins(p.code, "edge", AtFull)
    BY <1>15, Chains
  <2>2. /\ n = Memory(m, p, "edge")
        /\ q = Program(p.c, Branch(m, "edge") \o AtFull, Register(m, p, "edge"))
    BY <1>1, <2>1
  <2>. QED BY ONLY <1>2, <1>3, <1>4, <2>2
<1>16. ASSUME p.code = Wrap3
       PROVE  /\ n = [m EXCEPT !.x = 0]
              /\ q = Program(p.c, Wrap2, p.reg)
  <2>1. Begins(p.code, "margin", Wrap2)
    BY <1>16, Chains
  <2>2. /\ n = Memory(m, p, "margin")
        /\ q = Program(p.c, Branch(m, "margin") \o Wrap2, Register(m, p, "margin"))
    BY <1>1, <2>1
  <2>. QED BY ONLY <1>2, <1>3, <1>4, <2>2
<1>17. ASSUME p.code = Wrap2
       PROVE  /\ n = m
              /\ q = Program(p.c, Wrap1, m.y)
  <2>1. Begins(p.code, "loady", Wrap1)
    BY <1>17, Chains
  <2>2. /\ n = Memory(m, p, "loady")
        /\ q = Program(p.c, Branch(m, "loady") \o Wrap1, Register(m, p, "loady"))
    BY <1>1, <2>1
  <2>. QED BY ONLY <1>2, <1>3, <1>4, <2>2
<1>18. ASSUME p.code = Wrap1
       PROVE  /\ n = [m EXCEPT !.y = p.reg + 1]
              /\ q = Program(p.c, AtFull, p.reg)
  <2>1. Begins(p.code, "storey", AtFull)
    BY <1>18, Chains
  <2>2. /\ n = Memory(m, p, "storey")
        /\ q = Program(p.c, Branch(m, "storey") \o AtFull, Register(m, p, "storey"))
    BY <1>1, <2>1
  <2>. QED BY ONLY <1>2, <1>3, <1>4, <2>2
<1>19. ASSUME p.code = Line3
       PROVE  /\ n = [m EXCEPT !.x = 0]
              /\ q = Program(p.c, Line2, p.reg)
  <2>1. Begins(p.code, "margin", Line2)
    BY <1>19, Chains
  <2>2. /\ n = Memory(m, p, "margin")
        /\ q = Program(p.c, Branch(m, "margin") \o Line2, Register(m, p, "margin"))
    BY <1>1, <2>1
  <2>. QED BY ONLY <1>2, <1>3, <1>4, <2>2
<1>20. ASSUME p.code = Line2
       PROVE  /\ n = m
              /\ q = Program(p.c, Line1, m.y)
  <2>1. Begins(p.code, "loady", Line1)
    BY <1>20, Chains
  <2>2. /\ n = Memory(m, p, "loady")
        /\ q = Program(p.c, Branch(m, "loady") \o Line1, Register(m, p, "loady"))
    BY <1>1, <2>1
  <2>. QED BY ONLY <1>2, <1>3, <1>4, <2>2
<1>21. ASSUME p.code = Line1
       PROVE  /\ n = [m EXCEPT !.y = p.reg + 1]
              /\ q = Program(p.c, AtEdge, p.reg)
  <2>1. Begins(p.code, "storey", AtEdge)
    BY <1>21, Chains
  <2>2. /\ n = Memory(m, p, "storey")
        /\ q = Program(p.c, Branch(m, "storey") \o AtEdge, Register(m, p, "storey"))
    BY <1>1, <2>1
  <2>. QED BY ONLY <1>2, <1>3, <1>4, <2>2
<1>22. ASSUME p.code = Home
       PROVE  /\ n = [m EXCEPT !.x = 0]
              /\ q = Program(p.c, AtEdge, p.reg)
  <2>1. Begins(p.code, "margin", AtEdge)
    BY <1>22, Chains
  <2>2. /\ n = Memory(m, p, "margin")
        /\ q = Program(p.c, Branch(m, "margin") \o AtEdge, Register(m, p, "margin"))
    BY <1>1, <2>1
  <2>. QED BY ONLY <1>2, <1>3, <1>4, <2>2
<1>23. ASSUME p.code = Char4
       PROVE  /\ n = m
              /\ q = Program(p.c, Char3, Place(m))
  <2>1. Begins(p.code, "where", Char3)
    BY <1>23, Chains
  <2>2. /\ n = Memory(m, p, "where")
        /\ q = Program(p.c, Branch(m, "where") \o Char3, Register(m, p, "where"))
    BY <1>1, <2>1
  <2>. QED BY ONLY <1>2, <1>3, <1>4, <2>2
<1>24. ASSUME p.code = Char3
       PROVE  /\ n = [m EXCEPT !.cell[p.reg] = p.c]
              /\ q = Program(p.c, Char2, p.reg)
  <2>1. Begins(p.code, "put", Char2)
    BY <1>24, Chains
  <2>2. /\ n = Memory(m, p, "put")
        /\ q = Program(p.c, Branch(m, "put") \o Char2, Register(m, p, "put"))
    BY <1>1, <2>1
  <2>. QED BY ONLY <1>2, <1>3, <1>4, <2>2
<1>25. ASSUME p.code = Char2
       PROVE  /\ n = m
              /\ q = Program(p.c, Char1, m.x)
  <2>1. Begins(p.code, "loadx", Char1)
    BY <1>25, Chains
  <2>2. /\ n = Memory(m, p, "loadx")
        /\ q = Program(p.c, Branch(m, "loadx") \o Char1, Register(m, p, "loadx"))
    BY <1>1, <2>1
  <2>. QED BY ONLY <1>2, <1>3, <1>4, <2>2
<1>26. ASSUME p.code = Char1
       PROVE  /\ n = [m EXCEPT !.x = Advance(p.c, p.reg)]
              /\ q = Program(p.c, AtEdge, p.reg)
  <2>1. Begins(p.code, "storex", AtEdge)
    BY <1>26, Chains
  <2>2. /\ n = Memory(m, p, "storex")
        /\ q = Program(p.c, Branch(m, "storex") \o AtEdge, Register(m, p, "storex"))
    BY <1>1, <2>1
  <2>. QED BY ONLY <1>2, <1>3, <1>4, <2>2
<1>27. ASSUME p.code = Back
       PROVE  /\ n = m
              /\ q = Program(p.c, IF m.x # 0 THEN Char2 ELSE AtEdge, p.reg)
  <2>1. Begins(p.code, "back", AtEdge)
    BY <1>27, Chains
  <2>2. /\ n = Memory(m, p, "back")
        /\ q = Program(p.c, Branch(m, "back") \o AtEdge, Register(m, p, "back"))
    BY <1>1, <2>1
  <2>. QED BY ONLY <1>2, <1>3, <1>4, <2>2
<1>. QED BY <1>5, <1>6, <1>7, <1>8, <1>9, <1>10, <1>11, <1>12, <1>13, <1>14, <1>15, <1>16,
         <1>17, <1>18, <1>19, <1>20, <1>21, <1>22, <1>23, <1>24, <1>25, <1>26, <1>27

-----------------------------------------------------------------------------
(* Where the cursor may be *)

OnScreen(m) == m.x < W /\ m.y < H

\* Between two accesses of kmain's kputch, whatever has been echoed in it.
Mine(m, p) ==
    \/ p.code = <<>> /\ OnScreen(m)
    \/ p.code = Csr1 /\ OnScreen(m)
    \/ p.code = Csr2 /\ OnScreen(m)
    \/ p.code = Csr3 /\ OnScreen(m) /\ p.reg < H * W
    \/ p.code = Csr4 /\ OnScreen(m) /\ p.reg < H * W
    \/ p.code = Csr5 /\ OnScreen(m)
    \/ p.code = AtFull /\ m.x < W /\ m.y <= H
    \/ p.code = Scroll4 /\ m.x < W /\ m.y \in (H - 1)..H
    \/ p.code = Scroll3 /\ m.x < W /\ m.y \in (H - 1)..H /\ p.reg \in 0..1
    \/ p.code = Scroll2 /\ m.x < W /\ m.y \in (H - 1)..H /\ p.reg \in 0..1
    \/ p.code = Scroll1 /\ m.x < W /\ m.y \in (H - 1)..H
    \/ p.code = Wrap1 /\ OnScreen(m) /\ p.reg < H
    \/ p.code = Wrap2 /\ OnScreen(m)
    \/ p.code = Wrap3 /\ m.x <= W /\ m.y < H
    \/ p.code = AtEdge /\ m.x <= W /\ m.y < H
    \/ p.code = AtEdge /\ m.x < W /\ m.y <= H
    \/ p.code = Line1 /\ OnScreen(m) /\ p.reg < H
    \/ p.code = Line2 /\ OnScreen(m)
    \/ p.code = Line3 /\ OnScreen(m)
    \/ p.code = Home /\ OnScreen(m)
    \/ p.code = Char1 /\ OnScreen(m) /\ p.reg < W /\ p.c \in Printable \cup {"tab"}
    \/ p.code = Char2 /\ OnScreen(m) /\ p.c \in Printable \cup {"tab"}
    \/ p.code = Char3 /\ OnScreen(m) /\ p.reg < H * W /\ p.c \in Printable
    \/ p.code = Char4 /\ OnScreen(m) /\ p.c \in Printable

\* In a kputch nobody interrupts, which may find the cursor beside the screen and
\* below it; b accesses are enough to finish it.
Alone(m, p, b) ==
    \/ p.code = <<>> /\ b >= 0 /\ OnScreen(m)
    \/ p.code = Csr1 /\ b >= 1 /\ OnScreen(m)
    \/ p.code = Csr2 /\ b >= 2 /\ OnScreen(m)
    \/ p.code = Csr3 /\ b >= 3 /\ OnScreen(m) /\ p.reg < H * W
    \/ p.code = Csr4 /\ b >= 4 /\ OnScreen(m) /\ p.reg < H * W
    \/ p.code = Csr5 /\ b >= 5 /\ OnScreen(m)
    \/ p.code = AtFull /\ b >= 10 /\ m.x < W /\ m.y <= H + 1
    \/ p.code = Scroll4 /\ b >= 9 /\ m.x < W /\ m.y \in H..(H + 1)
    \/ p.code = Scroll3 /\ b >= 8 /\ m.x < W /\ p.reg \in 1..2
    \/ p.code = Scroll2 /\ b >= 7 /\ m.x < W /\ p.reg \in 1..2
    \/ p.code = Scroll1 /\ b >= 6 /\ m.x < W
    \/ p.code = Wrap1 /\ b >= 11 /\ m.x = 0 /\ m.y <= H /\ p.reg = m.y
    \/ p.code = Wrap2 /\ b >= 12 /\ m.x = 0 /\ m.y <= H
    \/ p.code = Wrap3 /\ b >= 13 /\ m.y <= H
    \/ p.code = AtEdge /\ b >= 14 /\ m.y <= H
    \/ p.code = AtEdge /\ b >= 14 /\ m.x = 0 /\ m.y <= H + 1
    \/ p.code = Line1 /\ b >= 15 /\ m.x = 0 /\ m.y <= H /\ p.reg = m.y
    \/ p.code = Line2 /\ b >= 16 /\ m.x = 0 /\ m.y <= H
    \/ p.code = Line3 /\ b >= 17 /\ m.y <= H
    \/ p.code = Home /\ b >= 15 /\ m.y <= H
    \/ p.code = Char1 /\ b >= 15 /\ m.x <= W /\ m.y <= H /\ p.reg = m.x
             /\ p.c \in Printable \cup {"tab", "back"} /\ (p.c = "back" => p.reg # 0)
    \/ p.code = Char2 /\ b >= 16 /\ m.x <= W /\ m.y <= H
             /\ p.c \in Printable \cup {"tab", "back"} /\ (p.c = "back" => m.x # 0)
    \/ p.code = Char3 /\ b >= 17 /\ m.x <= W /\ m.y <= H /\ p.reg = Place(m)
             /\ p.c \in Printable
    \/ p.code = Char4 /\ b >= 18 /\ m.x <= W /\ m.y <= H /\ p.c \in Printable
    \/ p.code = Back /\ b >= 17 /\ m.x <= W /\ m.y <= H /\ p.c = "back"

\* Nobody has moved the cursor since move_csr looked where it is.
Straight(m, p) ==
    \/ Size(p.code) >= 5
    \/ /\ OnScreen(m)
       /\ \/ p.code = Csr4 /\ p.reg = Place(m)
          \/ p.code = Csr3 /\ p.reg = Place(m) /\ m.index = 14
          \/ p.code = Csr2 /\ p.reg = Place(m) /\ m.high = p.reg \div Byte
          \/ p.code = Csr1 /\ p.reg = Place(m) /\ m.high = p.reg \div Byte /\ m.index = 15
          \/ p.code = <<>> /\ m.high * Byte + m.low = Place(m)

\* The same with p, n and q as lemmas about a step want them.
LEMMA Typed ==
    ASSUME NEW m \in Memories, NEW p \in Programs
    PROVE  /\ p = Program(p.c, p.code, p.reg) /\ p.reg \in Nat
           /\ p.c \in Printable \cup Controls /\ Place(m) \in Nat
           /\ \A s \in Shapes, v \in Nat : Program(p.c, s, v) \in Programs
           /\ \A s, v : LET t == Program(p.c, s, v)
                      IN t.c = p.c /\ t.code = s /\ t.reg = v
<1>1. /\ p = Program(p.c, p.code, p.reg) /\ p.reg \in Nat
      /\ p.c \in Printable \cup Controls
  BY DEF Program, Programs
<1>2. Place(m) \in Nat
  BY Sizes DEF Place, Memories
<1>3. \A s \in Shapes, v \in Nat : Program(p.c, s, v) \in Programs
  BY <1>1, ShapesAre DEF Program, Programs
<1>4. \A s, v : LET t == Program(p.c, s, v)
                IN t.c = p.c /\ t.code = s /\ t.reg = v
  BY DEF Program
<1>. QED BY <1>1, <1>2, <1>3, <1>4

LEMMA PlaceOnScreen ==
    ASSUME NEW m \in Memories, OnScreen(m)
    PROVE  Place(m) \in Nat /\ Place(m) < H * W
<1>1. m.x \in Nat /\ m.y \in Nat /\ m.x < W /\ m.y < H /\ m.x <= W /\ m.y <= H
  BY Sizes DEF Memories, OnScreen
<1>2. \A x, y \in Nat : x < W /\ y < H /\ x <= W /\ y <= H
                     => y * W + x \in Nat /\ y * W + x < H * W
  BY PlaceInCells
<1>. QED BY <1>1, <1>2 DEF Place

LEMMA InScreen == \A i \in Nat : i < H * W => i \in Cells
<1>1. (H + 2) * W = H * W + W + W /\ H * W \in Nat
  BY Sizes, RowsApart
<1>. QED BY <1>1, Sizes DEF Cells

\* Every shape is one.
LEMMA Listed ==
    /\ <<>> \in Shapes /\ Csr5 \in Shapes /\ Csr4 \in Shapes /\ Csr3 \in Shapes
     /\ Csr2 \in Shapes /\ Csr1 \in Shapes /\ AtFull \in Shapes /\ Scroll4 \in Shapes
     /\ Scroll3 \in Shapes /\ Scroll2 \in Shapes /\ Scroll1 \in Shapes /\ AtEdge \in Shapes
     /\ Wrap3 \in Shapes /\ Wrap2 \in Shapes /\ Wrap1 \in Shapes /\ Line3 \in Shapes
     /\ Line2 \in Shapes /\ Line1 \in Shapes /\ Home \in Shapes /\ Char4 \in Shapes
     /\ Char3 \in Shapes /\ Char2 \in Shapes /\ Char1 \in Shapes /\ Back \in Shapes
BY DEF Shapes

\* An assignment changes one field.
LEMMA Fields ==
    ASSUME NEW m \in Memories
    PROVE  /\ \A v : LET n == [m EXCEPT !.x = v]
                   IN /\ n.x = v /\ n.y = m.y /\ n.cell = m.cell
                      /\ n.index = m.index /\ n.high = m.high /\ n.low = m.low
           /\ \A v : LET n == [m EXCEPT !.y = v]
                   IN /\ n.x = m.x /\ n.y = v /\ n.cell = m.cell
                      /\ n.index = m.index /\ n.high = m.high /\ n.low = m.low
           /\ \A v : LET n == [m EXCEPT !.index = v]
                   IN /\ n.x = m.x /\ n.y = m.y /\ n.cell = m.cell
                      /\ n.index = v /\ n.high = m.high /\ n.low = m.low
           /\ \A v : LET n == [m EXCEPT !.high = v]
                   IN /\ n.x = m.x /\ n.y = m.y /\ n.cell = m.cell
                      /\ n.index = m.index /\ n.high = v /\ n.low = m.low
           /\ \A v : LET n == [m EXCEPT !.low = v]
                   IN /\ n.x = m.x /\ n.y = m.y /\ n.cell = m.cell
                      /\ n.index = m.index /\ n.high = m.high /\ n.low = v
           /\ \A v : LET n == [m EXCEPT !.cell = v]
                   IN /\ n.x = m.x /\ n.y = m.y /\ n.cell = v
                      /\ n.index = m.index /\ n.high = m.high /\ n.low = m.low
           /\ \A i, v : LET n == [m EXCEPT !.cell[i] = v]
                      IN /\ n.x = m.x /\ n.y = m.y /\ n.cell = [m.cell EXCEPT ![i] = v]
                         /\ n.index = m.index /\ n.high = m.high /\ n.low = m.low
BY DEF Memories

LEMMA MineStep ==
    ASSUME NEW m \in Memories, NEW p \in Programs, Mine(m, p), p.code # <<>>,
           NEW n, n = Exec(m, p).mem, NEW q, q = Exec(m, p).pgm
    PROVE  n \in Memories /\ q \in Programs /\ Mine(n, q)
<1>1. /\ p = Program(p.c, p.code, p.reg) /\ p.reg \in Nat /\ Place(m) \in Nat
      /\ p.c \in Printable \cup Controls
      /\ \A s \in Shapes, v \in Nat : Program(p.c, s, v) \in Programs
      /\ \A s, v : LET t == Program(p.c, s, v)
                 IN t.c = p.c /\ t.code = s /\ t.reg = v
  BY Typed
<1>2. /\ m.x \in Nat /\ m.y \in Nat /\ W \in Nat \ {0} /\ H \in Nat /\ H > 1
  BY Sizes DEF Memories
<1>n. /\ "back" \notin Printable /\ "tab" \notin Printable
  BY ConsoleAssumption DEF ConsoleAssumption, Controls
<1>t. p.reg \in Nat
  BY <1>1
<1>3. CASE p.code = Csr1 /\ OnScreen(m)
  <2>1. /\ n = (IF m.index = 15 THEN [m EXCEPT !.low = p.reg % Byte]
             ELSE [m EXCEPT !.high = p.reg % Byte])
        /\ q = Program(p.c, <<>>, p.reg)
    BY <1>1, <1>3, StepIs
  <2>2. /\ n.x = m.x /\ n.y = m.y
        /\ q.c = p.c /\ q.code = <<>> /\ q.reg = p.reg
    BY ONLY m \in Memories, <1>1, <2>1, Fields
  <2>3. n \in Memories
    <3>1. p.reg % Byte \in 0..(Byte - 1)
      BY ONLY <1>1, Sizes, DivMod
    <3>2. m.index \in {14, 15}
      BY DEF Memories
    <3>. QED BY ONLY m \in Memories, <2>1, <3>1, <3>2 DEF Memories
  <2>4. q \in Programs
    <3>1. p.reg \in Nat
      BY <1>1, <1>2, <1>3 DEF OnScreen
    <3>2. <<>> \in Shapes
      BY Listed
    <3>. QED BY ONLY <1>1, <2>1, <3>1, <3>2
  <2>. QED BY <1>t, <1>2, <1>3, <2>2, <2>3, <2>4 DEF Mine, OnScreen
<1>4. CASE p.code = Csr2 /\ OnScreen(m)
  <2>1. /\ n = [m EXCEPT !.index = 15]
        /\ q = Program(p.c, Csr1, p.reg)
    BY <1>1, <1>4, StepIs
  <2>2. /\ n.x = m.x /\ n.y = m.y
        /\ q.c = p.c /\ q.code = Csr1 /\ q.reg = p.reg
    BY ONLY m \in Memories, <1>1, <2>1, Fields
  <2>3. n \in Memories
    BY ONLY m \in Memories, <2>1 DEF Memories
  <2>4. q \in Programs
    <3>1. p.reg \in Nat
      BY <1>1, <1>2, <1>4 DEF OnScreen
    <3>2. Csr1 \in Shapes
      BY Listed
    <3>. QED BY ONLY <1>1, <2>1, <3>1, <3>2
  <2>. QED BY <1>t, <1>2, <1>4, <2>2, <2>3, <2>4 DEF Mine, OnScreen
<1>5. CASE p.code = Csr3 /\ OnScreen(m) /\ p.reg < H * W
  <2>1. /\ n = (IF m.index = 14 THEN [m EXCEPT !.high = p.reg \div Byte]
             ELSE [m EXCEPT !.low = p.reg \div Byte])
        /\ q = Program(p.c, Csr2, p.reg)
    BY <1>1, <1>5, StepIs
  <2>2. /\ n.x = m.x /\ n.y = m.y
        /\ q.c = p.c /\ q.code = Csr2 /\ q.reg = p.reg
    BY ONLY m \in Memories, <1>1, <2>1, Fields
  <2>3. n \in Memories
    <3>1. p.reg \div Byte \in 0..(Byte - 1)
      BY <1>1, <1>5, InRegisters
    <3>2. m.index \in {14, 15}
      BY DEF Memories
    <3>. QED BY ONLY m \in Memories, <2>1, <3>1, <3>2 DEF Memories
  <2>4. q \in Programs
    <3>1. p.reg \in Nat
      BY <1>1, <1>2, <1>5 DEF OnScreen
    <3>2. Csr2 \in Shapes
      BY Listed
    <3>. QED BY ONLY <1>1, <2>1, <3>1, <3>2
  <2>. QED BY <1>t, <1>2, <1>5, <2>2, <2>3, <2>4 DEF Mine, OnScreen
<1>6. CASE p.code = Csr4 /\ OnScreen(m) /\ p.reg < H * W
  <2>1. /\ n = [m EXCEPT !.index = 14]
        /\ q = Program(p.c, Csr3, p.reg)
    BY <1>1, <1>6, StepIs
  <2>2. /\ n.x = m.x /\ n.y = m.y
        /\ q.c = p.c /\ q.code = Csr3 /\ q.reg = p.reg
    BY ONLY m \in Memories, <1>1, <2>1, Fields
  <2>3. n \in Memories
    BY ONLY m \in Memories, <2>1 DEF Memories
  <2>4. q \in Programs
    <3>1. p.reg \in Nat
      BY <1>1, <1>2, <1>6 DEF OnScreen
    <3>2. Csr3 \in Shapes
      BY Listed
    <3>. QED BY ONLY <1>1, <2>1, <3>1, <3>2
  <2>. QED BY <1>t, <1>2, <1>6, <2>2, <2>3, <2>4 DEF Mine, OnScreen
<1>7. CASE p.code = Csr5 /\ OnScreen(m)
  <2>0. Place(m) < H * W
    BY <1>7, PlaceOnScreen
  <2>1. /\ n = m
        /\ q = Program(p.c, Csr4, Place(m))
    BY <1>1, <1>7, StepIs
  <2>2. n.x = m.x /\ n.y = m.y /\ q.c = p.c /\ q.code = Csr4 /\ q.reg = Place(m)
    BY ONLY m \in Memories, <1>1, <2>1
  <2>3. n \in Memories
    BY <2>1
  <2>4. q \in Programs
    <3>1. Place(m) \in Nat
      BY <1>1, <1>2, <1>7 DEF OnScreen
    <3>2. Csr4 \in Shapes
      BY Listed
    <3>. QED BY ONLY <1>1, <2>1, <3>1, <3>2
  <2>. QED BY <1>t, <1>2, <1>7, <2>2, <2>3, <2>4, <2>0, <2>1 DEF Mine, OnScreen
<1>8. CASE p.code = AtFull /\ m.x < W /\ m.y <= H
  <2>1. /\ n = m
        /\ q = Program(p.c, IF m.y >= H THEN Scroll4 ELSE Csr5, p.reg)
    BY <1>1, <1>8, StepIs
  <2>2. /\ n.x = m.x /\ n.y = m.y
        /\ q.c = p.c /\ q.code = (IF m.y >= H THEN Scroll4 ELSE Csr5) /\ q.reg = p.reg
    BY ONLY m \in Memories, <1>1, <2>1
  <2>3. n \in Memories
    BY <2>1
  <2>4. q \in Programs
    <3>1. p.reg \in Nat
      BY <1>1, <1>2, <1>8 DEF OnScreen
    <3>2. (IF m.y >= H THEN Scroll4 ELSE Csr5) \in Shapes
      BY Listed
    <3>. QED BY ONLY <1>1, <2>1, <3>1, <3>2
  <2>5. CASE m.y >= H
    BY <1>t, <1>2, <1>8, <2>2, <2>3, <2>4, <2>5 DEF Mine, OnScreen
  <2>6. CASE ~(m.y >= H)
    BY <1>t, <1>2, <1>8, <2>2, <2>3, <2>4, <2>6 DEF Mine, OnScreen
  <2>. QED BY <2>5, <2>6
<1>9. CASE p.code = Scroll4 /\ m.x < W /\ m.y \in (H - 1)..H
  <2>1. /\ n = m
        /\ q = Program(p.c, Scroll3, m.y - H + 1)
    BY <1>1, <1>9, StepIs
  <2>2. n.x = m.x /\ n.y = m.y /\ q.c = p.c /\ q.code = Scroll3 /\ q.reg = m.y - H + 1
    BY ONLY m \in Memories, <1>1, <2>1
  <2>3. n \in Memories
    BY <2>1
  <2>4. q \in Programs
    <3>1. m.y - H + 1 \in Nat
      BY <1>1, <1>2, <1>9 DEF OnScreen
    <3>2. Scroll3 \in Shapes
      BY Listed
    <3>. QED BY ONLY <1>1, <2>1, <3>1, <3>2
  <2>. QED BY <1>t, <1>2, <1>9, <2>2, <2>3, <2>4 DEF Mine, OnScreen
<1>10. CASE p.code = Scroll3 /\ m.x < W /\ m.y \in (H - 1)..H /\ p.reg \in 0..1
  <2>1. /\ n = [m EXCEPT !.cell = Copied(m, p.reg)]
        /\ q = Program(p.c, Scroll2, p.reg)
    BY <1>1, <1>10, StepIs
  <2>2. /\ n.x = m.x /\ n.y = m.y
        /\ q.c = p.c /\ q.code = Scroll2 /\ q.reg = p.reg
    BY ONLY m \in Memories, <1>1, <2>1, Fields
  <2>3. n \in Memories
    <3>1. Copied(m, p.reg) \in [Cells -> Printable]
      BY <1>10, CellTypes
    <3>. QED BY ONLY m \in Memories, <2>1, <3>1 DEF Memories
  <2>4. q \in Programs
    <3>1. p.reg \in Nat
      BY <1>1, <1>2, <1>10 DEF OnScreen
    <3>2. Scroll2 \in Shapes
      BY Listed
    <3>. QED BY ONLY <1>1, <2>1, <3>1, <3>2
  <2>. QED BY <1>t, <1>2, <1>10, <2>2, <2>3, <2>4 DEF Mine, OnScreen
<1>11. CASE p.code = Scroll2 /\ m.x < W /\ m.y \in (H - 1)..H /\ p.reg \in 0..1
  <2>1. /\ n = [m EXCEPT !.cell = Blanked(m, p.reg)]
        /\ q = Program(p.c, Scroll1, p.reg)
    BY <1>1, <1>11, StepIs
  <2>2. /\ n.x = m.x /\ n.y = m.y
        /\ q.c = p.c /\ q.code = Scroll1 /\ q.reg = p.reg
    BY ONLY m \in Memories, <1>1, <2>1, Fields
  <2>3. n \in Memories
    <3>1. Blanked(m, p.reg) \in [Cells -> Printable]
      BY <1>11, CellTypes
    <3>. QED BY ONLY m \in Memories, <2>1, <3>1 DEF Memories
  <2>4. q \in Programs
    <3>1. p.reg \in Nat
      BY <1>1, <1>2, <1>11 DEF OnScreen
    <3>2. Scroll1 \in Shapes
      BY Listed
    <3>. QED BY ONLY <1>1, <2>1, <3>1, <3>2
  <2>. QED BY <1>t, <1>2, <1>11, <2>2, <2>3, <2>4 DEF Mine, OnScreen
<1>12. CASE p.code = Scroll1 /\ m.x < W /\ m.y \in (H - 1)..H
  <2>1. /\ n = [m EXCEPT !.y = H - 1]
        /\ q = Program(p.c, Csr5, p.reg)
    BY <1>1, <1>12, StepIs
  <2>2. n.x = m.x /\ n.y = H - 1 /\ q.c = p.c /\ q.code = Csr5 /\ q.reg = p.reg
    BY ONLY m \in Memories, <1>1, <2>1, Fields
  <2>3. n \in Memories
    <3>1. H - 1 \in Nat
      BY <1>2
    <3>. QED BY ONLY m \in Memories, <2>1, <3>1 DEF Memories
  <2>4. q \in Programs
    <3>1. p.reg \in Nat
      BY <1>1, <1>2, <1>12 DEF OnScreen
    <3>2. Csr5 \in Shapes
      BY Listed
    <3>. QED BY ONLY <1>1, <2>1, <3>1, <3>2
  <2>. QED BY <1>t, <1>2, <1>12, <2>2, <2>3, <2>4 DEF Mine, OnScreen
<1>13. CASE p.code = Wrap1 /\ OnScreen(m) /\ p.reg < H
  <2>1. /\ n = [m EXCEPT !.y = p.reg + 1]
        /\ q = Program(p.c, AtFull, p.reg)
    BY <1>1, <1>13, StepIs
  <2>2. n.x = m.x /\ n.y = p.reg + 1 /\ q.c = p.c /\ q.code = AtFull /\ q.reg = p.reg
    BY ONLY m \in Memories, <1>1, <2>1, Fields
  <2>3. n \in Memories
    <3>1. p.reg + 1 \in Nat
      BY <1>1
    <3>. QED BY ONLY m \in Memories, <2>1, <3>1 DEF Memories
  <2>4. q \in Programs
    <3>1. p.reg \in Nat
      BY <1>1, <1>2, <1>13 DEF OnScreen
    <3>2. AtFull \in Shapes
      BY Listed
    <3>. QED BY ONLY <1>1, <2>1, <3>1, <3>2
  <2>. QED BY <1>t, <1>2, <1>13, <2>2, <2>3, <2>4 DEF Mine, OnScreen
<1>14. CASE p.code = Wrap2 /\ OnScreen(m)
  <2>1. /\ n = m
        /\ q = Program(p.c, Wrap1, m.y)
    BY <1>1, <1>14, StepIs
  <2>2. n.x = m.x /\ n.y = m.y /\ q.c = p.c /\ q.code = Wrap1 /\ q.reg = m.y
    BY ONLY m \in Memories, <1>1, <2>1
  <2>3. n \in Memories
    BY <2>1
  <2>4. q \in Programs
    <3>1. m.y \in Nat
      BY <1>1, <1>2, <1>14 DEF OnScreen
    <3>2. Wrap1 \in Shapes
      BY Listed
    <3>. QED BY ONLY <1>1, <2>1, <3>1, <3>2
  <2>. QED BY <1>t, <1>2, <1>14, <2>2, <2>3, <2>4 DEF Mine, OnScreen
<1>15. CASE p.code = Wrap3 /\ m.x <= W /\ m.y < H
  <2>1. /\ n = [m EXCEPT !.x = 0]
        /\ q = Program(p.c, Wrap2, p.reg)
    BY <1>1, <1>15, StepIs
  <2>2. /\ n.x = 0 /\ n.y = m.y
        /\ q.c = p.c /\ q.code = Wrap2 /\ q.reg = p.reg
    BY ONLY m \in Memories, <1>1, <2>1, Fields
  <2>3. n \in Memories
    <3>1. 0 \in Nat
      OBVIOUS
    <3>. QED BY ONLY m \in Memories, <2>1, <3>1 DEF Memories
  <2>4. q \in Programs
    <3>1. p.reg \in Nat
      BY <1>1, <1>2, <1>15 DEF OnScreen
    <3>2. Wrap2 \in Shapes
      BY Listed
    <3>. QED BY ONLY <1>1, <2>1, <3>1, <3>2
  <2>. QED BY <1>t, <1>2, <1>15, <2>2, <2>3, <2>4 DEF Mine, OnScreen
<1>16. CASE p.code = AtEdge /\ m.x <= W /\ m.y < H
  <2>1. /\ n = m
        /\ q = Program(p.c, IF m.x >= W THEN Wrap3 ELSE AtFull, p.reg)
    BY <1>1, <1>16, StepIs
  <2>2. /\ n.x = m.x /\ n.y = m.y
        /\ q.c = p.c /\ q.code = (IF m.x >= W THEN Wrap3 ELSE AtFull) /\ q.reg = p.reg
    BY ONLY m \in Memories, <1>1, <2>1
  <2>3. n \in Memories
    BY <2>1
  <2>4. q \in Programs
    <3>1. p.reg \in Nat
      BY <1>1, <1>2, <1>16 DEF OnScreen
    <3>2. (IF m.x >= W THEN Wrap3 ELSE AtFull) \in Shapes
      BY Listed
    <3>. QED BY ONLY <1>1, <2>1, <3>1, <3>2
  <2>5. CASE m.x >= W
    BY <1>t, <1>2, <1>16, <2>2, <2>3, <2>4, <2>5 DEF Mine, OnScreen
  <2>6. CASE ~(m.x >= W)
    BY <1>t, <1>2, <1>16, <2>2, <2>3, <2>4, <2>6 DEF Mine, OnScreen
  <2>. QED BY <2>5, <2>6
<1>17. CASE p.code = AtEdge /\ m.x < W /\ m.y <= H
  <2>1. /\ n = m
        /\ q = Program(p.c, IF m.x >= W THEN Wrap3 ELSE AtFull, p.reg)
    BY <1>1, <1>17, StepIs
  <2>2. /\ n.x = m.x /\ n.y = m.y
        /\ q.c = p.c /\ q.code = (IF m.x >= W THEN Wrap3 ELSE AtFull) /\ q.reg = p.reg
    BY ONLY m \in Memories, <1>1, <2>1
  <2>3. n \in Memories
    BY <2>1
  <2>4. q \in Programs
    <3>1. p.reg \in Nat
      BY <1>1, <1>2, <1>17 DEF OnScreen
    <3>2. (IF m.x >= W THEN Wrap3 ELSE AtFull) \in Shapes
      BY Listed
    <3>. QED BY ONLY <1>1, <2>1, <3>1, <3>2
  <2>5. CASE m.x >= W
    BY <1>t, <1>2, <1>17, <2>2, <2>3, <2>4, <2>5 DEF Mine, OnScreen
  <2>6. CASE ~(m.x >= W)
    BY <1>t, <1>2, <1>17, <2>2, <2>3, <2>4, <2>6 DEF Mine, OnScreen
  <2>. QED BY <2>5, <2>6
<1>18. CASE p.code = Line1 /\ OnScreen(m) /\ p.reg < H
  <2>1. /\ n = [m EXCEPT !.y = p.reg + 1]
        /\ q = Program(p.c, AtEdge, p.reg)
    BY <1>1, <1>18, StepIs
  <2>2. n.x = m.x /\ n.y = p.reg + 1 /\ q.c = p.c /\ q.code = AtEdge /\ q.reg = p.reg
    BY ONLY m \in Memories, <1>1, <2>1, Fields
  <2>3. n \in Memories
    <3>1. p.reg + 1 \in Nat
      BY <1>1
    <3>. QED BY ONLY m \in Memories, <2>1, <3>1 DEF Memories
  <2>4. q \in Programs
    <3>1. p.reg \in Nat
      BY <1>1, <1>2, <1>18 DEF OnScreen
    <3>2. AtEdge \in Shapes
      BY Listed
    <3>. QED BY ONLY <1>1, <2>1, <3>1, <3>2
  <2>. QED BY <1>t, <1>2, <1>18, <2>2, <2>3, <2>4 DEF Mine, OnScreen
<1>19. CASE p.code = Line2 /\ OnScreen(m)
  <2>1. /\ n = m
        /\ q = Program(p.c, Line1, m.y)
    BY <1>1, <1>19, StepIs
  <2>2. n.x = m.x /\ n.y = m.y /\ q.c = p.c /\ q.code = Line1 /\ q.reg = m.y
    BY ONLY m \in Memories, <1>1, <2>1
  <2>3. n \in Memories
    BY <2>1
  <2>4. q \in Programs
    <3>1. m.y \in Nat
      BY <1>1, <1>2, <1>19 DEF OnScreen
    <3>2. Line1 \in Shapes
      BY Listed
    <3>. QED BY ONLY <1>1, <2>1, <3>1, <3>2
  <2>. QED BY <1>t, <1>2, <1>19, <2>2, <2>3, <2>4 DEF Mine, OnScreen
<1>20. CASE p.code = Line3 /\ OnScreen(m)
  <2>1. /\ n = [m EXCEPT !.x = 0]
        /\ q = Program(p.c, Line2, p.reg)
    BY <1>1, <1>20, StepIs
  <2>2. /\ n.x = 0 /\ n.y = m.y
        /\ q.c = p.c /\ q.code = Line2 /\ q.reg = p.reg
    BY ONLY m \in Memories, <1>1, <2>1, Fields
  <2>3. n \in Memories
    <3>1. 0 \in Nat
      OBVIOUS
    <3>. QED BY ONLY m \in Memories, <2>1, <3>1 DEF Memories
  <2>4. q \in Programs
    <3>1. p.reg \in Nat
      BY <1>1, <1>2, <1>20 DEF OnScreen
    <3>2. Line2 \in Shapes
      BY Listed
    <3>. QED BY ONLY <1>1, <2>1, <3>1, <3>2
  <2>. QED BY <1>t, <1>2, <1>20, <2>2, <2>3, <2>4 DEF Mine, OnScreen
<1>21. CASE p.code = Home /\ OnScreen(m)
  <2>1. /\ n = [m EXCEPT !.x = 0]
        /\ q = Program(p.c, AtEdge, p.reg)
    BY <1>1, <1>21, StepIs
  <2>2. /\ n.x = 0 /\ n.y = m.y
        /\ q.c = p.c /\ q.code = AtEdge /\ q.reg = p.reg
    BY ONLY m \in Memories, <1>1, <2>1, Fields
  <2>3. n \in Memories
    <3>1. 0 \in Nat
      OBVIOUS
    <3>. QED BY ONLY m \in Memories, <2>1, <3>1 DEF Memories
  <2>4. q \in Programs
    <3>1. p.reg \in Nat
      BY <1>1, <1>2, <1>21 DEF OnScreen
    <3>2. AtEdge \in Shapes
      BY Listed
    <3>. QED BY ONLY <1>1, <2>1, <3>1, <3>2
  <2>. QED BY <1>t, <1>2, <1>21, <2>2, <2>3, <2>4 DEF Mine, OnScreen
<1>22. CASE p.code = Char1 /\ OnScreen(m) /\ p.reg < W /\ p.c \in Printable \cup {"tab"}
  <2>0. Advance(p.c, p.reg) \in Nat /\ Advance(p.c, p.reg) <= W
    BY <1>1, <1>2, <1>22, Advanced DEF OnScreen
  <2>1. /\ n = [m EXCEPT !.x = Advance(p.c, p.reg)]
        /\ q = Program(p.c, AtEdge, p.reg)
    BY <1>1, <1>22, StepIs
  <2>2. /\ n.x = Advance(p.c, p.reg) /\ n.y = m.y
        /\ q.c = p.c /\ q.code = AtEdge /\ q.reg = p.reg
    BY ONLY m \in Memories, <1>1, <2>1, Fields
  <2>3. n \in Memories
    <3>1. Advance(p.c, p.reg) \in Nat
      BY <2>0
    <3>. QED BY ONLY m \in Memories, <2>1, <3>1 DEF Memories
  <2>4. q \in Programs
    <3>1. p.reg \in Nat
      BY <1>1, <1>2, <1>22 DEF OnScreen
    <3>2. AtEdge \in Shapes
      BY Listed
    <3>. QED BY ONLY <1>1, <2>1, <3>1, <3>2
  <2>. QED BY <1>t, <1>2, <1>22, <2>2, <2>3, <2>4, <2>0 DEF Mine, OnScreen
<1>23. CASE p.code = Char2 /\ OnScreen(m) /\ p.c \in Printable \cup {"tab"}
  <2>1. /\ n = m
        /\ q = Program(p.c, Char1, m.x)
    BY <1>1, <1>23, StepIs
  <2>2. n.x = m.x /\ n.y = m.y /\ q.c = p.c /\ q.code = Char1 /\ q.reg = m.x
    BY ONLY m \in Memories, <1>1, <2>1
  <2>3. n \in Memories
    BY <2>1
  <2>4. q \in Programs
    <3>1. m.x \in Nat
      BY <1>1, <1>2, <1>23 DEF OnScreen
    <3>2. Char1 \in Shapes
      BY Listed
    <3>. QED BY ONLY <1>1, <2>1, <3>1, <3>2
  <2>. QED BY <1>t, <1>2, <1>23, <2>2, <2>3, <2>4 DEF Mine, OnScreen
<1>24. CASE p.code = Char3 /\ OnScreen(m) /\ p.reg < H * W /\ p.c \in Printable
  <2>1. /\ n = [m EXCEPT !.cell[p.reg] = p.c]
        /\ q = Program(p.c, Char2, p.reg)
    BY <1>1, <1>24, StepIs
  <2>2. /\ n.x = m.x /\ n.y = m.y
        /\ q.c = p.c /\ q.code = Char2 /\ q.reg = p.reg
    BY ONLY m \in Memories, <1>1, <2>1, Fields
  <2>3. n \in Memories
    <3>1. p.reg \in Cells /\ p.c \in Printable
      BY <1>1, <1>2, <1>24, PlaceInCells, InScreen DEF Place
    <3>. QED BY ONLY m \in Memories, <2>1, <3>1 DEF Memories
  <2>4. q \in Programs
    <3>1. p.reg \in Nat
      BY <1>1, <1>2, <1>24 DEF OnScreen
    <3>2. Char2 \in Shapes
      BY Listed
    <3>. QED BY ONLY <1>1, <2>1, <3>1, <3>2
  <2>. QED BY <1>t, <1>2, <1>24, <2>2, <2>3, <2>4, <1>n DEF Mine, OnScreen
<1>25. CASE p.code = Char4 /\ OnScreen(m) /\ p.c \in Printable
  <2>0. Place(m) < H * W
    BY <1>25, PlaceOnScreen
  <2>1. /\ n = m
        /\ q = Program(p.c, Char3, Place(m))
    BY <1>1, <1>25, StepIs
  <2>2. n.x = m.x /\ n.y = m.y /\ q.c = p.c /\ q.code = Char3 /\ q.reg = Place(m)
    BY ONLY m \in Memories, <1>1, <2>1
  <2>3. n \in Memories
    BY <2>1
  <2>4. q \in Programs
    <3>1. Place(m) \in Nat
      BY <1>1, <1>2, <1>25 DEF OnScreen
    <3>2. Char3 \in Shapes
      BY Listed
    <3>. QED BY ONLY <1>1, <2>1, <3>1, <3>2
  <2>. QED BY <1>t, <1>2, <1>25, <2>2, <2>3, <2>4, <2>0, <2>1 DEF Mine, OnScreen
<1>. QED BY <1>3, <1>4, <1>5, <1>6, <1>7, <1>8, <1>9, <1>10, <1>11, <1>12, <1>13, <1>14,
         <1>15, <1>16, <1>17, <1>18, <1>19, <1>20, <1>21, <1>22, <1>23, <1>24, <1>25 DEF Mine

LEMMA AloneStep ==
    ASSUME NEW m \in Memories, NEW p \in Programs, NEW b \in Nat, Alone(m, p, b),
           p.code # <<>>, NEW n, n = Exec(m, p).mem, NEW q, q = Exec(m, p).pgm
    PROVE  /\ n \in Memories /\ q \in Programs /\ b > 0 /\ Alone(n, q, b - 1)
           /\ m.y >= H - 1 => n.y >= H - 1
<1>1. /\ p = Program(p.c, p.code, p.reg) /\ p.reg \in Nat /\ Place(m) \in Nat
      /\ p.c \in Printable \cup Controls
      /\ \A s \in Shapes, v \in Nat : Program(p.c, s, v) \in Programs
      /\ \A s, v : LET t == Program(p.c, s, v)
                 IN t.c = p.c /\ t.code = s /\ t.reg = v
  BY Typed
<1>2. /\ m.x \in Nat /\ m.y \in Nat /\ W \in Nat \ {0} /\ H \in Nat /\ H > 1
  BY Sizes DEF Memories
<1>n. /\ "back" \notin Printable /\ "tab" \notin Printable
  BY ConsoleAssumption DEF ConsoleAssumption, Controls
<1>t. p.reg \in Nat
  BY <1>1
<1>3. CASE p.code = Csr1 /\ b >= 1 /\ OnScreen(m)
  <2>1. /\ n = (IF m.index = 15 THEN [m EXCEPT !.low = p.reg % Byte]
             ELSE [m EXCEPT !.high = p.reg % Byte])
        /\ q = Program(p.c, <<>>, p.reg)
    BY <1>1, <1>3, StepIs
  <2>2. /\ n.x = m.x /\ n.y = m.y
        /\ q.c = p.c /\ q.code = <<>> /\ q.reg = p.reg
    BY ONLY m \in Memories, <1>1, <2>1, Fields
  <2>3. n \in Memories
    <3>1. p.reg % Byte \in 0..(Byte - 1)
      BY ONLY <1>1, Sizes, DivMod
    <3>2. m.index \in {14, 15}
      BY DEF Memories
    <3>. QED BY ONLY m \in Memories, <2>1, <3>1, <3>2 DEF Memories
  <2>4. q \in Programs
    <3>1. p.reg \in Nat
      BY <1>1, <1>2, <1>3 DEF OnScreen
    <3>2. <<>> \in Shapes
      BY Listed
    <3>. QED BY ONLY <1>1, <2>1, <3>1, <3>2
  <2>. QED BY <1>t, <1>2, <1>3, <2>2, <2>3, <2>4 DEF Alone, OnScreen
<1>4. CASE p.code = Csr2 /\ b >= 2 /\ OnScreen(m)
  <2>1. /\ n = [m EXCEPT !.index = 15]
        /\ q = Program(p.c, Csr1, p.reg)
    BY <1>1, <1>4, StepIs
  <2>2. /\ n.x = m.x /\ n.y = m.y
        /\ q.c = p.c /\ q.code = Csr1 /\ q.reg = p.reg
    BY ONLY m \in Memories, <1>1, <2>1, Fields
  <2>3. n \in Memories
    BY ONLY m \in Memories, <2>1 DEF Memories
  <2>4. q \in Programs
    <3>1. p.reg \in Nat
      BY <1>1, <1>2, <1>4 DEF OnScreen
    <3>2. Csr1 \in Shapes
      BY Listed
    <3>. QED BY ONLY <1>1, <2>1, <3>1, <3>2
  <2>. QED BY <1>t, <1>2, <1>4, <2>2, <2>3, <2>4 DEF Alone, OnScreen
<1>5. CASE p.code = Csr3 /\ b >= 3 /\ OnScreen(m) /\ p.reg < H * W
  <2>1. /\ n = (IF m.index = 14 THEN [m EXCEPT !.high = p.reg \div Byte]
             ELSE [m EXCEPT !.low = p.reg \div Byte])
        /\ q = Program(p.c, Csr2, p.reg)
    BY <1>1, <1>5, StepIs
  <2>2. /\ n.x = m.x /\ n.y = m.y
        /\ q.c = p.c /\ q.code = Csr2 /\ q.reg = p.reg
    BY ONLY m \in Memories, <1>1, <2>1, Fields
  <2>3. n \in Memories
    <3>1. p.reg \div Byte \in 0..(Byte - 1)
      BY <1>1, <1>5, InRegisters
    <3>2. m.index \in {14, 15}
      BY DEF Memories
    <3>. QED BY ONLY m \in Memories, <2>1, <3>1, <3>2 DEF Memories
  <2>4. q \in Programs
    <3>1. p.reg \in Nat
      BY <1>1, <1>2, <1>5 DEF OnScreen
    <3>2. Csr2 \in Shapes
      BY Listed
    <3>. QED BY ONLY <1>1, <2>1, <3>1, <3>2
  <2>. QED BY <1>t, <1>2, <1>5, <2>2, <2>3, <2>4 DEF Alone, OnScreen
<1>6. CASE p.code = Csr4 /\ b >= 4 /\ OnScreen(m) /\ p.reg < H * W
  <2>1. /\ n = [m EXCEPT !.index = 14]
        /\ q = Program(p.c, Csr3, p.reg)
    BY <1>1, <1>6, StepIs
  <2>2. /\ n.x = m.x /\ n.y = m.y
        /\ q.c = p.c /\ q.code = Csr3 /\ q.reg = p.reg
    BY ONLY m \in Memories, <1>1, <2>1, Fields
  <2>3. n \in Memories
    BY ONLY m \in Memories, <2>1 DEF Memories
  <2>4. q \in Programs
    <3>1. p.reg \in Nat
      BY <1>1, <1>2, <1>6 DEF OnScreen
    <3>2. Csr3 \in Shapes
      BY Listed
    <3>. QED BY ONLY <1>1, <2>1, <3>1, <3>2
  <2>. QED BY <1>t, <1>2, <1>6, <2>2, <2>3, <2>4 DEF Alone, OnScreen
<1>7. CASE p.code = Csr5 /\ b >= 5 /\ OnScreen(m)
  <2>0. Place(m) < H * W
    BY <1>7, PlaceOnScreen
  <2>1. /\ n = m
        /\ q = Program(p.c, Csr4, Place(m))
    BY <1>1, <1>7, StepIs
  <2>2. n.x = m.x /\ n.y = m.y /\ q.c = p.c /\ q.code = Csr4 /\ q.reg = Place(m)
    BY ONLY m \in Memories, <1>1, <2>1
  <2>3. n \in Memories
    BY <2>1
  <2>4. q \in Programs
    <3>1. Place(m) \in Nat
      BY <1>1, <1>2, <1>7 DEF OnScreen
    <3>2. Csr4 \in Shapes
      BY Listed
    <3>. QED BY ONLY <1>1, <2>1, <3>1, <3>2
  <2>. QED BY <1>t, <1>2, <1>7, <2>2, <2>3, <2>4, <2>0, <2>1 DEF Alone, OnScreen
<1>8. CASE p.code = AtFull /\ b >= 10 /\ m.x < W /\ m.y <= H + 1
  <2>1. /\ n = m
        /\ q = Program(p.c, IF m.y >= H THEN Scroll4 ELSE Csr5, p.reg)
    BY <1>1, <1>8, StepIs
  <2>2. /\ n.x = m.x /\ n.y = m.y
        /\ q.c = p.c /\ q.code = (IF m.y >= H THEN Scroll4 ELSE Csr5) /\ q.reg = p.reg
    BY ONLY m \in Memories, <1>1, <2>1
  <2>3. n \in Memories
    BY <2>1
  <2>4. q \in Programs
    <3>1. p.reg \in Nat
      BY <1>1, <1>2, <1>8 DEF OnScreen
    <3>2. (IF m.y >= H THEN Scroll4 ELSE Csr5) \in Shapes
      BY Listed
    <3>. QED BY ONLY <1>1, <2>1, <3>1, <3>2
  <2>5. CASE m.y >= H
    BY <1>t, <1>2, <1>8, <2>2, <2>3, <2>4, <2>5 DEF Alone, OnScreen
  <2>6. CASE ~(m.y >= H)
    BY <1>t, <1>2, <1>8, <2>2, <2>3, <2>4, <2>6 DEF Alone, OnScreen
  <2>. QED BY <2>5, <2>6
<1>9. CASE p.code = Scroll4 /\ b >= 9 /\ m.x < W /\ m.y \in H..(H + 1)
  <2>1. /\ n = m
        /\ q = Program(p.c, Scroll3, m.y - H + 1)
    BY <1>1, <1>9, StepIs
  <2>2. n.x = m.x /\ n.y = m.y /\ q.c = p.c /\ q.code = Scroll3 /\ q.reg = m.y - H + 1
    BY ONLY m \in Memories, <1>1, <2>1
  <2>3. n \in Memories
    BY <2>1
  <2>4. q \in Programs
    <3>1. m.y - H + 1 \in Nat
      BY <1>1, <1>2, <1>9 DEF OnScreen
    <3>2. Scroll3 \in Shapes
      BY Listed
    <3>. QED BY ONLY <1>1, <2>1, <3>1, <3>2
  <2>. QED BY <1>t, <1>2, <1>9, <2>2, <2>3, <2>4 DEF Alone, OnScreen
<1>10. CASE p.code = Scroll3 /\ b >= 8 /\ m.x < W /\ p.reg \in 1..2
  <2>1. /\ n = [m EXCEPT !.cell = Copied(m, p.reg)]
        /\ q = Program(p.c, Scroll2, p.reg)
    BY <1>1, <1>10, StepIs
  <2>2. /\ n.x = m.x /\ n.y = m.y
        /\ q.c = p.c /\ q.code = Scroll2 /\ q.reg = p.reg
    BY ONLY m \in Memories, <1>1, <2>1, Fields
  <2>3. n \in Memories
    <3>1. Copied(m, p.reg) \in [Cells -> Printable]
      BY <1>10, CellTypes
    <3>. QED BY ONLY m \in Memories, <2>1, <3>1 DEF Memories
  <2>4. q \in Programs
    <3>1. p.reg \in Nat
      BY <1>1, <1>2, <1>10 DEF OnScreen
    <3>2. Scroll2 \in Shapes
      BY Listed
    <3>. QED BY ONLY <1>1, <2>1, <3>1, <3>2
  <2>. QED BY <1>t, <1>2, <1>10, <2>2, <2>3, <2>4 DEF Alone, OnScreen
<1>11. CASE p.code = Scroll2 /\ b >= 7 /\ m.x < W /\ p.reg \in 1..2
  <2>1. /\ n = [m EXCEPT !.cell = Blanked(m, p.reg)]
        /\ q = Program(p.c, Scroll1, p.reg)
    BY <1>1, <1>11, StepIs
  <2>2. /\ n.x = m.x /\ n.y = m.y
        /\ q.c = p.c /\ q.code = Scroll1 /\ q.reg = p.reg
    BY ONLY m \in Memories, <1>1, <2>1, Fields
  <2>3. n \in Memories
    <3>1. Blanked(m, p.reg) \in [Cells -> Printable]
      BY <1>11, CellTypes
    <3>. QED BY ONLY m \in Memories, <2>1, <3>1 DEF Memories
  <2>4. q \in Programs
    <3>1. p.reg \in Nat
      BY <1>1, <1>2, <1>11 DEF OnScreen
    <3>2. Scroll1 \in Shapes
      BY Listed
    <3>. QED BY ONLY <1>1, <2>1, <3>1, <3>2
  <2>. QED BY <1>t, <1>2, <1>11, <2>2, <2>3, <2>4 DEF Alone, OnScreen
<1>12. CASE p.code = Scroll1 /\ b >= 6 /\ m.x < W
  <2>1. /\ n = [m EXCEPT !.y = H - 1]
        /\ q = Program(p.c, Csr5, p.reg)
    BY <1>1, <1>12, StepIs
  <2>2. n.x = m.x /\ n.y = H - 1 /\ q.c = p.c /\ q.code = Csr5 /\ q.reg = p.reg
    BY ONLY m \in Memories, <1>1, <2>1, Fields
  <2>3. n \in Memories
    <3>1. H - 1 \in Nat
      BY <1>2
    <3>. QED BY ONLY m \in Memories, <2>1, <3>1 DEF Memories
  <2>4. q \in Programs
    <3>1. p.reg \in Nat
      BY <1>1, <1>2, <1>12 DEF OnScreen
    <3>2. Csr5 \in Shapes
      BY Listed
    <3>. QED BY ONLY <1>1, <2>1, <3>1, <3>2
  <2>. QED BY <1>t, <1>2, <1>12, <2>2, <2>3, <2>4 DEF Alone, OnScreen
<1>13. CASE p.code = Wrap1 /\ b >= 11 /\ m.x = 0 /\ m.y <= H /\ p.reg = m.y
  <2>1. /\ n = [m EXCEPT !.y = p.reg + 1]
        /\ q = Program(p.c, AtFull, p.reg)
    BY <1>1, <1>13, StepIs
  <2>2. n.x = m.x /\ n.y = p.reg + 1 /\ q.c = p.c /\ q.code = AtFull /\ q.reg = p.reg
    BY ONLY m \in Memories, <1>1, <2>1, Fields
  <2>3. n \in Memories
    <3>1. p.reg + 1 \in Nat
      BY <1>1
    <3>. QED BY ONLY m \in Memories, <2>1, <3>1 DEF Memories
  <2>4. q \in Programs
    <3>1. p.reg \in Nat
      BY <1>1, <1>2, <1>13 DEF OnScreen
    <3>2. AtFull \in Shapes
      BY Listed
    <3>. QED BY ONLY <1>1, <2>1, <3>1, <3>2
  <2>. QED BY <1>t, <1>2, <1>13, <2>2, <2>3, <2>4 DEF Alone, OnScreen
<1>14. CASE p.code = Wrap2 /\ b >= 12 /\ m.x = 0 /\ m.y <= H
  <2>1. /\ n = m
        /\ q = Program(p.c, Wrap1, m.y)
    BY <1>1, <1>14, StepIs
  <2>2. n.x = m.x /\ n.y = m.y /\ q.c = p.c /\ q.code = Wrap1 /\ q.reg = m.y
    BY ONLY m \in Memories, <1>1, <2>1
  <2>3. n \in Memories
    BY <2>1
  <2>4. q \in Programs
    <3>1. m.y \in Nat
      BY <1>1, <1>2, <1>14 DEF OnScreen
    <3>2. Wrap1 \in Shapes
      BY Listed
    <3>. QED BY ONLY <1>1, <2>1, <3>1, <3>2
  <2>. QED BY <1>t, <1>2, <1>14, <2>2, <2>3, <2>4 DEF Alone, OnScreen
<1>15. CASE p.code = Wrap3 /\ b >= 13 /\ m.y <= H
  <2>1. /\ n = [m EXCEPT !.x = 0]
        /\ q = Program(p.c, Wrap2, p.reg)
    BY <1>1, <1>15, StepIs
  <2>2. /\ n.x = 0 /\ n.y = m.y
        /\ q.c = p.c /\ q.code = Wrap2 /\ q.reg = p.reg
    BY ONLY m \in Memories, <1>1, <2>1, Fields
  <2>3. n \in Memories
    <3>1. 0 \in Nat
      OBVIOUS
    <3>. QED BY ONLY m \in Memories, <2>1, <3>1 DEF Memories
  <2>4. q \in Programs
    <3>1. p.reg \in Nat
      BY <1>1, <1>2, <1>15 DEF OnScreen
    <3>2. Wrap2 \in Shapes
      BY Listed
    <3>. QED BY ONLY <1>1, <2>1, <3>1, <3>2
  <2>. QED BY <1>t, <1>2, <1>15, <2>2, <2>3, <2>4 DEF Alone, OnScreen
<1>16. CASE p.code = AtEdge /\ b >= 14 /\ m.y <= H
  <2>1. /\ n = m
        /\ q = Program(p.c, IF m.x >= W THEN Wrap3 ELSE AtFull, p.reg)
    BY <1>1, <1>16, StepIs
  <2>2. /\ n.x = m.x /\ n.y = m.y
        /\ q.c = p.c /\ q.code = (IF m.x >= W THEN Wrap3 ELSE AtFull) /\ q.reg = p.reg
    BY ONLY m \in Memories, <1>1, <2>1
  <2>3. n \in Memories
    BY <2>1
  <2>4. q \in Programs
    <3>1. p.reg \in Nat
      BY <1>1, <1>2, <1>16 DEF OnScreen
    <3>2. (IF m.x >= W THEN Wrap3 ELSE AtFull) \in Shapes
      BY Listed
    <3>. QED BY ONLY <1>1, <2>1, <3>1, <3>2
  <2>5. CASE m.x >= W
    BY <1>t, <1>2, <1>16, <2>2, <2>3, <2>4, <2>5 DEF Alone, OnScreen
  <2>6. CASE ~(m.x >= W)
    BY <1>t, <1>2, <1>16, <2>2, <2>3, <2>4, <2>6 DEF Alone, OnScreen
  <2>. QED BY <2>5, <2>6
<1>17. CASE p.code = AtEdge /\ b >= 14 /\ m.x = 0 /\ m.y <= H + 1
  <2>1. /\ n = m
        /\ q = Program(p.c, IF m.x >= W THEN Wrap3 ELSE AtFull, p.reg)
    BY <1>1, <1>17, StepIs
  <2>2. /\ n.x = m.x /\ n.y = m.y
        /\ q.c = p.c /\ q.code = (IF m.x >= W THEN Wrap3 ELSE AtFull) /\ q.reg = p.reg
    BY ONLY m \in Memories, <1>1, <2>1
  <2>3. n \in Memories
    BY <2>1
  <2>4. q \in Programs
    <3>1. p.reg \in Nat
      BY <1>1, <1>2, <1>17 DEF OnScreen
    <3>2. (IF m.x >= W THEN Wrap3 ELSE AtFull) \in Shapes
      BY Listed
    <3>. QED BY ONLY <1>1, <2>1, <3>1, <3>2
  <2>5. CASE m.x >= W
    BY <1>t, <1>2, <1>17, <2>2, <2>3, <2>4, <2>5 DEF Alone, OnScreen
  <2>6. CASE ~(m.x >= W)
    BY <1>t, <1>2, <1>17, <2>2, <2>3, <2>4, <2>6 DEF Alone, OnScreen
  <2>. QED BY <2>5, <2>6
<1>18. CASE p.code = Line1 /\ b >= 15 /\ m.x = 0 /\ m.y <= H /\ p.reg = m.y
  <2>1. /\ n = [m EXCEPT !.y = p.reg + 1]
        /\ q = Program(p.c, AtEdge, p.reg)
    BY <1>1, <1>18, StepIs
  <2>2. n.x = m.x /\ n.y = p.reg + 1 /\ q.c = p.c /\ q.code = AtEdge /\ q.reg = p.reg
    BY ONLY m \in Memories, <1>1, <2>1, Fields
  <2>3. n \in Memories
    <3>1. p.reg + 1 \in Nat
      BY <1>1
    <3>. QED BY ONLY m \in Memories, <2>1, <3>1 DEF Memories
  <2>4. q \in Programs
    <3>1. p.reg \in Nat
      BY <1>1, <1>2, <1>18 DEF OnScreen
    <3>2. AtEdge \in Shapes
      BY Listed
    <3>. QED BY ONLY <1>1, <2>1, <3>1, <3>2
  <2>. QED BY <1>t, <1>2, <1>18, <2>2, <2>3, <2>4 DEF Alone, OnScreen
<1>19. CASE p.code = Line2 /\ b >= 16 /\ m.x = 0 /\ m.y <= H
  <2>1. /\ n = m
        /\ q = Program(p.c, Line1, m.y)
    BY <1>1, <1>19, StepIs
  <2>2. n.x = m.x /\ n.y = m.y /\ q.c = p.c /\ q.code = Line1 /\ q.reg = m.y
    BY ONLY m \in Memories, <1>1, <2>1
  <2>3. n \in Memories
    BY <2>1
  <2>4. q \in Programs
    <3>1. m.y \in Nat
      BY <1>1, <1>2, <1>19 DEF OnScreen
    <3>2. Line1 \in Shapes
      BY Listed
    <3>. QED BY ONLY <1>1, <2>1, <3>1, <3>2
  <2>. QED BY <1>t, <1>2, <1>19, <2>2, <2>3, <2>4 DEF Alone, OnScreen
<1>20. CASE p.code = Line3 /\ b >= 17 /\ m.y <= H
  <2>1. /\ n = [m EXCEPT !.x = 0]
        /\ q = Program(p.c, Line2, p.reg)
    BY <1>1, <1>20, StepIs
  <2>2. /\ n.x = 0 /\ n.y = m.y
        /\ q.c = p.c /\ q.code = Line2 /\ q.reg = p.reg
    BY ONLY m \in Memories, <1>1, <2>1, Fields
  <2>3. n \in Memories
    <3>1. 0 \in Nat
      OBVIOUS
    <3>. QED BY ONLY m \in Memories, <2>1, <3>1 DEF Memories
  <2>4. q \in Programs
    <3>1. p.reg \in Nat
      BY <1>1, <1>2, <1>20 DEF OnScreen
    <3>2. Line2 \in Shapes
      BY Listed
    <3>. QED BY ONLY <1>1, <2>1, <3>1, <3>2
  <2>. QED BY <1>t, <1>2, <1>20, <2>2, <2>3, <2>4 DEF Alone, OnScreen
<1>21. CASE p.code = Home /\ b >= 15 /\ m.y <= H
  <2>1. /\ n = [m EXCEPT !.x = 0]
        /\ q = Program(p.c, AtEdge, p.reg)
    BY <1>1, <1>21, StepIs
  <2>2. /\ n.x = 0 /\ n.y = m.y
        /\ q.c = p.c /\ q.code = AtEdge /\ q.reg = p.reg
    BY ONLY m \in Memories, <1>1, <2>1, Fields
  <2>3. n \in Memories
    <3>1. 0 \in Nat
      OBVIOUS
    <3>. QED BY ONLY m \in Memories, <2>1, <3>1 DEF Memories
  <2>4. q \in Programs
    <3>1. p.reg \in Nat
      BY <1>1, <1>2, <1>21 DEF OnScreen
    <3>2. AtEdge \in Shapes
      BY Listed
    <3>. QED BY ONLY <1>1, <2>1, <3>1, <3>2
  <2>. QED BY <1>t, <1>2, <1>21, <2>2, <2>3, <2>4 DEF Alone, OnScreen
<1>22. CASE p.code = Char1 /\ b >= 15 /\ m.x <= W /\ m.y <= H /\ p.reg = m.x
             /\ p.c \in Printable \cup {"tab", "back"} /\ (p.c = "back" => p.reg # 0)
  <2>0. Advance(p.c, p.reg) \in Nat
    <3>1. CASE p.c = "back"
      <4>1. p.reg \in 1..W
        BY <1>1, <1>2, <1>22, <3>1
      <4>2. Advance("back", p.reg) = p.reg - 1
        BY <1>1, <4>1, Advanced
      <4>. QED BY <3>1, <4>1, <4>2
    <3>2. CASE p.c # "back"
      <4>1. /\ \A c \in Printable : Advance(c, p.reg) = p.reg + 1
            /\ Advance("tab", p.reg) \in Nat
        BY <1>1, Advanced
      <4>. QED BY <1>t, <1>22, <3>2, <4>1
    <3>. QED BY <3>1, <3>2
  <2>1. /\ n = [m EXCEPT !.x = Advance(p.c, p.reg)]
        /\ q = Program(p.c, AtEdge, p.reg)
    BY <1>1, <1>22, StepIs
  <2>2. /\ n.x = Advance(p.c, p.reg) /\ n.y = m.y
        /\ q.c = p.c /\ q.code = AtEdge /\ q.reg = p.reg
    BY ONLY m \in Memories, <1>1, <2>1, Fields
  <2>3. n \in Memories
    <3>1. Advance(p.c, p.reg) \in Nat
      BY <2>0
    <3>. QED BY ONLY m \in Memories, <2>1, <3>1 DEF Memories
  <2>4. q \in Programs
    <3>1. p.reg \in Nat
      BY <1>1, <1>2, <1>22 DEF OnScreen
    <3>2. AtEdge \in Shapes
      BY Listed
    <3>. QED BY ONLY <1>1, <2>1, <3>1, <3>2
  <2>. QED BY <1>t, <1>2, <1>22, <2>2, <2>3, <2>4, <2>0 DEF Alone, OnScreen
<1>23. CASE p.code = Char2 /\ b >= 16 /\ m.x <= W /\ m.y <= H
             /\ p.c \in Printable \cup {"tab", "back"} /\ (p.c = "back" => m.x # 0)
  <2>1. /\ n = m
        /\ q = Program(p.c, Char1, m.x)
    BY <1>1, <1>23, StepIs
  <2>2. n.x = m.x /\ n.y = m.y /\ q.c = p.c /\ q.code = Char1 /\ q.reg = m.x
    BY ONLY m \in Memories, <1>1, <2>1
  <2>3. n \in Memories
    BY <2>1
  <2>4. q \in Programs
    <3>1. m.x \in Nat
      BY <1>1, <1>2, <1>23 DEF OnScreen
    <3>2. Char1 \in Shapes
      BY Listed
    <3>. QED BY ONLY <1>1, <2>1, <3>1, <3>2
  <2>. QED BY <1>t, <1>2, <1>23, <2>2, <2>3, <2>4 DEF Alone, OnScreen
<1>24. CASE p.code = Char3 /\ b >= 17 /\ m.x <= W /\ m.y <= H /\ p.reg = Place(m)
             /\ p.c \in Printable
  <2>1. /\ n = [m EXCEPT !.cell[p.reg] = p.c]
        /\ q = Program(p.c, Char2, p.reg)
    BY <1>1, <1>24, StepIs
  <2>2. /\ n.x = m.x /\ n.y = m.y
        /\ q.c = p.c /\ q.code = Char2 /\ q.reg = p.reg
    BY ONLY m \in Memories, <1>1, <2>1, Fields
  <2>3. n \in Memories
    <3>1. p.reg \in Cells /\ p.c \in Printable
      BY <1>1, <1>2, <1>24, PlaceInCells, InScreen DEF Place
    <3>. QED BY ONLY m \in Memories, <2>1, <3>1 DEF Memories
  <2>4. q \in Programs
    <3>1. p.reg \in Nat
      BY <1>1, <1>2, <1>24 DEF OnScreen
    <3>2. Char2 \in Shapes
      BY Listed
    <3>. QED BY ONLY <1>1, <2>1, <3>1, <3>2
  <2>. QED BY <1>t, <1>2, <1>24, <2>2, <2>3, <2>4, <1>n DEF Alone, OnScreen
<1>25. CASE p.code = Char4 /\ b >= 18 /\ m.x <= W /\ m.y <= H /\ p.c \in Printable
  <2>1. /\ n = m
        /\ q = Program(p.c, Char3, Place(m))
    BY <1>1, <1>25, StepIs
  <2>2. n.x = m.x /\ n.y = m.y /\ q.c = p.c /\ q.code = Char3 /\ q.reg = Place(m)
    BY ONLY m \in Memories, <1>1, <2>1
  <2>3. n \in Memories
    BY <2>1
  <2>4. q \in Programs
    <3>1. Place(m) \in Nat
      BY <1>1, <1>2, <1>25 DEF OnScreen
    <3>2. Char3 \in Shapes
      BY Listed
    <3>. QED BY ONLY <1>1, <2>1, <3>1, <3>2
  <2>. QED BY <1>t, <1>2, <1>25, <2>2, <2>3, <2>4, <2>1 DEF Alone, OnScreen
<1>26. CASE p.code = Back /\ b >= 17 /\ m.x <= W /\ m.y <= H /\ p.c = "back"
  <2>1. /\ n = m
        /\ q = Program(p.c, IF m.x # 0 THEN Char2 ELSE AtEdge, p.reg)
    BY <1>1, <1>26, StepIs
  <2>2. /\ n.x = m.x /\ n.y = m.y
        /\ q.c = p.c /\ q.code = (IF m.x # 0 THEN Char2 ELSE AtEdge) /\ q.reg = p.reg
    BY ONLY m \in Memories, <1>1, <2>1
  <2>3. n \in Memories
    BY <2>1
  <2>4. q \in Programs
    <3>1. p.reg \in Nat
      BY <1>1, <1>2, <1>26 DEF OnScreen
    <3>2. (IF m.x # 0 THEN Char2 ELSE AtEdge) \in Shapes
      BY Listed
    <3>. QED BY ONLY <1>1, <2>1, <3>1, <3>2
  <2>5. CASE m.x # 0
    BY <1>t, <1>2, <1>26, <2>2, <2>3, <2>4, <2>5 DEF Alone, OnScreen
  <2>6. CASE ~(m.x # 0)
    BY <1>t, <1>2, <1>26, <2>2, <2>3, <2>4, <2>6 DEF Alone, OnScreen
  <2>. QED BY <2>5, <2>6
<1>. QED BY <1>3, <1>4, <1>5, <1>6, <1>7, <1>8, <1>9, <1>10, <1>11, <1>12, <1>13, <1>14,
         <1>15, <1>16, <1>17, <1>18, <1>19, <1>20, <1>21, <1>22, <1>23, <1>24, <1>25, <1>26 DEF Alone

LEMMA StraightStep ==
    ASSUME NEW m \in Memories, NEW p \in Programs, p.code \in Shapes \ {<<>>},
           Straight(m, p), p.code = Csr5 => OnScreen(m),
           NEW n, n = Exec(m, p).mem, NEW q, q = Exec(m, p).pgm
    PROVE  Straight(n, q)
<1>1. /\ p = Program(p.c, p.code, p.reg) /\ p.reg \in Nat
      /\ \A s, v : LET t == Program(p.c, s, v)
                 IN t.c = p.c /\ t.code = s /\ t.reg = v
  BY Typed
<1>2. /\ Size(Csr1) = 1 /\ Size(Csr2) = 2 /\ Size(Csr3) = 3 /\ Size(Csr4) = 4
      /\ Size(<<>>) = 0 /\ Size(Csr5) = 5
      /\ \A s \in {AtFull, Scroll1, Scroll2, Scroll3, Scroll4, Wrap1, Wrap2, Wrap3, AtEdge,
                 Line1, Line2, Line3, Home, Char1, Char2, Char3, Char4, Back} : Size(s) \in 6..11
  BY ShapesAre
<1>3. CASE p.code = Csr5
  <2>1. n = m /\ q = Program(p.c, Csr4, Place(m))
    BY <1>1, <1>3, StepIs
  <2>2. q.code = Csr4 /\ q.reg = Place(m)
    BY ONLY <1>1, <2>1
  <2>. QED BY <1>3, <2>1, <2>2 DEF Straight
<1>4. CASE p.code = Csr4
  <2>1. n = [m EXCEPT !.index = 14] /\ q = Program(p.c, Csr3, p.reg)
    BY <1>1, <1>4, StepIs
  <2>2. n.x = m.x /\ n.y = m.y /\ n.index = 14 /\ q.code = Csr3 /\ q.reg = p.reg
    BY ONLY m \in Memories, <1>1, <2>1, Fields
  <2>3. OnScreen(m) /\ p.reg = Place(m)
    BY <1>2, <1>4 DEF Straight
  <2>. QED BY <2>2, <2>3 DEF Straight, OnScreen, Place
<1>5. CASE p.code = Csr3
  <2>1. OnScreen(m) /\ p.reg = Place(m) /\ m.index = 14
    BY <1>2, <1>5 DEF Straight
  <2>2. n = [m EXCEPT !.high = p.reg \div Byte] /\ q = Program(p.c, Csr2, p.reg)
    BY <1>1, <1>5, <2>1, StepIs
  <2>3. n.x = m.x /\ n.y = m.y /\ n.high = p.reg \div Byte /\ q.code = Csr2 /\ q.reg = p.reg
    BY ONLY m \in Memories, <1>1, <2>2, Fields
  <2>. QED BY <2>1, <2>3 DEF Straight, OnScreen, Place
<1>6. CASE p.code = Csr2
  <2>1. OnScreen(m) /\ p.reg = Place(m) /\ m.high = p.reg \div Byte
    BY <1>2, <1>6 DEF Straight
  <2>2. n = [m EXCEPT !.index = 15] /\ q = Program(p.c, Csr1, p.reg)
    BY <1>1, <1>6, StepIs
  <2>3. n.x = m.x /\ n.y = m.y /\ n.high = m.high /\ n.index = 15 /\ q.code = Csr1 /\ q.reg = p.reg
    BY ONLY m \in Memories, <1>1, <2>2, Fields
  <2>. QED BY <2>1, <2>3 DEF Straight, OnScreen, Place
<1>7. CASE p.code = Csr1
  <2>1. OnScreen(m) /\ p.reg = Place(m) /\ m.high = p.reg \div Byte /\ m.index = 15
    BY <1>2, <1>7 DEF Straight
  <2>2. n = [m EXCEPT !.low = p.reg % Byte] /\ q = Program(p.c, <<>>, p.reg)
    BY <1>1, <1>7, <2>1, StepIs
  <2>3. n.x = m.x /\ n.y = m.y /\ n.high = m.high /\ n.low = p.reg % Byte /\ q.code = <<>>
    BY ONLY m \in Memories, <1>1, <2>2, Fields
  <2>4. (p.reg \div Byte) * Byte + (p.reg % Byte) = p.reg
    BY <1>1, <2>1, PlaceOnScreen, InRegisters
  <2>5. Place(n) = Place(m) /\ OnScreen(n)
    BY <2>1, <2>3 DEF Place, OnScreen
  <2>6. n.high * Byte + n.low = Place(n)
    BY ONLY <2>1, <2>3, <2>4, <2>5
  <2>. QED BY <2>3, <2>5, <2>6 DEF Straight
<1>8. CASE p.code = AtFull
  <2>1. q = Program(p.c, (IF m.y >= H THEN Scroll4 ELSE Csr5), p.reg)
    BY <1>1, <1>8, StepIs
  <2>2. q.code = (IF m.y >= H THEN Scroll4 ELSE Csr5)
    BY ONLY <1>1, <2>1
  <2>. QED BY <1>2, <2>2 DEF Straight
<1>9. CASE p.code = Scroll4
  <2>1. q = Program(p.c, Scroll3, m.y - H + 1)
    BY <1>1, <1>9, StepIs
  <2>2. q.code = Scroll3
    BY ONLY <1>1, <2>1
  <2>. QED BY <1>2, <2>2 DEF Straight
<1>10. CASE p.code = Scroll3
  <2>1. q = Program(p.c, Scroll2, p.reg)
    BY <1>1, <1>10, StepIs
  <2>2. q.code = Scroll2
    BY ONLY <1>1, <2>1
  <2>. QED BY <1>2, <2>2 DEF Straight
<1>11. CASE p.code = Scroll2
  <2>1. q = Program(p.c, Scroll1, p.reg)
    BY <1>1, <1>11, StepIs
  <2>2. q.code = Scroll1
    BY ONLY <1>1, <2>1
  <2>. QED BY <1>2, <2>2 DEF Straight
<1>12. CASE p.code = Scroll1
  <2>1. q = Program(p.c, Csr5, p.reg)
    BY <1>1, <1>12, StepIs
  <2>2. q.code = Csr5
    BY ONLY <1>1, <2>1
  <2>. QED BY <1>2, <2>2 DEF Straight
<1>13. CASE p.code = AtEdge
  <2>1. q = Program(p.c, (IF m.x >= W THEN Wrap3 ELSE AtFull), p.reg)
    BY <1>1, <1>13, StepIs
  <2>2. q.code = (IF m.x >= W THEN Wrap3 ELSE AtFull)
    BY ONLY <1>1, <2>1
  <2>. QED BY <1>2, <2>2 DEF Straight
<1>14. CASE p.code = Wrap3
  <2>1. q = Program(p.c, Wrap2, p.reg)
    BY <1>1, <1>14, StepIs
  <2>2. q.code = Wrap2
    BY ONLY <1>1, <2>1
  <2>. QED BY <1>2, <2>2 DEF Straight
<1>15. CASE p.code = Wrap2
  <2>1. q = Program(p.c, Wrap1, m.y)
    BY <1>1, <1>15, StepIs
  <2>2. q.code = Wrap1
    BY ONLY <1>1, <2>1
  <2>. QED BY <1>2, <2>2 DEF Straight
<1>16. CASE p.code = Wrap1
  <2>1. q = Program(p.c, AtFull, p.reg)
    BY <1>1, <1>16, StepIs
  <2>2. q.code = AtFull
    BY ONLY <1>1, <2>1
  <2>. QED BY <1>2, <2>2 DEF Straight
<1>17. CASE p.code = Line3
  <2>1. q = Program(p.c, Line2, p.reg)
    BY <1>1, <1>17, StepIs
  <2>2. q.code = Line2
    BY ONLY <1>1, <2>1
  <2>. QED BY <1>2, <2>2 DEF Straight
<1>18. CASE p.code = Line2
  <2>1. q = Program(p.c, Line1, m.y)
    BY <1>1, <1>18, StepIs
  <2>2. q.code = Line1
    BY ONLY <1>1, <2>1
  <2>. QED BY <1>2, <2>2 DEF Straight
<1>19. CASE p.code = Line1
  <2>1. q = Program(p.c, AtEdge, p.reg)
    BY <1>1, <1>19, StepIs
  <2>2. q.code = AtEdge
    BY ONLY <1>1, <2>1
  <2>. QED BY <1>2, <2>2 DEF Straight
<1>20. CASE p.code = Home
  <2>1. q = Program(p.c, AtEdge, p.reg)
    BY <1>1, <1>20, StepIs
  <2>2. q.code = AtEdge
    BY ONLY <1>1, <2>1
  <2>. QED BY <1>2, <2>2 DEF Straight
<1>21. CASE p.code = Char4
  <2>1. q = Program(p.c, Char3, Place(m))
    BY <1>1, <1>21, StepIs
  <2>2. q.code = Char3
    BY ONLY <1>1, <2>1
  <2>. QED BY <1>2, <2>2 DEF Straight
<1>22. CASE p.code = Char3
  <2>1. q = Program(p.c, Char2, p.reg)
    BY <1>1, <1>22, StepIs
  <2>2. q.code = Char2
    BY ONLY <1>1, <2>1
  <2>. QED BY <1>2, <2>2 DEF Straight
<1>23. CASE p.code = Char2
  <2>1. q = Program(p.c, Char1, m.x)
    BY <1>1, <1>23, StepIs
  <2>2. q.code = Char1
    BY ONLY <1>1, <2>1
  <2>. QED BY <1>2, <2>2 DEF Straight
<1>24. CASE p.code = Char1
  <2>1. q = Program(p.c, AtEdge, p.reg)
    BY <1>1, <1>24, StepIs
  <2>2. q.code = AtEdge
    BY ONLY <1>1, <2>1
  <2>. QED BY <1>2, <2>2 DEF Straight
<1>25. CASE p.code = Back
  <2>1. q = Program(p.c, (IF m.x # 0 THEN Char2 ELSE AtEdge), p.reg)
    BY <1>1, <1>25, StepIs
  <2>2. q.code = (IF m.x # 0 THEN Char2 ELSE AtEdge)
    BY ONLY <1>1, <2>1
  <2>. QED BY <1>2, <2>2 DEF Straight
<1>. QED BY <1>3, <1>4, <1>5, <1>6, <1>7, <1>8, <1>9, <1>10, <1>11, <1>12, <1>13, <1>14,
            <1>15,
         <1>16, <1>17, <1>18, <1>19, <1>20, <1>21, <1>22, <1>23, <1>24, <1>25 DEF Shapes

-----------------------------------------------------------------------------
(* The recursive functions are what they are meant to be.                  *)

LEMMA Smallest ==
    ASSUME NEW T, T \subseteq Nat, T # {}
    PROVE  \E x \in T : \A y \in T : x <= y
<1>. DEFINE R == {ss \in Nat \X Nat : ss[1] < ss[2]}
<1>1. IsWellFoundedOn(R, Nat)
  BY NatLessThanWellFounded DEF OpToRel
<1>2. PICK x \in T : \A y \in T : ~ (<<y, x>> \in R)
  <2>. HIDE DEF R
  <2>. QED BY <1>1, WFMin
<1>3. \A y \in T : <<y, x>> \in Nat \X Nat
  OBVIOUS
<1>4. \A y \in T : ~(<<y, x>>[1] < <<y, x>>[2])
  BY <1>2, <1>3
<1>5. \A y \in T : ~(y < x)
  BY <1>4
<1>. QED BY <1>5

\* Induction over a set, which the provers can instantiate.
LEMMA Induction ==
    ASSUME NEW T, 0 \in T, \A n \in Nat : n \in T => n + 1 \in T
    PROVE  Nat \subseteq T
<1>. DEFINE Out == Nat \ T
<1>1. SUFFICES ASSUME Out # {}
               PROVE  FALSE
  OBVIOUS
<1>2. PICK x \in Out : \A y \in Out : x <= y
  <2>. HIDE DEF Out
  <2>1. Out \subseteq Nat
    BY DEF Out
  <2>. QED BY <1>1, <2>1, Smallest
<1>3. x # 0 /\ x - 1 \in Nat
  OBVIOUS
<1>4. x - 1 \in T
  BY <1>2, <1>3
<1>5. (x - 1) + 1 \in T
  BY <1>3, <1>4
<1>. QED BY <1>3, <1>5

\* One access, unless the code is through; and what the three functions repeat.
Onward(s) == IF s.pgm.code = <<>> THEN s ELSE Exec(s.mem, s.pgm)
After(what, s, c) == CASE what = "access" -> Onward(s)
                       [] what = "print" -> Finish(s, c)
                       [] what = "type" -> Type(s, c)
Follows(f, what, s, text, k) ==
    f = [n \in 0..k |-> IF n = 0 THEN s ELSE After(what, f[n - 1], text[n])]

LEMMA Extended ==
    ASSUME NEW what, NEW s, NEW text, NEW k \in Nat, NEW f, Follows(f, what, s, text, k)
    PROVE  \E g : Follows(g, what, s, text, k + 1)
<1>. DEFINE g == [n \in 0..(k + 1) |->
                     IF n = k + 1 THEN After(what, f[k], text[k + 1]) ELSE f[n]]
            h == [n \in 0..(k + 1) |->
                     IF n = 0 THEN s ELSE After(what, g[n - 1], text[n])]
<1>1. \A n \in 0..(k + 1) : g[n] = h[n]
  <2>. SUFFICES ASSUME NEW n \in 0..(k + 1)
                PROVE  g[n] = h[n]
    OBVIOUS
  <2>1. CASE n = k + 1
    <3>1. n # 0 /\ n - 1 \in 0..(k + 1) /\ n - 1 # k + 1 /\ n - 1 = k
      BY <2>1
    <3>2. g[n - 1] = f[k]
      BY <3>1
    <3>. QED BY <2>1, <3>1, <3>2
  <2>2. CASE n # k + 1 /\ n = 0
    BY <2>2 DEF Follows
  <2>3. CASE n # k + 1 /\ n # 0
    <3>1. n \in 0..k /\ n - 1 \in 0..(k + 1) /\ n - 1 # k + 1
      BY <2>3
    <3>2. g[n - 1] = f[n - 1] /\ g[n] = f[n]
      BY <2>3, <3>1
    <3>3. f[n] = After(what, f[n - 1], text[n])
      BY <2>3, <3>1 DEF Follows
    <3>. QED BY <2>3, <3>1, <3>2, <3>3
  <2>. QED BY <2>1, <2>2, <2>3
<1>2. g = h
  BY <1>1
<1>. QED BY <1>2 DEF Follows

LEMMA FollowsExists ==
    ASSUME NEW what, NEW s, NEW text, NEW k \in Nat
    PROVE  \E f : Follows(f, what, s, text, k)
<1>. DEFINE T == {n \in Nat : \E f : Follows(f, what, s, text, n)}
<1>1. 0 \in T
  <2>. DEFINE f == [n \in 0..0 |-> s]
  <2>1. f = [n \in 0..0 |-> IF n = 0 THEN s ELSE After(what, f[n - 1], text[n])]
    OBVIOUS
  <2>. QED BY <2>1 DEF Follows
<1>2. ASSUME NEW n \in Nat, n \in T
      PROVE  n + 1 \in T
  BY <1>2, Extended
<1>. HIDE DEF T
<1>3. k \in T
  BY <1>1, <1>2, Induction
<1>. QED BY <1>3 DEF T

Started(m, c) == [mem |-> m, pgm |-> [c |-> c, code |-> kputch(c), reg |-> 0]]
Runs(m, c) ==
    LET run[n \in 0..Longest] ==
            IF n = 0 THEN [mem |-> m, pgm |-> [c |-> c, code |-> kputch(c), reg |-> 0]]
            ELSE LET s == run[n - 1]
                 IN IF s.pgm.code = <<>> THEN s ELSE Exec(s.mem, s.pgm)
    IN run
Prints(m, text) ==
    LET after[n \in 0..Len(text)] == IF n = 0 THEN m
                                     ELSE Finish(after[n - 1], text[n])
    IN after
Types(p, text) == LET after[n \in 0..Len(text)] ==
                          IF n = 0 THEN p ELSE Type(after[n - 1], text[n])
                  IN after

LEMMA RunsFollow ==
    ASSUME NEW m, NEW c
    PROVE  /\ Finish(m, c) = Runs(m, c)[Longest].mem
           /\ Follows(Runs(m, c), "access", Started(m, c), <<>>, Longest)
<1>. DEFINE G(f) == [n \in 0..Longest |->
                IF n = 0 THEN [mem |-> m, pgm |-> [c |-> c, code |-> kputch(c), reg |-> 0]]
                ELSE LET s == f[n - 1]
                     IN IF s.pgm.code = <<>> THEN s ELSE Exec(s.mem, s.pgm)]
            F(f) == [n \in 0..Longest |-> IF n = 0 THEN Started(m, c)
                         ELSE After("access", f[n - 1], <<>>[n])]
<1>1. ASSUME NEW f PROVE G(f) = F(f)
  BY DEF Started, After, Onward
<1>2. \E f : f = G(f)
  <2>1. PICK f : Follows(f, "access", Started(m, c), <<>>, Longest)
    BY FollowsExists DEF Longest
  <2>2. f = F(f)
    BY <2>1 DEF Follows
  <2>3. G(f) = F(f)
    BY <1>1
  <2>. HIDE DEF G, F
  <2>4. f = G(f)
    BY <2>2, <2>3
  <2>. QED BY <2>4
<1>3. Runs(m, c) = CHOOSE g : g = G(g)
  BY DEF Runs
<1>4. Finish(m, c) = Runs(m, c)[Longest].mem
  BY DEF Runs, Finish
<1>. HIDE DEF G
<1>5. Runs(m, c) = G(Runs(m, c))
  BY <1>2, <1>3
<1>. QED BY <1>1, <1>4, <1>5 DEF Follows

LEMMA PrintsFollow ==
    ASSUME NEW m, NEW text, Len(text) \in Nat
    PROVE  /\ kputs(m, text) = Prints(m, text)[Len(text)]
           /\ Follows(Prints(m, text), "print", m, text, Len(text))
<1>. DEFINE G(f) == [n \in 0..Len(text) |-> IF n = 0 THEN m
                         ELSE Finish(f[n - 1], text[n])]
            F(f) == [n \in 0..Len(text) |-> IF n = 0 THEN m
                         ELSE After("print", f[n - 1], text[n])]
<1>1. ASSUME NEW f PROVE G(f) = F(f)
  BY DEF After
<1>2. \E f : f = G(f)
  <2>1. PICK f : Follows(f, "print", m, text, Len(text))
    BY FollowsExists
  <2>2. f = F(f)
    BY <2>1 DEF Follows
  <2>3. G(f) = F(f)
    BY <1>1
  <2>. HIDE DEF G, F
  <2>4. f = G(f)
    BY <2>2, <2>3
  <2>. QED BY <2>4
<1>3. Prints(m, text) = CHOOSE g : g = G(g)
  BY DEF Prints
<1>4. kputs(m, text) = Prints(m, text)[Len(text)]
  BY DEF Prints, kputs
<1>. HIDE DEF G
<1>5. Prints(m, text) = G(Prints(m, text))
  BY <1>2, <1>3
<1>. QED BY <1>1, <1>4, <1>5 DEF Follows

LEMMA TypesFollow ==
    ASSUME NEW p, NEW text, Len(text) \in Nat
    PROVE  /\ TypeAll(p, text) = Types(p, text)[Len(text)]
           /\ Follows(Types(p, text), "type", p, text, Len(text))
<1>. DEFINE G(f) == [n \in 0..Len(text) |-> IF n = 0 THEN p
                         ELSE Type(f[n - 1], text[n])]
            F(f) == [n \in 0..Len(text) |-> IF n = 0 THEN p
                         ELSE After("type", f[n - 1], text[n])]
<1>1. ASSUME NEW f PROVE G(f) = F(f)
  BY DEF After
<1>2. \E f : f = G(f)
  <2>1. PICK f : Follows(f, "type", p, text, Len(text))
    BY FollowsExists
  <2>2. f = F(f)
    BY <2>1 DEF Follows
  <2>3. G(f) = F(f)
    BY <1>1
  <2>. HIDE DEF G, F
  <2>4. f = G(f)
    BY <2>2, <2>3
  <2>. QED BY <2>4
<1>3. Types(p, text) = CHOOSE g : g = G(g)
  BY DEF Types
<1>4. TypeAll(p, text) = Types(p, text)[Len(text)]
  BY DEF Types, TypeAll
<1>. HIDE DEF G
<1>5. Types(p, text) = G(Types(p, text))
  BY <1>2, <1>3
<1>. QED BY <1>1, <1>4, <1>5 DEF Follows

-----------------------------------------------------------------------------
(* What the screen shows *)

Columns == 0..(W - 1)
Rows == 0..(H - 1)
Papers == [lines : Seq([Columns -> Printable]) \ {<<>>}, x : Nat]

\* Cells and cursor x, y show the lines of paper p below the first a.
Shows(cell, x, y, p, a) ==
    /\ a \in Nat /\ x = p.x /\ y = Size(p.lines) - a - 1 /\ y <= H
    /\ a > 0 => y >= H - 1
    /\ y = H => p.lines[Size(p.lines)] = EmptyLine
    /\ \A r \in Rows, i \in Columns :
          cell[r * W + i] = IF a + r + 1 > Size(p.lines) THEN Blank
                            ELSE p.lines[a + r + 1][i]

\* The same, if the cursor may be beside the line and its wrapping is to come.
EdgeShows(cell, x, y, p, a) == \/ x < W /\ Shows(cell, x, y, p, a)
                               \/ x = W /\ Shows(cell, 0, y + 1, p, a)

LEMMA Sized ==
    ASSUME NEW p \in Papers
    PROVE  /\ Size(p.lines) \in Nat \ {0} /\ p.x \in Nat
           /\ p.lines \in Seq([Columns -> Printable])
           /\ \A k \in 1..Size(p.lines) : p.lines[k] \in [Columns -> Printable]
<1>1. p.lines \in Seq([Columns -> Printable]) /\ p.lines # <<>> /\ p.x \in Nat
  BY DEF Papers
<1>2. Len(p.lines) \in Nat /\ Len(p.lines) # 0
  BY <1>1
<1>3. \A k \in 1..Len(p.lines) : p.lines[k] \in [Columns -> Printable]
  BY <1>1
<1>. QED BY <1>1, <1>2, <1>3 DEF Size

\* A row and a column have a cell of their own.
LEMMA OwnCell ==
    ASSUME NEW r \in Nat, NEW s \in Nat, NEW i \in Columns, NEW j \in Columns,
           r * W + i = s * W + j
    PROVE  r = s /\ i = j
<1>1. W \in Nat \ {0} /\ i \in Nat /\ j \in Nat /\ i < W /\ j < W
  BY Sizes DEF Columns
<1>2. ASSUME NEW a \in Nat, NEW b \in Nat, NEW k \in Columns, NEW l \in Columns, a < b
      PROVE  a * W + k < b * W + l
  <2>1. a + 1 <= b /\ a + 1 \in Nat /\ k \in Nat /\ l \in Nat /\ k < W
    BY <1>1, <1>2 DEF Columns
  <2>2. (a + 1) * W <= b * W
    BY <1>1, <2>1, Monotone
  <2>3. (a + 1) * W = a * W + W
    BY <1>1, RowsApart
  <2>4. a * W \in Nat /\ b * W \in Nat
    BY <1>1
  <2>. QED BY <1>1, <2>1, <2>2, <2>3, <2>4
<1>3. ~(r < s) /\ ~(s < r)
  <2>1. r * W + i \in Nat /\ s * W + j \in Nat
    BY <1>1
  <2>. QED BY <1>2, <2>1
<1>4. r = s
  BY <1>3
<1>5. r * W \in Nat
  BY <1>1
<1>. QED BY <1>1, <1>4, <1>5

LEMMA CellOf ==
    ASSUME NEW r \in Nat, r <= H + 1, NEW i \in Columns
    PROVE  /\ r * W + i \in Cells /\ (r * W + i) \div W = r
           /\ (r + 1) * W + i = (r * W + i) + 1 * W
           /\ r < H - 1 <=> r * W + i < (H - 1) * W
<1>1. W \in Nat \ {0} /\ H \in Nat \ {0} /\ i \in Nat /\ i < W
  BY Sizes DEF Columns
<1>2. r * W \in Nat /\ (r + 1) * W = r * W + W /\ 1 * W = W
  BY <1>1, RowsApart
<1>3. r * W + i \in Cells
  <2>1. (r + 1) * W <= (H + 2) * W
    BY <1>1, Monotone
  <2>2. (H + 2) * W \in Nat
    BY <1>1
  <2>. QED BY <1>1, <1>2, <2>1, <2>2 DEF Cells
<1>4. (r * W + i) \div W = r
  <2>. DEFINE v == r * W + i
              d == v \div W
              k == v % W
  <2>1. v \in Nat
    BY <1>1, <1>2
  <2>2. d \in Nat /\ k \in 0..(W - 1) /\ v = d * W + k
    <3>1. \A n \in Nat \ {0} : /\ v \div n \in Nat /\ v % n \in 0..(n - 1)
                               /\ v = (v \div n) * n + (v % n)
      BY <2>1, DivMod
    <3>. QED BY <1>1, <3>1
  <2>. HIDE DEF d, k
  <2>3. d * W + k = r * W + i /\ k \in Columns
    BY <2>2 DEF Columns
  <2>4. d = r
    BY <2>2, <2>3, OwnCell
  <2>. QED BY <2>4 DEF d
<1>5. r < H - 1 => r * W + i < (H - 1) * W
  <2>1. ASSUME r < H - 1 PROVE (r + 1) * W <= (H - 1) * W
    <3>1. r + 1 \in Nat /\ H - 1 \in Nat /\ r + 1 <= H - 1
      BY <1>1, <2>1
    <3>. QED BY <1>1, <3>1, Monotone
  <2>2. (H - 1) * W \in Int
    BY <1>1
  <2>. QED BY <1>1, <1>2, <2>1, <2>2
<1>6. r >= H - 1 => (H - 1) * W <= r * W
  BY <1>1, Monotone
<1>7. (H - 1) * W \in Int
  BY <1>1
<1>. QED BY <1>1, <1>2, <1>3, <1>4, <1>5, <1>6, <1>7

LEMMA EmptyLineIs == /\ EmptyLine \in [Columns -> Printable]
                     /\ \A i \in Columns : EmptyLine[i] = Blank
BY ConsoleAssumption DEF ConsoleAssumption, EmptyLine, Columns

\* A new line below the others.
LEMMA NewLineShows ==
    ASSUME NEW p \in Papers, NEW cell, NEW x, NEW y \in Nat, NEW a,
           Shows(cell, x, y, p, a), y < H
    PROVE  NewLine(p) \in Papers /\ NewLine(p).x = 0 /\ Shows(cell, 0, y + 1, NewLine(p), a)
<1>. DEFINE q == NewLine(p)
            n == Size(p.lines)
<1>1. /\ n \in Nat \ {0} /\ p.lines \in Seq([Columns -> Printable])
  BY Sized
<1>2. q.x = 0 /\ q.lines = Append(p.lines, EmptyLine)
  BY DEF NewLine
<1>3. /\ q.lines \in Seq([Columns -> Printable]) /\ Len(q.lines) = Len(p.lines) + 1
      /\ q.lines[Len(p.lines) + 1] = EmptyLine
      /\ \A k \in 1..Len(p.lines) : q.lines[k] = p.lines[k]
  BY <1>1, <1>2, EmptyLineIs
<1>4. /\ Size(q.lines) = n + 1 /\ q.lines[n + 1] = EmptyLine
      /\ \A k \in 1..n : q.lines[k] = p.lines[k]
  BY <1>3 DEF Size
<1>5. q.lines # <<>>
  BY <1>1, <1>4 DEF Size
<1>6. q \in Papers
  BY <1>2, <1>3, <1>5 DEF NewLine, Papers
<1>. HIDE DEF q, n
<1>7. /\ a \in Nat /\ y = n - a - 1 /\ (a > 0 => y >= H - 1)
      /\ \A r \in Rows, i \in Columns :
            cell[r * W + i] = IF a + r + 1 > n THEN Blank ELSE p.lines[a + r + 1][i]
  BY DEF Shows, n
<1>8. ASSUME NEW r \in Rows, NEW i \in Columns
      PROVE  cell[r * W + i] = IF a + r + 1 > n + 1 THEN Blank ELSE q.lines[a + r + 1][i]
  <2>1. r \in Nat
    BY Sizes DEF Rows
  <2>2. CASE a + r + 1 > n + 1
    BY <1>1, <1>7, <2>1, <2>2
  <2>3. CASE a + r + 1 = n + 1
    BY <1>1, <1>4, <1>7, <2>1, <2>3, EmptyLineIs
  <2>4. CASE a + r + 1 < n + 1
    <3>1. a + r + 1 \in 1..n
      BY <1>1, <1>7, <2>1, <2>4
    <3>. QED BY <1>1, <1>4, <1>7, <3>1
  <2>. QED BY <1>1, <1>7, <2>1, <2>2, <2>3, <2>4
<1>9. y + 1 = (n + 1) - a - 1 /\ y + 1 <= H /\ (a > 0 => y + 1 >= H - 1)
  BY <1>1, <1>7, Sizes
<1>10. Shows(cell, 0, y + 1, q, a)
  BY ZenonT(30), <1>2, <1>4, <1>7, <1>8, <1>9 DEF Shows
<1>. QED BY <1>2, <1>6, <1>10 DEF q

\* The cursor moves in its line.
LEMMA MoveShows ==
    ASSUME NEW p \in Papers, NEW cell, NEW x, NEW y \in Nat, NEW a, NEW z \in Nat,
           Shows(cell, x, y, p, a)
    PROVE  /\ [p EXCEPT !.x = z] \in Papers /\ [p EXCEPT !.x = z].x = z
           /\ Shows(cell, z, y, [p EXCEPT !.x = z], a)
<1>. DEFINE q == [p EXCEPT !.x = z]
<1>1. q \in Papers /\ q.x = z /\ q.lines = p.lines
  BY DEF Papers
<1>. HIDE DEF q
<1>2. Shows(cell, z, y, q, a)
  BY <1>1 DEF Shows
<1>. QED BY <1>1, <1>2 DEF q

\* A character in the last line.
Put(p, c) == [lines |-> [p.lines EXCEPT ![Len(p.lines)][p.x] = c], x |-> p.x + 1]

LEMMA PutShows ==
    ASSUME NEW p \in Papers, NEW cell \in [Cells -> Printable], NEW y \in Nat, NEW a,
           NEW c \in Printable, p.x < W, y < H, Shows(cell, p.x, y, p, a)
    PROVE  /\ Put(p, c) \in Papers /\ Put(p, c).x = p.x + 1
           /\ Shows([cell EXCEPT ![y * W + p.x] = c], p.x + 1, y, Put(p, c), a)
<1>. DEFINE q == Put(p, c)
            n == Size(p.lines)
            d == [cell EXCEPT ![y * W + p.x] = c]
<1>1. /\ n \in Nat \ {0} /\ p.lines \in Seq([Columns -> Printable]) /\ p.x \in Columns
      /\ p.lines[n] \in [Columns -> Printable]
  BY Sized, Sizes DEF Columns
<1>2. q.x = p.x + 1 /\ q.lines = [p.lines EXCEPT ![n] = [p.lines[n] EXCEPT ![p.x] = c]]
  BY DEF Put, Size
<1>3. /\ q.lines \in Seq([Columns -> Printable]) /\ Len(q.lines) = Len(p.lines)
      /\ \A k \in 1..Len(p.lines) : q.lines[k] = IF k = n THEN [p.lines[n] EXCEPT ![p.x] = c]
                                                 ELSE p.lines[k]
  <2>1. [p.lines[n] EXCEPT ![p.x] = c] \in [Columns -> Printable]
    BY <1>1
  <2>2. n = Len(p.lines)
    BY DEF Size
  <2>. HIDE DEF n
  <2>. QED BY <1>1, <1>2, <2>1, <2>2
<1>4. /\ Size(q.lines) = n
      /\ \A k \in 1..n : q.lines[k] = IF k = n THEN [p.lines[n] EXCEPT ![p.x] = c]
                                      ELSE p.lines[k]
  BY <1>3 DEF Size
<1>5. q.lines # <<>>
  BY <1>1, <1>4 DEF Size
<1>6. q \in Papers
  BY <1>1, <1>2, <1>3, <1>5 DEF Put, Papers
<1>. HIDE DEF q, n
<1>7. /\ a \in Nat /\ y = n - a - 1 /\ (a > 0 => y >= H - 1)
      /\ \A r \in Rows, i \in Columns :
            cell[r * W + i] = IF a + r + 1 > n THEN Blank ELSE p.lines[a + r + 1][i]
  BY DEF Shows, n
<1>8. ASSUME NEW r \in Rows, NEW i \in Columns
      PROVE  d[r * W + i] = IF a + r + 1 > n THEN Blank ELSE q.lines[a + r + 1][i]
  <2>1. r \in Nat /\ r <= H + 1
    BY Sizes DEF Rows
  <2>2. r * W + i \in Cells
    BY <2>1, CellOf
  <2>3. CASE r * W + i = y * W + p.x
    <3>1. r = y /\ i = p.x
      BY <1>1, <2>1, <2>3, OwnCell
    <3>2. a + r + 1 = n /\ n \in 1..n
      BY <1>1, <1>7, <3>1
    <3>3. d[r * W + i] = c
      BY <2>2, <2>3
    <3>4. q.lines[n] = [p.lines[n] EXCEPT ![p.x] = c]
      BY <1>4, <3>2
    <3>5. q.lines[n][i] = c
      BY <1>1, <3>1, <3>4
    <3>. QED BY <1>1, <3>2, <3>3, <3>5
  <2>4. CASE r * W + i # y * W + p.x
    <3>1. d[r * W + i] = cell[r * W + i]
      BY <2>2, <2>4
    <3>2. r # y \/ i # p.x
      BY <2>4
    <3>3. CASE a + r + 1 > n
      BY <1>7, <3>1, <3>3
    <3>4. CASE ~(a + r + 1 > n) /\ r = y
      <4>1. a + r + 1 = n /\ i # p.x /\ n \in 1..n
        BY <1>1, <1>7, <3>2, <3>4
      <4>2. q.lines[n] = [p.lines[n] EXCEPT ![p.x] = c]
        BY <1>4, <4>1
      <4>3. q.lines[n][i] = p.lines[n][i]
        BY <1>1, <4>1, <4>2
      <4>. QED BY <1>7, <3>1, <3>4, <4>1, <4>3
    <3>5. CASE ~(a + r + 1 > n) /\ r # y
      <4>1. a + r + 1 \in 1..n /\ a + r + 1 # n
        BY <1>1, <1>7, <2>1, <3>5
      <4>2. q.lines[a + r + 1] = p.lines[a + r + 1]
        BY <1>4, <4>1
      <4>. QED BY <1>7, <3>1, <3>5, <4>2
    <3>. QED BY <3>3, <3>4, <3>5
  <2>. QED BY <2>3, <2>4
<1>. HIDE DEF d
<1>9. Shows(d, p.x + 1, y, q, a)
  BY <1>2, <1>4, <1>7, <1>8, Sizes DEF Shows
<1>. QED BY <1>2, <1>6, <1>9 DEF q, d

\* Scrolling by one line.
LEMMA ScrollShows ==
    ASSUME NEW m \in Memories, NEW p \in Papers, NEW x, NEW a, Shows(m.cell, x, H, p, a),
           NEW k \in Memories, k.cell = Copied(m, 1)
    PROVE  Shows(Blanked(k, 1), x, H - 1, p, a + 1)
<1>. DEFINE n == Size(p.lines)
            d == Blanked(k, 1)
<1>1. n \in Nat \ {0} /\ H \in Nat \ {0} /\ H > 1
  BY Sized, Sizes
<1>. HIDE DEF n
<1>2. /\ a \in Nat /\ x = p.x /\ H = n - a - 1 /\ p.lines[n] = EmptyLine
      /\ \A r \in Rows, i \in Columns :
            m.cell[r * W + i] = IF a + r + 1 > n THEN Blank ELSE p.lines[a + r + 1][i]
  BY DEF Shows, n
<1>3. ASSUME NEW r \in Rows, NEW i \in Columns
      PROVE  d[r * W + i] = IF (a + 1) + r + 1 > n THEN Blank
                            ELSE p.lines[(a + 1) + r + 1][i]
  <2>1. r \in Nat /\ r <= H + 1 /\ r <= H - 1
    BY <1>1 DEF Rows
  <2>2. /\ r * W + i \in Cells /\ (r * W + i) \div W = r
        /\ (r + 1) * W + i = (r * W + i) + 1 * W
        /\ r < H - 1 <=> r * W + i < (H - 1) * W
    BY <2>1, CellOf
  <2>3. CASE r = H - 1
    <3>1. d[r * W + i] = Blank
      BY <2>2, <2>3 DEF Blanked
    <3>2. (a + 1) + r + 1 = n
      BY <1>1, <1>2, <2>3
    <3>. QED BY <1>1, <1>2, <3>1, <3>2, EmptyLineIs
  <2>4. CASE r < H - 1
    <3>1. d[r * W + i] = k.cell[r * W + i]
      BY <1>1, <2>1, <2>2, <2>4 DEF Blanked
    <3>2. k.cell[r * W + i] = m.cell[(r + 1) * W + i]
      BY <2>2, <2>4 DEF Copied
    <3>3. r + 1 \in Rows
      BY <1>1, <2>1, <2>4 DEF Rows
    <3>4. m.cell[(r + 1) * W + i] = IF a + (r + 1) + 1 > n THEN Blank
                                    ELSE p.lines[a + (r + 1) + 1][i]
      BY <1>2, <3>3
    <3>5. a + (r + 1) + 1 = (a + 1) + r + 1
      BY <1>2, <2>1
    <3>. QED BY <3>1, <3>2, <3>4, <3>5
  <2>. QED BY <1>1, <2>1, <2>3, <2>4
<1>. HIDE DEF d
<1>4. a + 1 \in Nat /\ H - 1 = n - (a + 1) - 1 /\ H - 1 <= H /\ H - 1 # H
  BY <1>1, <1>2
<1>5. Shows(d, x, H - 1, p, a + 1)
  BY <1>1, <1>2, <1>3, <1>4 DEF Shows, n
<1>. QED BY <1>5 DEF d

LEMMA WrapShows ==
    ASSUME NEW u \in Papers, NEW cell, NEW y \in Nat, NEW a, u.x <= W, y < H,
           Shows(cell, u.x, y, u, a)
    PROVE  Wrapped(u) \in Papers /\ EdgeShows(cell, u.x, y, Wrapped(u), a)
<1>1. u.x \in Nat /\ W \in Nat
  BY Sized, Sizes
<1>2. CASE u.x < W
  <2>1. Wrapped(u) = u
    BY <1>1, <1>2 DEF Wrapped
  <2>. QED BY <1>2, <2>1 DEF EdgeShows
<1>3. CASE u.x = W
  <2>1. Wrapped(u) = NewLine(u)
    BY <1>1, <1>3 DEF Wrapped
  <2>2. NewLine(u) \in Papers /\ Shows(cell, 0, y + 1, NewLine(u), a)
    BY NewLineShows
  <2>. QED BY <1>3, <2>1, <2>2 DEF EdgeShows
<1>. QED BY <1>1, <1>2, <1>3

\* What a character does to the paper is what its kputch is to do to the screen.
LEMMA TypeShows ==
    ASSUME NEW m \in Memories, NEW p \in Papers, NEW a, Shows(m.cell, m.x, m.y, p, a),
           OnScreen(m), NEW c \in Printable \cup Controls, NEW q, q = Type(p, c)
    PROVE  /\ q \in Papers
           /\ c \in Printable
              => EdgeShows([m.cell EXCEPT ![Place(m)] = c], Advance(c, m.x), m.y, q, a)
           /\ c = "tab" => EdgeShows(m.cell, Advance(c, m.x), m.y, q, a)
           /\ c = "nl" => Shows(m.cell, 0, m.y + 1, q, a)
           /\ c = "cr" => Shows(m.cell, 0, m.y, q, a)
           /\ c = "back" /\ m.x # 0 => EdgeShows(m.cell, Advance(c, m.x), m.y, q, a)
           /\ c = "back" /\ m.x = 0 => Shows(m.cell, 0, m.y, q, a)
<1>1. /\ m.x \in Nat /\ m.y \in Nat /\ m.x < W /\ m.y < H /\ p.x = m.x
      /\ W \in Nat \ {0} /\ H \in Nat /\ m.cell \in [Cells -> Printable]
  BY Sizes DEF Memories, OnScreen, Shows
<1>2. /\ "back" \notin Printable /\ "tab" \notin Printable /\ "cr" \notin Printable
      /\ "nl" \notin Printable
  BY ConsoleAssumption DEF ConsoleAssumption, Controls
<1>3. CASE c \in Printable
  <2>. DEFINE u == Put(p, c)
              cell == [m.cell EXCEPT ![m.y * W + p.x] = c]
  <2>1. u \in Papers /\ u.x = p.x + 1 /\ Shows(cell, p.x + 1, m.y, u, a)
    BY <1>1, <1>3, PutShows
  <2>2. q = Wrapped(u)
    BY <1>2, <1>3 DEF Type, Put
  <2>3. cell = [m.cell EXCEPT ![Place(m)] = c]
    BY <1>1 DEF Place
  <2>4. Advance(c, m.x) = u.x
    BY <1>1, <1>3, <2>1, Advanced
  <2>. HIDE DEF u, cell
  <2>5. u.x <= W
    BY <1>1, <2>1
  <2>6. Wrapped(u) \in Papers /\ EdgeShows(cell, u.x, m.y, Wrapped(u), a)
    BY <1>1, <2>1, <2>5, WrapShows
  <2>. QED BY <1>2, <1>3, <2>2, <2>3, <2>4, <2>6
<1>4. CASE c = "tab"
  <2>. DEFINE z == Advance("tab", m.x)
              u == [p EXCEPT !.x = z]
  <2>1. z \in Nat /\ z <= W /\ z = (m.x \div TabStop + 1) * TabStop
    BY <1>1, Advanced
  <2>2. z = p.x + TabStop - (p.x % TabStop)
    <3>1. TabStop \in Nat \ {0}
      BY Sizes
    <3>2. \A n \in Nat \ {0} : /\ m.x \div n \in Nat /\ m.x % n \in 0..(n - 1)
                               /\ m.x = (m.x \div n) * n + (m.x % n)
      BY <1>1, DivMod
    <3>3. (m.x \div TabStop + 1) * TabStop = (m.x \div TabStop) * TabStop + TabStop
      BY <3>1, <3>2, RowsApart
    <3>4. (m.x \div TabStop) * TabStop \in Nat
      BY <3>1, <3>2
    <3>. HIDE DEF z
    <3>. QED BY <1>1, <2>1, <3>1, <3>2, <3>3, <3>4
  <2>. HIDE DEF z
  <2>3. u \in Papers /\ u.x = z /\ Shows(m.cell, z, m.y, u, a)
    BY <1>1, <2>1, MoveShows
  <2>4. q = Wrapped(u)
    BY <1>2, <1>4, <2>2 DEF Type
  <2>. HIDE DEF u
  <2>5. Wrapped(u) \in Papers /\ EdgeShows(m.cell, u.x, m.y, Wrapped(u), a)
    BY <1>1, <2>1, <2>3, WrapShows
  <2>. QED BY <1>2, <1>4, <2>3, <2>4, <2>5 DEF z
<1>5. CASE c = "nl"
  <2>1. /\ NewLine(p) \in Papers /\ NewLine(p).x = 0
        /\ Shows(m.cell, 0, m.y + 1, NewLine(p), a)
    BY <1>1, NewLineShows
  <2>2. q = Wrapped(NewLine(p))
    BY <1>2, <1>5 DEF Type
  <2>3. q = NewLine(p)
    BY <1>1, <2>1, <2>2 DEF Wrapped
  <2>. QED BY <1>2, <1>5, <2>1, <2>3
<1>6. CASE c = "cr"
  <2>. DEFINE u == [p EXCEPT !.x = 0]
  <2>1. u \in Papers /\ u.x = 0 /\ Shows(m.cell, 0, m.y, u, a)
    BY <1>1, MoveShows
  <2>2. q = Wrapped(u)
    BY <1>2, <1>6 DEF Type
  <2>. HIDE DEF u
  <2>3. q = u
    BY <1>1, <2>1, <2>2 DEF Wrapped
  <2>. QED BY <1>2, <1>6, <2>1, <2>3
<1>7. CASE c = "back"
  <2>. DEFINE z == IF p.x = 0 THEN 0 ELSE p.x - 1
              u == [p EXCEPT !.x = z]
  <2>1. z \in Nat /\ z < W /\ z <= W
    BY <1>1
  <2>2. q = Wrapped(u)
    BY <1>2, <1>7 DEF Type
  <2>3. (m.x = 0 => z = 0) /\ (m.x # 0 => z = Advance("back", m.x))
    <3>1. m.x # 0 => m.x \in 1..W
      BY <1>1
    <3>2. m.x \in 1..W => Advance("back", m.x) = m.x - 1
      BY <1>1, Advanced
    <3>. QED BY <1>1, <3>1, <3>2
  <2>. HIDE DEF z
  <2>4. u \in Papers /\ u.x = z /\ Shows(m.cell, z, m.y, u, a)
    BY <1>1, <2>1, MoveShows
  <2>. HIDE DEF u
  <2>5. q = u
    BY <1>1, <2>1, <2>2, <2>4 DEF Wrapped
  <2>. QED BY <1>2, <1>7, <2>1, <2>3, <2>4, <2>5 DEF EdgeShows
<1>. QED BY <1>3, <1>4, <1>5, <1>6, <1>7 DEF Controls

\* When p is through, the screen will show paper t below its first a lines.
Scrolled(m) == Blanked([m EXCEPT !.cell = Copied(m, 1)], 1)
Pictured(m, p, t, a) ==
    \/ p.code \in {<<>>, Csr1, Csr2, Csr3, Csr4, Csr5} /\ m.y < H /\ Shows(m.cell, m.x, m.y, t, a)
    \/ p.code = AtFull /\ Shows(m.cell, m.x, m.y, t, a)
    \/ p.code = Scroll4 /\ m.y = H /\ Shows(Scrolled(m), m.x, H - 1, t, a)
    \/ p.code = Scroll3 /\ p.reg = 1 /\ Shows(Scrolled(m), m.x, H - 1, t, a)
    \/ p.code = Scroll2 /\ p.reg = 1 /\ Shows(Blanked(m, 1), m.x, H - 1, t, a)
    \/ p.code = Scroll1 /\ Shows(m.cell, m.x, H - 1, t, a)
    \/ p.code = Wrap1 /\ Shows(m.cell, m.x, p.reg + 1, t, a)
    \/ p.code = Wrap2 /\ Shows(m.cell, m.x, m.y + 1, t, a)
    \/ p.code = Wrap3 /\ Shows(m.cell, 0, m.y + 1, t, a)
    \/ p.code = AtEdge /\ EdgeShows(m.cell, m.x, m.y, t, a)
    \/ p.code = Line1 /\ m.x = 0 /\ Shows(m.cell, 0, p.reg + 1, t, a)
    \/ p.code = Line2 /\ m.x = 0 /\ Shows(m.cell, 0, m.y + 1, t, a)
    \/ p.code = Line3 /\ Shows(m.cell, 0, m.y + 1, t, a)
    \/ p.code = Home /\ Shows(m.cell, 0, m.y, t, a)
    \/ p.code = Char1 /\ EdgeShows(m.cell, Advance(p.c, p.reg), m.y, t, a)
    \/ p.code = Char2 /\ EdgeShows(m.cell, Advance(p.c, m.x), m.y, t, a)
    \/ p.code = Char3 /\ EdgeShows([m.cell EXCEPT ![p.reg] = p.c], Advance(p.c, m.x), m.y, t, a)
    \/ p.code = Char4 /\ EdgeShows([m.cell EXCEPT ![Place(m)] = p.c], Advance(p.c, m.x), m.y, t, a)
    \/ p.code = Back /\ m.x # 0 /\ EdgeShows(m.cell, Advance(p.c, m.x), m.y, t, a)
    \/ p.code = Back /\ m.x = 0 /\ Shows(m.cell, 0, m.y, t, a)

LEMMA PicturedStep ==
    ASSUME NEW m \in Memories, NEW p \in Programs, NEW t \in Papers, NEW a, Pictured(m, p, t, a),
           p.code # <<>>, NEW n, n = Exec(m, p).mem, NEW q, q = Exec(m, p).pgm
    PROVE  \E b : Pictured(n, q, t, b)
<1>1. /\ p = Program(p.c, p.code, p.reg) /\ p.reg \in Nat
      /\ \A s, v : LET k == Program(p.c, s, v)
                 IN k.c = p.c /\ k.code = s /\ k.reg = v
  BY Typed
<1>2. m.x \in Nat /\ m.y \in Nat /\ W \in Nat \ {0} /\ H \in Nat /\ H > 1
  BY Sizes DEF Memories
<1>3. CASE /\ p.code \in {Csr1, Csr2, Csr3, Csr4, Csr5} /\ m.y < H
           /\ Shows(m.cell, m.x, m.y, t, a)
  <2>2. /\ n.x = m.x /\ n.y = m.y /\ n.cell = m.cell
        /\ q.code \in {<<>>, Csr1, Csr2, Csr3, Csr4}
    <3>1. CASE p.code = Csr1
      <4>1. /\ n = (IF m.index = 15 THEN [m EXCEPT !.low = p.reg % Byte]
                 ELSE [m EXCEPT !.high = p.reg % Byte])
            /\ q = Program(p.c, <<>>, p.reg)
        BY <1>1, <3>1, StepIs
      <4>2. n.x = m.x /\ n.y = m.y /\ n.cell = m.cell /\ q.code = <<>>
        BY ONLY m \in Memories, <1>1, <4>1, Fields
      <4>. QED BY <4>2
    <3>2. CASE p.code = Csr2
      <4>1. /\ n = [m EXCEPT !.index = 15]
            /\ q = Program(p.c, Csr1, p.reg)
        BY <1>1, <3>2, StepIs
      <4>2. n.x = m.x /\ n.y = m.y /\ n.cell = m.cell /\ q.code = Csr1
        BY ONLY m \in Memories, <1>1, <4>1, Fields
      <4>. QED BY <4>2
    <3>3. CASE p.code = Csr3
      <4>1. /\ n = (IF m.index = 14 THEN [m EXCEPT !.high = p.reg \div Byte]
                 ELSE [m EXCEPT !.low = p.reg \div Byte])
            /\ q = Program(p.c, Csr2, p.reg)
        BY <1>1, <3>3, StepIs
      <4>2. n.x = m.x /\ n.y = m.y /\ n.cell = m.cell /\ q.code = Csr2
        BY ONLY m \in Memories, <1>1, <4>1, Fields
      <4>. QED BY <4>2
    <3>4. CASE p.code = Csr4
      <4>1. /\ n = [m EXCEPT !.index = 14]
            /\ q = Program(p.c, Csr3, p.reg)
        BY <1>1, <3>4, StepIs
      <4>2. n.x = m.x /\ n.y = m.y /\ n.cell = m.cell /\ q.code = Csr3
        BY ONLY m \in Memories, <1>1, <4>1, Fields
      <4>. QED BY <4>2
    <3>5. CASE p.code = Csr5
      <4>1. /\ n = m
            /\ q = Program(p.c, Csr4, Place(m))
        BY <1>1, <3>5, StepIs
      <4>2. n.x = m.x /\ n.y = m.y /\ n.cell = m.cell /\ q.code = Csr4
        BY ONLY m \in Memories, <1>1, <4>1
      <4>. QED BY <4>2
    <3>. QED BY <1>3, <3>1, <3>2, <3>3, <3>4, <3>5
  <2>. QED BY <1>3, <2>2 DEF Pictured
<1>4. CASE p.code = AtFull /\ Shows(m.cell, m.x, m.y, t, a)
  <2>1. /\ n = m
        /\ q = Program(p.c, IF m.y >= H THEN Scroll4 ELSE Csr5, p.reg)
    BY <1>1, <1>4, StepIs
  <2>2. /\ n.x = m.x /\ n.y = m.y /\ n.cell = m.cell
        /\ q.c = p.c /\ q.code = (IF m.y >= H THEN Scroll4 ELSE Csr5) /\ q.reg = p.reg
    BY ONLY m \in Memories, <1>1, <2>1
  <2>3. CASE m.y >= H
    <3>. DEFINE k == [m EXCEPT !.cell = Copied(m, 1)]
    <3>1. m.y = H /\ q.code = Scroll4
      BY <1>2, <1>4, <2>2, <2>3 DEF Shows
    <3>2. Copied(m, 1) \in [Cells -> Printable]
      BY CellTypes
    <3>3. k \in Memories /\ k.cell = Copied(m, 1)
      BY <3>2 DEF Memories
    <3>. HIDE DEF k
    <3>4. Shows(Blanked(k, 1), m.x, H - 1, t, a + 1)
      BY <1>4, <3>1, <3>3, ScrollShows
    <3>5. Shows(Scrolled(n), n.x, H - 1, t, a + 1) /\ n.y = H
      BY <2>1, <2>2, <3>1, <3>4 DEF Scrolled, k
    <3>. QED BY <3>1, <3>5 DEF Pictured
  <2>4. CASE ~(m.y >= H)
    BY <1>2, <1>4, <2>2, <2>4 DEF Pictured
  <2>. QED BY <2>3, <2>4
<1>5. CASE p.code = Scroll4 /\ m.y = H /\ Shows(Scrolled(m), m.x, H - 1, t, a)
  <2>1. /\ n = m
        /\ q = Program(p.c, Scroll3, m.y - H + 1)
    BY <1>1, <1>5, StepIs
  <2>2. /\ n.x = m.x /\ n.y = m.y /\ n.cell = m.cell
        /\ q.c = p.c /\ q.code = Scroll3 /\ q.reg = m.y - H + 1
    BY ONLY m \in Memories, <1>1, <2>1
  <2>. QED BY <1>2, <1>5, <2>1, <2>2 DEF Pictured
<1>6. CASE p.code = Scroll3 /\ p.reg = 1 /\ Shows(Scrolled(m), m.x, H - 1, t, a)
  <2>1. /\ n = [m EXCEPT !.cell = Copied(m, p.reg)]
        /\ q = Program(p.c, Scroll2, p.reg)
    BY <1>1, <1>6, StepIs
  <2>2. /\ n.x = m.x /\ n.y = m.y /\ n.cell = Copied(m, p.reg)
        /\ q.c = p.c /\ q.code = Scroll2 /\ q.reg = p.reg
    BY ONLY m \in Memories, <1>1, <2>1, Fields
  <2>. QED BY <1>2, <1>6, <2>1, <2>2 DEF Pictured, Scrolled
<1>7. CASE p.code = Scroll2 /\ p.reg = 1 /\ Shows(Blanked(m, 1), m.x, H - 1, t, a)
  <2>1. /\ n = [m EXCEPT !.cell = Blanked(m, p.reg)]
        /\ q = Program(p.c, Scroll1, p.reg)
    BY <1>1, <1>7, StepIs
  <2>2. /\ n.x = m.x /\ n.y = m.y /\ n.cell = Blanked(m, p.reg)
        /\ q.c = p.c /\ q.code = Scroll1 /\ q.reg = p.reg
    BY ONLY m \in Memories, <1>1, <2>1, Fields
  <2>. QED BY <1>2, <1>7, <2>1, <2>2 DEF Pictured
<1>8. CASE p.code = Scroll1 /\ Shows(m.cell, m.x, H - 1, t, a)
  <2>1. /\ n = [m EXCEPT !.y = H - 1]
        /\ q = Program(p.c, Csr5, p.reg)
    BY <1>1, <1>8, StepIs
  <2>2. /\ n.x = m.x /\ n.y = H - 1 /\ n.cell = m.cell
        /\ q.c = p.c /\ q.code = Csr5 /\ q.reg = p.reg
    BY ONLY m \in Memories, <1>1, <2>1, Fields
  <2>. QED BY <1>2, <1>8, <2>2 DEF Pictured
<1>9. CASE p.code = Wrap1 /\ Shows(m.cell, m.x, p.reg + 1, t, a)
  <2>1. /\ n = [m EXCEPT !.y = p.reg + 1]
        /\ q = Program(p.c, AtFull, p.reg)
    BY <1>1, <1>9, StepIs
  <2>2. /\ n.x = m.x /\ n.y = p.reg + 1 /\ n.cell = m.cell
        /\ q.c = p.c /\ q.code = AtFull /\ q.reg = p.reg
    BY ONLY m \in Memories, <1>1, <2>1, Fields
  <2>. QED BY <1>2, <1>9, <2>2 DEF Pictured
<1>10. CASE p.code = Wrap2 /\ Shows(m.cell, m.x, m.y + 1, t, a)
  <2>1. /\ n = m
        /\ q = Program(p.c, Wrap1, m.y)
    BY <1>1, <1>10, StepIs
  <2>2. /\ n.x = m.x /\ n.y = m.y /\ n.cell = m.cell
        /\ q.c = p.c /\ q.code = Wrap1 /\ q.reg = m.y
    BY ONLY m \in Memories, <1>1, <2>1
  <2>. QED BY <1>2, <1>10, <2>2 DEF Pictured
<1>11. CASE p.code = Wrap3 /\ Shows(m.cell, 0, m.y + 1, t, a)
  <2>1. /\ n = [m EXCEPT !.x = 0]
        /\ q = Program(p.c, Wrap2, p.reg)
    BY <1>1, <1>11, StepIs
  <2>2. /\ n.x = 0 /\ n.y = m.y /\ n.cell = m.cell
        /\ q.c = p.c /\ q.code = Wrap2 /\ q.reg = p.reg
    BY ONLY m \in Memories, <1>1, <2>1, Fields
  <2>. QED BY <1>2, <1>11, <2>2 DEF Pictured
<1>12. CASE p.code = AtEdge /\ EdgeShows(m.cell, m.x, m.y, t, a)
  <2>1. /\ n = m
        /\ q = Program(p.c, IF m.x >= W THEN Wrap3 ELSE AtFull, p.reg)
    BY <1>1, <1>12, StepIs
  <2>2. /\ n.x = m.x /\ n.y = m.y /\ n.cell = m.cell
        /\ q.c = p.c /\ q.code = (IF m.x >= W THEN Wrap3 ELSE AtFull) /\ q.reg = p.reg
    BY ONLY m \in Memories, <1>1, <2>1
  <2>3. CASE m.x >= W
    BY <1>2, <1>12, <2>2, <2>3 DEF Pictured, EdgeShows
  <2>4. CASE ~(m.x >= W)
    BY <1>2, <1>12, <2>2, <2>4 DEF Pictured, EdgeShows
  <2>. QED BY <2>3, <2>4
<1>13. CASE p.code = Line1 /\ m.x = 0 /\ Shows(m.cell, 0, p.reg + 1, t, a)
  <2>1. /\ n = [m EXCEPT !.y = p.reg + 1]
        /\ q = Program(p.c, AtEdge, p.reg)
    BY <1>1, <1>13, StepIs
  <2>2. /\ n.x = m.x /\ n.y = p.reg + 1 /\ n.cell = m.cell
        /\ q.c = p.c /\ q.code = AtEdge /\ q.reg = p.reg
    BY ONLY m \in Memories, <1>1, <2>1, Fields
  <2>. QED BY <1>2, <1>13, <2>2 DEF Pictured, EdgeShows
<1>14. CASE p.code = Line2 /\ m.x = 0 /\ Shows(m.cell, 0, m.y + 1, t, a)
  <2>1. /\ n = m
        /\ q = Program(p.c, Line1, m.y)
    BY <1>1, <1>14, StepIs
  <2>2. /\ n.x = m.x /\ n.y = m.y /\ n.cell = m.cell
        /\ q.c = p.c /\ q.code = Line1 /\ q.reg = m.y
    BY ONLY m \in Memories, <1>1, <2>1
  <2>. QED BY <1>2, <1>14, <2>2 DEF Pictured
<1>15. CASE p.code = Line3 /\ Shows(m.cell, 0, m.y + 1, t, a)
  <2>1. /\ n = [m EXCEPT !.x = 0]
        /\ q = Program(p.c, Line2, p.reg)
    BY <1>1, <1>15, StepIs
  <2>2. /\ n.x = 0 /\ n.y = m.y /\ n.cell = m.cell
        /\ q.c = p.c /\ q.code = Line2 /\ q.reg = p.reg
    BY ONLY m \in Memories, <1>1, <2>1, Fields
  <2>. QED BY <1>2, <1>15, <2>2 DEF Pictured
<1>16. CASE p.code = Home /\ Shows(m.cell, 0, m.y, t, a)
  <2>1. /\ n = [m EXCEPT !.x = 0]
        /\ q = Program(p.c, AtEdge, p.reg)
    BY <1>1, <1>16, StepIs
  <2>2. /\ n.x = 0 /\ n.y = m.y /\ n.cell = m.cell
        /\ q.c = p.c /\ q.code = AtEdge /\ q.reg = p.reg
    BY ONLY m \in Memories, <1>1, <2>1, Fields
  <2>. QED BY <1>2, <1>16, <2>2 DEF Pictured, EdgeShows
<1>17. CASE p.code = Char1 /\ EdgeShows(m.cell, Advance(p.c, p.reg), m.y, t, a)
  <2>1. /\ n = [m EXCEPT !.x = Advance(p.c, p.reg)]
        /\ q = Program(p.c, AtEdge, p.reg)
    BY <1>1, <1>17, StepIs
  <2>2. /\ n.x = Advance(p.c, p.reg) /\ n.y = m.y /\ n.cell = m.cell
        /\ q.c = p.c /\ q.code = AtEdge /\ q.reg = p.reg
    BY ONLY m \in Memories, <1>1, <2>1, Fields
  <2>. QED BY <1>2, <1>17, <2>2 DEF Pictured
<1>18. CASE p.code = Char2 /\ EdgeShows(m.cell, Advance(p.c, m.x), m.y, t, a)
  <2>1. /\ n = m
        /\ q = Program(p.c, Char1, m.x)
    BY <1>1, <1>18, StepIs
  <2>2. /\ n.x = m.x /\ n.y = m.y /\ n.cell = m.cell
        /\ q.c = p.c /\ q.code = Char1 /\ q.reg = m.x
    BY ONLY m \in Memories, <1>1, <2>1
  <2>. QED BY <1>2, <1>18, <2>2 DEF Pictured
<1>19. CASE p.code = Char3 /\ EdgeShows([m.cell EXCEPT ![p.reg] = p.c], Advance(p.c, m.x), m.y, t, a)
  <2>1. /\ n = [m EXCEPT !.cell[p.reg] = p.c]
        /\ q = Program(p.c, Char2, p.reg)
    BY <1>1, <1>19, StepIs
  <2>2. /\ n.x = m.x /\ n.y = m.y /\ n.cell = [m.cell EXCEPT ![p.reg] = p.c]
        /\ q.c = p.c /\ q.code = Char2 /\ q.reg = p.reg
    BY ONLY m \in Memories, <1>1, <2>1, Fields
  <2>. QED BY <1>2, <1>19, <2>2 DEF Pictured
<1>20. CASE p.code = Char4 /\ EdgeShows([m.cell EXCEPT ![Place(m)] = p.c], Advance(p.c, m.x), m.y, t, a)
  <2>1. /\ n = m
        /\ q = Program(p.c, Char3, Place(m))
    BY <1>1, <1>20, StepIs
  <2>2. /\ n.x = m.x /\ n.y = m.y /\ n.cell = m.cell
        /\ q.c = p.c /\ q.code = Char3 /\ q.reg = Place(m)
    BY ONLY m \in Memories, <1>1, <2>1
  <2>. QED BY <1>2, <1>20, <2>1, <2>2 DEF Pictured
<1>21. CASE p.code = Back /\ m.x # 0 /\ EdgeShows(m.cell, Advance(p.c, m.x), m.y, t, a)
  <2>1. /\ n = m
        /\ q = Program(p.c, IF m.x # 0 THEN Char2 ELSE AtEdge, p.reg)
    BY <1>1, <1>21, StepIs
  <2>2. /\ n.x = m.x /\ n.y = m.y /\ n.cell = m.cell
        /\ q.c = p.c /\ q.code = (IF m.x # 0 THEN Char2 ELSE AtEdge) /\ q.reg = p.reg
    BY ONLY m \in Memories, <1>1, <2>1
  <2>. QED BY <1>2, <1>21, <2>2 DEF Pictured
<1>22. CASE p.code = Back /\ m.x = 0 /\ Shows(m.cell, 0, m.y, t, a)
  <2>1. /\ n = m
        /\ q = Program(p.c, IF m.x # 0 THEN Char2 ELSE AtEdge, p.reg)
    BY <1>1, <1>22, StepIs
  <2>2. /\ n.x = m.x /\ n.y = m.y /\ n.cell = m.cell
        /\ q.c = p.c /\ q.code = (IF m.x # 0 THEN Char2 ELSE AtEdge) /\ q.reg = p.reg
    BY ONLY m \in Memories, <1>1, <2>1
  <2>. QED BY <1>2, <1>22, <2>2 DEF Pictured, EdgeShows
<1>. QED BY <1>3, <1>4, <1>5, <1>6, <1>7, <1>8, <1>9, <1>10, <1>11, <1>12, <1>13,
         <1>14, <1>15, <1>16, <1>17, <1>18, <1>19, <1>20, <1>21, <1>22 DEF Pictured

LEMMA PicturedAtStart ==
    ASSUME NEW m \in Memories, NEW s \in Papers, NEW a, Shows(m.cell, m.x, m.y, s, a),
           OnScreen(m), NEW c \in Printable \cup Controls, NEW t, t = Type(s, c),
           NEW p, p.c = c, p.code = kputch(c)
    PROVE  t \in Papers /\ Pictured(m, p, t, a)
<1>1. /\ t \in Papers
      /\ c \in Printable
         => EdgeShows([m.cell EXCEPT ![Place(m)] = c], Advance(c, m.x), m.y, t, a)
      /\ c = "tab" => EdgeShows(m.cell, Advance(c, m.x), m.y, t, a)
      /\ c = "nl" => Shows(m.cell, 0, m.y + 1, t, a)
      /\ c = "cr" => Shows(m.cell, 0, m.y, t, a)
      /\ c = "back" /\ m.x # 0 => EdgeShows(m.cell, Advance(c, m.x), m.y, t, a)
      /\ c = "back" /\ m.x = 0 => Shows(m.cell, 0, m.y, t, a)
  BY TypeShows
<1>2. CASE c \in Printable
  <2>1. kputch(c) = Char4
    BY <1>2, Programmed
  <2>. QED BY <1>1, <1>2, <2>1 DEF Pictured
<1>3. CASE c = "tab"
  <2>1. kputch(c) = Char2
    BY <1>3, Programmed
  <2>. QED BY <1>1, <1>3, <2>1 DEF Pictured
<1>4. CASE c = "nl"
  <2>1. kputch(c) = Line3
    BY <1>4, Programmed
  <2>. QED BY <1>1, <1>4, <2>1 DEF Pictured
<1>5. CASE c = "cr"
  <2>1. kputch(c) = Home
    BY <1>5, Programmed
  <2>. QED BY <1>1, <1>5, <2>1 DEF Pictured
<1>6. CASE c = "back"
  <2>1. kputch(c) = Back
    BY <1>6, Programmed
  <2>. QED BY <1>1, <1>6, <2>1 DEF Pictured
<1>. QED BY <1>2, <1>3, <1>4, <1>5, <1>6 DEF Controls

LEMMA PicturedAtEnd ==
    ASSUME NEW m \in Memories, NEW p, NEW t, NEW a, p.code = <<>>, Pictured(m, p, t, a)
    PROVE  Shows(m.cell, m.x, m.y, t, a)
<1>1. \A s \in {AtFull, Scroll1, Scroll2, Scroll3, Scroll4, Wrap1, Wrap2, Wrap3, AtEdge,
             Line1, Line2, Line3, Home, Char1, Char2, Char3, Char4, Back} : Size(s) \in 6..11
  BY ShapesAre
<1>2. Size(<<>>) = 0
  BY ShapesAre
<1>. QED BY <1>1, <1>2 DEF Pictured

-----------------------------------------------------------------------------
(* A kputch nobody interrupts *)

LEMMA AtStart ==
    ASSUME NEW c \in Printable \cup Controls
    PROVE  kputch(c) \in {Char4, Char2, Line3, Home, Back}
BY Programmed DEF Controls

LEMMA Underway ==
    ASSUME NEW m \in Memories, NEW p, NEW b
    PROVE  /\ Alone(m, p, b) => p.code \in Shapes
           /\ Mine(m, p) => p.code \in Shapes
           /\ Alone(m, p, b) /\ p.code = Csr5 => OnScreen(m)
           /\ Mine(m, p) /\ p.code = Csr5 => OnScreen(m)
           /\ Alone(m, p, b) /\ p.code = <<>> => OnScreen(m)
           /\ Mine(m, p) /\ p.code = <<>> => OnScreen(m)
           /\ Straight(m, p) /\ p.code = <<>> => m.high * Byte + m.low = Place(m)
<1>1. Alone(m, p, b) \/ Mine(m, p) => p.code \in Shapes
  BY DEF Alone, Mine, Shapes
<1>2. /\ Size(Csr1) = 1 /\ Size(Csr2) = 2 /\ Size(Csr3) = 3 /\ Size(Csr4) = 4
      /\ Size(<<>>) = 0 /\ Size(Csr5) = 5
      /\ \A s \in {AtFull, Scroll1, Scroll2, Scroll3, Scroll4, Wrap1, Wrap2, Wrap3, AtEdge,
                 Line1, Line2, Line3, Home, Char1, Char2, Char3, Char4, Back} : Size(s) \in 6..11
  BY ShapesAre
<1>3. /\ Alone(m, p, b) /\ p.code \in {<<>>, Csr5} => OnScreen(m)
      /\ Mine(m, p) /\ p.code \in {<<>>, Csr5} => OnScreen(m)
  BY <1>2 DEF Alone, Mine
<1>4. Straight(m, p) /\ p.code = <<>> => m.high * Byte + m.low = Place(m)
  BY <1>2 DEF Straight
<1>. QED BY <1>1, <1>3, <1>4

\* What an echo of one character starts from, and what it leaves.
LEMMA FinishWell ==
    ASSUME NEW m \in Memories, m.x <= W, m.y <= H, NEW c \in Printable \cup Controls,
           NEW v, v = Finish(m, c)
    PROVE  /\ v \in Memories /\ OnScreen(v) /\ v.high * Byte + v.low = Place(v)
           /\ m.y >= H - 1 => v.y >= H - 1
           /\ \A t \in Papers : (\E a : Pictured(m, Started(m, c).pgm, t, a))
                            => \E a : Shows(v.cell, v.x, v.y, t, a)
<1>. DEFINE run == Runs(m, c)
            Well(s, n) == /\ s.mem \in Memories /\ s.pgm \in Programs
                          /\ Alone(s.mem, s.pgm, Longest - n) /\ Straight(s.mem, s.pgm)
                          /\ m.y >= H - 1 => s.mem.y >= H - 1
            Keeps(s) == \A t \in Papers : (\E a : Pictured(m, Started(m, c).pgm, t, a))
                                       => \E a : Pictured(s.mem, s.pgm, t, a)
            T == {n \in Nat : n <= Longest => Well(run[n], n) /\ Keeps(run[n])}
<1>1. /\ v = run[Longest].mem
      /\ run = [n \in 0..Longest |-> IF n = 0 THEN Started(m, c)
                                     ELSE After("access", run[n - 1], <<>>[n])]
  BY RunsFollow DEF Follows
<1>. HIDE DEF run
<1>2. /\ run[0] = Started(m, c)
      /\ \A n \in Nat : n + 1 <= Longest => run[n + 1] = Onward(run[n])
  <2>1. \A n \in Nat : n + 1 <= Longest => /\ n + 1 \in 0..Longest /\ n + 1 # 0
                                           /\ (n + 1) - 1 = n
    BY DEF Longest
  <2>2. 0 \in 0..Longest
    BY DEF Longest
  <2>3. \A s, d : After("access", s, d) = Onward(s)
    BY DEF After
  <2>. QED BY ONLY <1>1, <2>1, <2>2, <2>3
<1>3. 0 \in T
  <2>. DEFINE s == Started(m, c)
  <2>1. s.mem = m /\ s.pgm = Program(c, kputch(c), 0) /\ s.pgm.c = c
        /\ s.pgm.code = kputch(c) /\ s.pgm.reg = 0
    BY DEF Started, Program
  <2>. HIDE DEF s
  <2>2. kputch(c) \in {Char4, Char2, Line3, Home, Back}
    BY AtStart
  <2>3. kputch(c) \in Shapes /\ Size(kputch(c)) >= 5
    <3>1. \A k \in {Char4, Char2, Line3, Home, Back} : Size(k) \in 6..11
      BY ShapesAre
    <3>. QED BY <2>2, <3>1, Listed
  <2>4. s.pgm \in Programs
    BY <2>1, <2>3, ShapesAre DEF Programs, Program
  <2>5. Straight(s.mem, s.pgm)
    BY <2>1, <2>3 DEF Straight
  <2>6. Alone(m, s.pgm, Longest)
    <3>1. c \in Printable => kputch(c) = Char4
      BY Programmed
    <3>2. c = "tab" => kputch(c) = Char2
      BY Programmed
    <3>3. c = "nl" => kputch(c) = Line3
      BY Programmed
    <3>4. c = "cr" => kputch(c) = Home
      BY Programmed
    <3>5. c = "back" => kputch(c) = Back
      BY Programmed
    <3>6. c \in Printable \/ c = "tab" \/ c = "nl" \/ c = "cr" \/ c = "back"
      BY DEF Controls
    <3>. QED BY <2>1, <3>1, <3>2, <3>3, <3>4, <3>5, <3>6 DEF Alone, Longest
  <2>7. Longest - 0 = Longest
    BY DEF Longest
  <2>8. Well(run[0], 0)
    BY <1>2, <2>1, <2>4, <2>5, <2>6, <2>7 DEF s
  <2>9. Keeps(run[0])
    BY <1>2 DEF Started
  <2>. HIDE DEF Well, Keeps
  <2>. QED BY <2>8, <2>9
<1>4. ASSUME NEW n \in Nat, n \in T PROVE n + 1 \in T
  <2>. SUFFICES ASSUME n + 1 <= Longest PROVE Well(run[n + 1], n + 1) /\ Keeps(run[n + 1])
    OBVIOUS
  <2>. DEFINE s == run[n]
              b == Longest - n
  <2>1. b \in Nat /\ b > 0 /\ Longest - (n + 1) = b - 1
    BY DEF Longest
  <2>2. /\ s.mem \in Memories /\ s.pgm \in Programs
        /\ Alone(s.mem, s.pgm, b) /\ Straight(s.mem, s.pgm)
        /\ m.y >= H - 1 => s.mem.y >= H - 1
    BY <1>4 DEF Longest
  <2>k. \A t \in Papers : (\E a : Pictured(m, Started(m, c).pgm, t, a))
                        => \E a : Pictured(s.mem, s.pgm, t, a)
    BY <1>4 DEF Longest
  <2>3. run[n + 1] = Onward(s)
    BY <1>2
  <2>. HIDE DEF s, b
  <2>4. CASE s.pgm.code = <<>>
    <3>1. run[n + 1] = s
      BY <2>3, <2>4 DEF Onward
    <3>2. OnScreen(s.mem)
      BY <2>2, <2>4, Underway
    <3>3. Alone(s.mem, s.pgm, b - 1)
      BY <2>1, <2>4, <3>2 DEF Alone
    <3>4. Well(run[n + 1], n + 1)
      BY <2>1, <2>2, <3>1, <3>3
    <3>5. Keeps(run[n + 1])
      BY <2>k, <3>1
    <3>. HIDE DEF Well, Keeps
    <3>. QED BY <3>4, <3>5
  <2>5. CASE s.pgm.code # <<>>
    <3>. DEFINE e == Exec(s.mem, s.pgm)
    <3>1. run[n + 1] = e
      BY <2>3, <2>5 DEF Onward
    <3>2. /\ e.mem \in Memories /\ e.pgm \in Programs /\ Alone(e.mem, e.pgm, b - 1)
          /\ s.mem.y >= H - 1 => e.mem.y >= H - 1
      BY <2>1, <2>2, <2>5, AloneStep
    <3>3. s.pgm.code \in Shapes \ {<<>>} /\ (s.pgm.code = Csr5 => OnScreen(s.mem))
      BY <2>2, <2>5, Underway
    <3>4. Straight(e.mem, e.pgm)
      BY <2>2, <3>3, StraightStep
    <3>5. \A t \in Papers : (\E a : Pictured(s.mem, s.pgm, t, a))
                          => \E a : Pictured(e.mem, e.pgm, t, a)
      BY <2>2, <2>5, PicturedStep
    <3>. HIDE DEF e
    <3>6. Well(run[n + 1], n + 1)
      BY <2>1, <2>2, <3>1, <3>2, <3>4
    <3>7. Keeps(run[n + 1])
      BY <2>k, <3>1, <3>5
    <3>. HIDE DEF Well, Keeps
    <3>. QED BY <3>6, <3>7
  <2>. QED BY <2>4, <2>5
<1>. HIDE DEF T
<1>5. Longest \in Nat /\ Longest <= Longest /\ Longest - Longest = 0
  BY DEF Longest
<1>6. Longest \in T
  BY <1>3, <1>4, <1>5, Induction
<1>7. Well(run[Longest], Longest) /\ Keeps(run[Longest])
  BY <1>5, <1>6 DEF T
<1>. DEFINE p == run[Longest].pgm
<1>8. /\ v \in Memories /\ Alone(v, p, 0) /\ Straight(v, p)
      /\ m.y >= H - 1 => v.y >= H - 1
  BY <1>1, <1>5, <1>7
<1>. HIDE DEF p
<1>9. p.code = <<>>
  BY <1>8 DEF Alone
<1>10. \A t \in Papers : (\E a : Pictured(m, Started(m, c).pgm, t, a))
                      => \E a : Shows(v.cell, v.x, v.y, t, a)
  <2>1. \A t \in Papers : (\E a : Pictured(m, Started(m, c).pgm, t, a))
                        => \E a : Pictured(v, p, t, a)
    BY <1>1, <1>7 DEF p
  <2>2. \A t, a : Pictured(v, p, t, a) => Shows(v.cell, v.x, v.y, t, a)
    BY <1>8, <1>9, PicturedAtEnd
  <2>. QED BY <2>1, <2>2
<1>. QED BY <1>8, <1>9, <1>10, Underway

\* The same for a text.
LEMMA PrintWell ==
    ASSUME NEW m \in Memories, m.x <= W, m.y <= H,
           NEW text \in Seq(Printable \cup Controls), text # <<>>,
           NEW v, v = kputs(m, text)
    PROVE  /\ v \in Memories /\ OnScreen(v) /\ v.high * Byte + v.low = Place(v)
           /\ m.y >= H - 1 => v.y >= H - 1
<1>. DEFINE after == Prints(m, text)
            Well(s) == /\ s \in Memories /\ OnScreen(s) /\ s.high * Byte + s.low = Place(s)
                       /\ m.y >= H - 1 => s.y >= H - 1
            T == {n \in Nat : n + 1 <= Len(text) => Well(after[n + 1])}
<1>1. Len(text) \in Nat /\ Len(text) >= 1
  OBVIOUS
<1>2. /\ v = after[Len(text)]
      /\ after = [n \in 0..Len(text) |-> IF n = 0 THEN m
                                         ELSE After("print", after[n - 1], text[n])]
  BY <1>1, PrintsFollow DEF Follows
<1>. HIDE DEF after
<1>3. /\ after[0] = m
      /\ \A n \in Nat : n + 1 <= Len(text) => after[n + 1] = Finish(after[n], text[n + 1])
  <2>1. \A n \in Nat : n + 1 <= Len(text) => /\ n + 1 \in 0..Len(text) /\ n + 1 # 0
                                             /\ (n + 1) - 1 = n
    BY <1>1
  <2>2. 0 \in 0..Len(text)
    BY <1>1
  <2>3. \A s, d : After("print", s, d) = Finish(s, d)
    BY DEF After
  <2>. QED BY ONLY <1>2, <2>1, <2>2, <2>3
<1>4. \A n \in Nat : n + 1 <= Len(text) => text[n + 1] \in Printable \cup Controls
  BY <1>1
<1>5. 0 \in T
  <2>1. 0 + 1 <= Len(text) /\ 0 \in Nat
    BY <1>1
  <2>2. after[0 + 1] = Finish(m, text[0 + 1]) /\ text[0 + 1] \in Printable \cup Controls
    BY <1>3, <1>4, <2>1
  <2>3. Well(after[0 + 1])
    BY <2>2, FinishWell
  <2>. QED BY <2>3
<1>6. ASSUME NEW n \in Nat, n \in T PROVE n + 1 \in T
  <2>. SUFFICES ASSUME (n + 1) + 1 <= Len(text) PROVE Well(after[(n + 1) + 1])
    OBVIOUS
  <2>. DEFINE s == after[n + 1]
              t == after[(n + 1) + 1]
              c == text[(n + 1) + 1]
  <2>1. Well(s)
    BY <1>1, <1>6
  <2>2. t = Finish(s, c) /\ c \in Printable \cup Controls
    BY <1>3, <1>4
  <2>. HIDE DEF s, t, c
  <2>3. s.x <= W /\ s.y <= H /\ s \in Memories
    BY SMTT(30), <2>1, Sizes DEF OnScreen, Memories
  <2>4. /\ t \in Memories /\ OnScreen(t) /\ t.high * Byte + t.low = Place(t)
        /\ s.y >= H - 1 => t.y >= H - 1
    BY <2>2, <2>3, FinishWell
  <2>. QED BY <2>1, <2>4 DEF t
<1>. HIDE DEF T
<1>7. Len(text) - 1 \in Nat /\ (Len(text) - 1) + 1 = Len(text)
  BY <1>1
<1>8. Len(text) - 1 \in T
  BY <1>5, <1>6, <1>7, Induction
<1>9. Well(after[Len(text)])
  BY <1>7, <1>8 DEF T
<1>. QED BY <1>2, <1>9

\* A text printed on a screen that shows the paper, and typed on the paper.
LEMMA PrintShows ==
    ASSUME NEW m \in Memories, OnScreen(m), NEW s \in Papers,
           \E a : Shows(m.cell, m.x, m.y, s, a),
           NEW text \in Seq(Printable \cup Controls), NEW v, v = kputs(m, text)
    PROVE  /\ TypeAll(s, text) \in Papers
           /\ \E a : Shows(v.cell, v.x, v.y, TypeAll(s, text), a)
<1>. DEFINE after == Prints(m, text)
            typed == Types(s, text)
            Same(k, t) == /\ k \in Memories /\ OnScreen(k) /\ t \in Papers
                          /\ \E a : Shows(k.cell, k.x, k.y, t, a)
            T == {n \in Nat : n <= Len(text) => Same(after[n], typed[n])}
<1>1. Len(text) \in Nat
  OBVIOUS
<1>2. /\ v = after[Len(text)]
      /\ after = [n \in 0..Len(text) |-> IF n = 0 THEN m
                                         ELSE After("print", after[n - 1], text[n])]
  BY <1>1, PrintsFollow DEF Follows
<1>3. /\ TypeAll(s, text) = typed[Len(text)]
      /\ typed = [n \in 0..Len(text) |-> IF n = 0 THEN s
                                         ELSE After("type", typed[n - 1], text[n])]
  BY <1>1, TypesFollow DEF Follows
<1>. HIDE DEF after, typed
<1>4. /\ after[0] = m /\ typed[0] = s
      /\ \A n \in Nat : n + 1 <= Len(text)
                       => /\ after[n + 1] = Finish(after[n], text[n + 1])
                          /\ typed[n + 1] = Type(typed[n], text[n + 1])
  <2>1. \A n \in Nat : n + 1 <= Len(text) => /\ n + 1 \in 0..Len(text) /\ n + 1 # 0
                                             /\ (n + 1) - 1 = n
    BY <1>1
  <2>2. 0 \in 0..Len(text)
    BY <1>1
  <2>3. \A k, d : After("print", k, d) = Finish(k, d) /\ After("type", k, d) = Type(k, d)
    BY DEF After
  <2>. QED BY ONLY <1>2, <1>3, <2>1, <2>2, <2>3
<1>5. \A n \in Nat : n + 1 <= Len(text) => text[n + 1] \in Printable \cup Controls
  BY <1>1
<1>6. 0 \in T
  BY <1>4
<1>7. ASSUME NEW n \in Nat, n \in T PROVE n + 1 \in T
  <2>. SUFFICES ASSUME n + 1 <= Len(text) PROVE Same(after[n + 1], typed[n + 1])
    OBVIOUS
  <2>. DEFINE k == after[n]
              t == typed[n]
              c == text[n + 1]
  <2>1. Same(k, t)
    BY <1>1, <1>7
  <2>2. /\ after[n + 1] = Finish(k, c) /\ typed[n + 1] = Type(t, c)
        /\ c \in Printable \cup Controls
    BY <1>4, <1>5
  <2>. HIDE DEF k, t, c
  <2>3. PICK a : Shows(k.cell, k.x, k.y, t, a)
    BY <2>1
  <2>4. Started(k, c).pgm.c = c /\ Started(k, c).pgm.code = kputch(c)
    BY DEF Started
  <2>5. Type(t, c) \in Papers /\ Pictured(k, Started(k, c).pgm, Type(t, c), a)
    BY <2>1, <2>2, <2>3, <2>4, PicturedAtStart
  <2>6. k.x <= W /\ k.y <= H
    BY <2>1, Sizes DEF OnScreen, Memories
  <2>. DEFINE w == Finish(k, c)
  <2>7. /\ w \in Memories /\ OnScreen(w)
        /\ \A u \in Papers : (\E b : Pictured(k, Started(k, c).pgm, u, b))
                            => \E b : Shows(w.cell, w.x, w.y, u, b)
    BY <2>1, <2>2, <2>6, FinishWell
  <2>. HIDE DEF w
  <2>8. \E b : Shows(w.cell, w.x, w.y, Type(t, c), b)
    BY <2>5, <2>7
  <2>. QED BY <2>2, <2>5, <2>7, <2>8 DEF w
<1>. HIDE DEF T
<1>8. Len(text) \in T
  BY <1>1, <1>6, <1>7, Induction
<1>9. Same(after[Len(text)], typed[Len(text)])
  BY <1>1, <1>8 DEF T
<1>. QED BY <1>2, <1>3, <1>9

-----------------------------------------------------------------------------
(* The console's invariant *)

ConsoleInv == /\ con \in Memories /\ me \in Programs
              /\ cursor_raced \in BOOLEAN /\ raced \in BOOLEAN
              /\ Mine(con, me)
              /\ ~cursor_raced => Straight(con, me)
              /\ ~raced => paper \in Papers /\ \E a : Pictured(con, me, paper, a)

\* An echo leaves kmain's kputch where it may go on.
LEMMA EchoKeeps ==
    ASSUME NEW m \in Memories, NEW p, Mine(m, p), NEW v \in Memories, OnScreen(v),
           m.y >= H - 1 => v.y >= H - 1
    PROVE  m.x <= W /\ m.y <= H /\ Mine(v, p)
<1>1. /\ m.x \in Nat /\ m.y \in Nat /\ v.x \in Nat /\ v.y \in Nat
      /\ W \in Nat /\ H \in Nat
  BY Sizes DEF Memories
<1>2. m.x <= W /\ m.y <= H
  BY <1>1 DEF Mine, OnScreen
<1>3. /\ v.x < W /\ v.x <= W /\ v.y < H /\ v.y <= H
      /\ m.y \in (H - 1)..H => v.y \in (H - 1)..H
  BY <1>1 DEF OnScreen
<1>4. Mine(v, p)
  BY <1>3 DEF Mine
<1>. QED BY <1>2, <1>4

\* ConsoleInv holds in every state of the console.
THEOREM Inductive == Spec => []ConsoleInv
<1>1. Init => ConsoleInv
  <2>. SUFFICES ASSUME Init PROVE ConsoleInv
    OBVIOUS
  <2>1. Blank \in Printable
    BY ConsoleAssumption DEF ConsoleAssumption
  <2>2. con.x = 0 /\ con.y = 0 /\ con.high = 0 /\ con.low = 0
    BY DEF Init
  <2>3. con \in Memories
    BY <2>1, Sizes DEF Init, Memories
  <2>4. me.code = <<>> /\ me \in Programs
    BY <2>1 DEF Init, Programs
  <2>5. OnScreen(con)
    BY <2>2, Sizes DEF OnScreen
  <2>6. con.high * Byte + con.low = Place(con)
    <3>1. 0 * Byte = 0 /\ 0 * W = 0
      BY Sizes, RowsApart
    <3>. QED BY <2>2, <3>1 DEF Place
  <2>7. /\ paper \in Papers /\ Size(paper.lines) = 1 /\ paper.lines[1] = EmptyLine
        /\ paper.x = 0
    <3>1. paper = [lines |-> <<EmptyLine>>, x |-> 0]
      BY DEF Init
    <3>2. EmptyLine \in [Columns -> Printable]
      BY EmptyLineIs
    <3>. QED BY <3>1, <3>2 DEF Papers, Size
  <2>8. Shows(con.cell, con.x, con.y, paper, 0)
    <3>1. ASSUME NEW r \in Rows, NEW i \in Columns PROVE con.cell[r * W + i] = Blank
      <4>1. r \in Nat /\ r <= H + 1
        BY Sizes DEF Rows
      <4>2. r * W + i \in Cells
        BY <4>1, CellOf
      <4>. QED BY <4>2 DEF Init
    <3>2. \A r \in Rows : r \in Nat
      BY Sizes DEF Rows
    <3>3. ASSUME NEW r \in Rows, NEW i \in Columns
          PROVE  con.cell[r * W + i] = IF 0 + r + 1 > Size(paper.lines) THEN Blank
                                       ELSE paper.lines[0 + r + 1][i]
      <4>1. CASE r = 0
        BY <2>7, <3>1, <4>1, EmptyLineIs
      <4>2. CASE r # 0
        BY <2>7, <3>1, <3>2, <4>2
      <4>. QED BY <4>1, <4>2
    <3>. QED BY <2>2, <2>7, <3>3, Sizes DEF Shows
  <2>9. Pictured(con, me, paper, 0)
    BY <2>2, <2>4, <2>8, Sizes DEF Pictured
  <2>. QED BY <2>3, <2>4, <2>5, <2>6, <2>7, <2>9 DEF ConsoleInv, Mine, Straight, Init
<1>2. ConsoleInv /\ [Next]_vars => ConsoleInv'
  <2>. SUFFICES ASSUME ConsoleInv, [Next]_vars PROVE ConsoleInv'
    OBVIOUS
  <2>1. CASE UNCHANGED vars
    BY <2>1 DEF vars, ConsoleInv
  <2>2. ASSUME NEW c \in MainText, Begin(c) PROVE ConsoleInv'
    <3>1. /\ con' = con /\ cursor_raced' = cursor_raced /\ me.code = <<>>
          /\ me' = [c |-> c, code |-> kputch(c), reg |-> 0]
      BY <2>2 DEF Begin
    <3>2. me'.c = c /\ me'.code = kputch(c) /\ me'.reg = 0
      BY <3>1
    <3>3. c \in Printable \cup (Controls \ {"back"})
      BY ConsoleAssumption DEF ConsoleAssumption
    <3>4. OnScreen(con)
      BY <3>1, Underway DEF ConsoleInv
    <3>5. kputch(c) \in {Char4, Char2, Line3, Home, Back}
      BY <3>3, AtStart
    <3>6. kputch(c) \in Shapes /\ Size(kputch(c)) >= 5
      <4>1. \A k \in {Char4, Char2, Line3, Home, Back} : Size(k) \in 6..11
        BY ShapesAre
      <4>. QED BY <3>5, <4>1, Listed
    <3>7. me' \in Programs
      BY <3>1, <3>3, <3>6, ShapesAre DEF Programs
    <3>8. Mine(con, me')
      <4>1. c \in Printable => kputch(c) = Char4
        BY Programmed
      <4>2. c = "tab" => kputch(c) = Char2
        BY Programmed
      <4>3. c = "nl" => kputch(c) = Line3
        BY Programmed
      <4>4. c = "cr" => kputch(c) = Home
        BY Programmed
      <4>5. c \in Printable \/ c = "tab" \/ c = "nl" \/ c = "cr"
        BY <3>3 DEF Controls
      <4>. QED BY <3>2, <3>4, <4>1, <4>2, <4>3, <4>4, <4>5 DEF Mine
    <3>9. Straight(con, me')
      BY <3>2, <3>6 DEF Straight
    <3>10. paper' = Type(paper, c) /\ raced' = raced /\ raced' \in BOOLEAN
      BY <2>2 DEF Begin, ConsoleInv
    <3>11. ASSUME ~raced'
           PROVE  paper' \in Papers /\ \E a : Pictured(con, me', paper', a)
      <4>1. con \in Memories /\ paper \in Papers /\ c \in Printable \cup Controls
        BY <3>3, <3>10, <3>11 DEF ConsoleInv
      <4>2. PICK a : Pictured(con, me, paper, a)
        BY <3>10, <3>11 DEF ConsoleInv
      <4>3. Shows(con.cell, con.x, con.y, paper, a)
        BY <3>1, <4>1, <4>2, PicturedAtEnd
      <4>4. Type(paper, c) \in Papers /\ Pictured(con, me', Type(paper, c), a)
        BY <3>2, <3>4, <4>1, <4>3, PicturedAtStart
      <4>. QED BY <3>10, <4>4
    <3>. QED BY <3>1, <3>7, <3>8, <3>9, <3>10, <3>11 DEF ConsoleInv
  <2>3. CASE Access
    <3>1. /\ me.code # <<>> /\ con' = Exec(con, me).mem /\ me' = Exec(con, me).pgm
          /\ cursor_raced' = IF Len(me.code) = Len(move_csr) THEN FALSE
                             ELSE cursor_raced
      BY <2>3 DEF Access
    <3>2. con \in Memories /\ me \in Programs /\ Mine(con, me)
      BY DEF ConsoleInv
    <3>3. con' \in Memories /\ me' \in Programs /\ Mine(con', me')
      BY <3>1, <3>2, MineStep
    <3>4. me.code \in Shapes \ {<<>>} /\ (me.code = Csr5 => OnScreen(con))
      BY <3>1, <3>2, Underway
    <3>5. Len(me.code) = Len(move_csr) <=> Size(me.code) = 5
      BY Programmed, ShapesAre DEF Size
    <3>6. cursor_raced' \in BOOLEAN
      BY <3>1 DEF ConsoleInv
    <3>7. ASSUME ~cursor_raced' PROVE Straight(con, me)
      BY <3>1, <3>5, <3>7 DEF ConsoleInv, Straight
    <3>8. ~cursor_raced' => Straight(con', me')
      BY <3>1, <3>2, <3>4, <3>7, StraightStep
    <3>9. paper' = paper /\ raced' = raced /\ raced' \in BOOLEAN
      BY <2>3 DEF Access, ConsoleInv
    <3>10. ASSUME ~raced'
           PROVE  paper' \in Papers /\ \E a : Pictured(con', me', paper', a)
      <4>1. paper \in Papers
        BY <3>9, <3>10 DEF ConsoleInv
      <4>2. PICK a : Pictured(con, me, paper, a)
        BY <3>9, <3>10 DEF ConsoleInv
      <4>3. \E b : Pictured(con', me', paper, b)
        BY <3>1, <3>2, <4>1, <4>2, PicturedStep
      <4>. QED BY <3>9, <4>1, <4>3
    <3>. QED BY <3>3, <3>6, <3>8, <3>9, <3>10 DEF ConsoleInv
  <2>4. ASSUME NEW t \in Echoes, Echo(t) PROVE ConsoleInv'
    <3>1. con' = kputs(con, t) /\ me' = me /\ cursor_raced' = (me.code # <<>>)
      BY <2>4 DEF Echo
    <3>2. con \in Memories /\ me \in Programs /\ Mine(con, me)
      BY DEF ConsoleInv
    <3>3. t \in Seq(Printable \cup Controls) /\ t # <<>>
      BY ConsoleAssumption DEF ConsoleAssumption
    <3>4. con.x <= W /\ con.y <= H
      BY <3>2, Sizes DEF Mine, OnScreen, Memories
    <3>5. /\ con' \in Memories /\ OnScreen(con') /\ con'.high * Byte + con'.low = Place(con')
          /\ con.y >= H - 1 => con'.y >= H - 1
      BY <3>1, <3>2, <3>3, <3>4, PrintWell
    <3>6. Mine(con', me)
      BY <3>2, <3>5, EchoKeeps
    <3>7. ASSUME ~cursor_raced' PROVE Straight(con', me)
      BY <3>1, <3>5, <3>7 DEF Straight
    <3>8. cursor_raced' \in BOOLEAN
      BY <3>1
    <3>9. paper' = TypeAll(paper, t) /\ raced' = (raced \/ me.code # <<>>)
      BY <2>4 DEF Echo
    <3>10. raced' \in BOOLEAN /\ (~raced' => ~raced /\ me.code = <<>>)
      BY <3>9
    <3>11. ASSUME ~raced'
           PROVE  paper' \in Papers /\ \E a : Pictured(con', me, paper', a)
      <4>1. me.code = <<>> /\ paper \in Papers
        BY <3>10, <3>11 DEF ConsoleInv
      <4>2. PICK a : Pictured(con, me, paper, a)
        BY <3>10, <3>11 DEF ConsoleInv
      <4>3. Shows(con.cell, con.x, con.y, paper, a) /\ OnScreen(con)
        BY <3>2, <4>1, <4>2, PicturedAtEnd, Underway
      <4>4. /\ TypeAll(paper, t) \in Papers
            /\ \E b : Shows(con'.cell, con'.x, con'.y, TypeAll(paper, t), b)
        BY <3>1, <3>2, <3>3, <4>1, <4>3, PrintShows
      <4>5. con'.y < H
        BY <3>5 DEF OnScreen
      <4>. QED BY <3>9, <4>1, <4>4, <4>5 DEF Pictured
    <3>. QED BY <3>1, <3>2, <3>5, <3>6, <3>7, <3>8, <3>10, <3>11 DEF ConsoleInv
  <2>. QED BY <2>1, <2>2, <2>3, <2>4 DEF Next
<1>. QED BY <1>1, <1>2, PTL DEF Spec

\* csr_x and csr_y fit their u16, the CRT registers their byte, and a kputch is
\* through after the accesses the model allows it (scrn.c:73-192).
THEOREM TypeCorrect == Spec => []TypeOK
<1>1. ConsoleInv => TypeOK
  <2>. SUFFICES ASSUME ConsoleInv PROVE TypeOK
    OBVIOUS
  <2>1. con \in Memories /\ me \in Programs /\ Mine(con, me)
    BY DEF ConsoleInv
  <2>2. con.x <= W /\ con.y <= H /\ con.x \in Nat /\ con.y \in Nat
    BY <2>1, Sizes DEF Mine, OnScreen, Memories
  <2>3. me.code \in Shapes
    BY <2>1, Underway
  <2>4. Size(me.code) \in 0..11
    BY <2>3, ShapesAre
  <2>5. con.x \in 0..(Word - 1) /\ con.y \in 0..(Word - 1)
    <3>1. W \in Nat /\ H \in Nat /\ W < Word /\ H < Word /\ Word \in Nat
      BY Sizes DEF Word
    <3>. QED BY ONLY <2>2, <3>1
  <2>6. /\ con.cell \in [Cells -> Printable] /\ con.index \in {14, 15}
        /\ con.high \in 0..(Byte - 1) /\ con.low \in 0..(Byte - 1) /\ me.reg \in Nat
    BY <2>1 DEF Memories, Programs
  <2>7. Len(me.code) <= Longest
    <3>1. Size(me.code) <= 20
      BY <2>4
    <3>. QED BY <3>1 DEF Size, Longest
  <2>. QED BY ONLY <2>5, <2>6, <2>7 DEF TypeOK
<1>. QED BY Inductive, <1>1, PTL

\* Wherever an echo falls into kmain's kputch, nothing is written further away
\* than the row below the screen, and the cursor is on it when kputch is through.
THEOREM OnTheScreen == Spec => []CursorOnScreen
<1>1. ConsoleInv => CursorOnScreen
  <2>. SUFFICES ASSUME ConsoleInv PROVE CursorOnScreen
    OBVIOUS
  <2>1. con \in Memories /\ Mine(con, me)
    BY DEF ConsoleInv
  <2>2. con.x <= W /\ con.y <= H
    BY <2>1, Sizes DEF Mine, OnScreen, Memories
  <2>3. me.code = <<>> => OnScreen(con)
    BY <2>1, Underway
  <2>. QED BY <2>2, <2>3 DEF CursorOnScreen, AtRest, OnScreen
<1>. QED BY Inductive, <1>1, PTL

\* The blinking cursor is at csr_y * 80 + csr_x after every kputch in whose
\* move_csr no key was echoed (scrn.c:73-94).
THEOREM CursorFollows == Spec => []HardwareCursorFollows
<1>1. ConsoleInv => HardwareCursorFollows
  BY Underway DEF ConsoleInv, HardwareCursorFollows, AtRest, Place
<1>. QED BY Inductive, <1>1, PTL

\* While no echo has fallen into a kputch, the screen shows the last lines of all
\* that was printed, for screens of every size and texts of every length: scrolling,
\* wrapping and tabs lose nothing (scrn.c:47-192).
THEOREM ScreenShows == Spec => []ShownIsPrinted
<1>1. ConsoleInv => ShownIsPrinted
  <2>. SUFFICES ASSUME ConsoleInv, me.code = <<>>, ~raced
                PROVE  LET n == Len(paper.lines)
                           above == IF n > H THEN n - H ELSE 0
                       IN /\ con.x = paper.x /\ con.y = n - above - 1
                          /\ \A r \in 0..(H - 1), i \in 0..(W - 1) :
                                con.cell[r * W + i] = IF above + r + 1 > n THEN Blank
                                                      ELSE paper.lines[above + r + 1][i]
    BY DEF ShownIsPrinted, AtRest
  <2>. DEFINE n == Size(paper.lines)
              above == IF n > H THEN n - H ELSE 0
  <2>1. con \in Memories /\ paper \in Papers /\ OnScreen(con)
    BY Underway DEF ConsoleInv
  <2>2. PICK a : Pictured(con, me, paper, a)
    BY DEF ConsoleInv
  <2>3. Shows(con.cell, con.x, con.y, paper, a)
    BY <2>1, <2>2, PicturedAtEnd
  <2>4. /\ a \in Nat /\ con.x = paper.x /\ con.y = n - a - 1 /\ con.y < H
        /\ a > 0 => con.y >= H - 1
        /\ \A r \in Rows, i \in Columns :
              con.cell[r * W + i] = IF a + r + 1 > n THEN Blank
                                    ELSE paper.lines[a + r + 1][i]
    BY <2>1, <2>3 DEF Shows, OnScreen
  <2>5. n \in Nat \ {0} /\ H \in Nat
    BY <2>1, Sized, Sizes
  <2>. HIDE DEF n
  <2>6. above = a
    BY <2>4, <2>5
  <2>. HIDE DEF above
  <2>7. /\ con.x = paper.x /\ con.y = n - above - 1
        /\ \A r \in 0..(H - 1), i \in 0..(W - 1) :
              con.cell[r * W + i] = IF above + r + 1 > n THEN Blank
                                    ELSE paper.lines[above + r + 1][i]
    BY <2>4, <2>6 DEF Rows, Columns
  <2>. QED BY <2>7 DEF n, above, Size
<1>. QED BY Inductive, <1>1, PTL
-----------------------------------------------------------------------------
(* trace.  Behind says what is known of cursor: it has what the trace has  *)
(* counted, or more when keys were echoed, as long as no handler has       *)
(* traced; and it never lags further behind the line than the paddings of  *)
(* the handlers' traces explain.  A store may write back what was loaded   *)
(* before the keys came, which is why Behind holds of that as well.        *)

\* Literals among the first i characters, increments done of those written.
Literals(i) == IF i <= file THEN 0 ELSE IF i = file + 1 THEN 1
               ELSE IF i < Before - 1 THEN 2 ELSE IF i = Before - 1 THEN 3 ELSE 4
Counted == written + Literals(written) - due
Behind(v) == /\ v \in Nat
             /\ traces = 0 => v >= Counted
             /\ echoes = 0 /\ traces = 0 => v = Counted
             /\ written >= Before => v + LinedUp + 30 * traces >= written - due + 30
Steps == {"next", "load", "store", "space", "message"}
TraceTypes == /\ {file, line, written, due, csr_x, disturbed, echoes, traces} \subseteq Nat
              /\ pc \in Steps
              /\ pc \in {"load", "store"} => due > 0
              /\ pc \in {"next", "space", "message"} => due = 0
TraceInv == /\ TraceTypes
            /\ Behind(cursor) /\ (pc = "store" => Behind(loaded))
            /\ written <= LinedUp + 30 * traces
            /\ pc = "space" => Before <= written /\ written < LinedUp + 30 * traces
            /\ PaddingLinesUp

\* No character that a key echoes takes anything from cursor, since it goes with
\* others; printing n characters counts them.
LEMMA KputsCounts ==
    ASSUME NEW p \in [x : Nat, cursor : Nat], NEW n \in Nat
    PROVE  /\ Kputs(p, n) \in [x : Nat, cursor : Nat]
           /\ Kputs(p, n).cursor >= p.cursor + n
<1>1. (p.x + n) \div 80 \in Nat /\ (p.x + n) % 80 \in Nat
  BY SMT
<1>. QED BY <1>1, SMT DEF Kputs, Width

LEMMA TabCounts == \A n \in Nat : Tab(n) \in Nat /\ Tab(n) >= n
BY SMT DEF Tab, TabWidth

LEMMA KputchCounts ==
    ASSUME NEW p \in [x : Nat, cursor : Nat],
           NEW ch \in {"print", "back", "tab", "nl", "none"}
    PROVE  /\ Kputch(p, ch) \in [x : Nat, cursor : Nat]
           /\ Kputch(p, ch).cursor >= p.cursor - 1
           /\ ch # "back" => Kputch(p, ch).cursor >= p.cursor
<1>. DEFINE T == [x : Nat, cursor : Nat]
<1>1. \A q \in T : Edge(q) \in T /\ Edge(q).cursor >= q.cursor
  BY SMT DEF Edge, Width
<1>2. CASE ch = "print"
  <2>. DEFINE q == [x |-> p.x + 1, cursor |-> p.cursor + 1]
  <2>1. q \in T /\ q.cursor >= p.cursor
    OBVIOUS
  <2>2. Kputch(p, ch) = Edge(q)
    BY <1>2 DEF Kputch
  <2>. QED BY <1>1, <2>1, <2>2, SMT
<1>3. CASE ch = "back"
  <2>. DEFINE q == [x |-> Less(p.x), cursor |-> Less(p.cursor)]
  <2>1. q \in T /\ q.cursor >= p.cursor - 1
    BY SMT DEF Less
  <2>2. Kputch(p, ch) = Edge(q)
    BY <1>3 DEF Kputch
  <2>. QED BY <1>1, <1>3, <2>1, <2>2, SMT
<1>4. CASE ch = "tab"
  <2>. DEFINE q == [x |-> Tab(p.x), cursor |-> Tab(p.cursor)]
  <2>1. q \in T /\ q.cursor >= p.cursor
    BY TabCounts
  <2>2. Kputch(p, ch) = Edge(q)
    BY <1>4 DEF Kputch
  <2>. QED BY <1>1, <2>1, <2>2, SMT
<1>5. CASE ch = "nl"
  <2>. DEFINE q == [x |-> 0, cursor |-> p.cursor + Width]
  <2>1. q \in T /\ q.cursor >= p.cursor
    BY SMT DEF Width
  <2>2. Kputch(p, ch) = Edge(q)
    BY <1>5 DEF Kputch
  <2>. QED BY <1>1, <2>1, <2>2, SMT
<1>6. CASE ch = "none"
  <2>1. Kputch(p, ch) = Edge(p)
    BY <1>6 DEF Kputch
  <2>. QED BY <1>1, <2>1, SMT
<1>. QED BY <1>2, <1>3, <1>4, <1>5, <1>6

\* Whatever an interrupt echoes, cursor has not become less.
LEMMA EchoesCount ==
    ASSUME TraceTypes, cursor \in Nat,
           \/ \E ch \in {"print", "back", "tab", "none"} : OrdinaryKey(ch)
           \/ \E d \in Digits : Enter(d)
    PROVE  /\ csr_x' \in Nat /\ cursor' \in Nat /\ cursor' >= cursor
           /\ Disturb /\ echoes' = echoes + 1 /\ UNCHANGED traces
<1>. DEFINE T == [x : Nat, cursor : Nat]
<1>1. Here \in T /\ Here.cursor = cursor
  BY DEF TraceTypes, Here
<1>2. ASSUME NEW ch \in {"print", "back", "tab", "none"}, OrdinaryKey(ch)
      PROVE  /\ csr_x' \in Nat /\ cursor' \in Nat /\ cursor' >= cursor
             /\ Disturb /\ echoes' = echoes + 1 /\ UNCHANGED traces
  <2>. DEFINE p == Kputs(Here, 11)
              q == Kputch(p, ch)
              r == Kputch(q, "print")
  <2>1. p \in T /\ p.cursor >= cursor + 11
    BY <1>1, KputsCounts
  <2>2. q \in T /\ q.cursor >= p.cursor - 1
    BY <2>1, KputchCounts
  <2>3. r \in T /\ r.cursor >= q.cursor - 1
    BY <2>2, KputchCounts
  <2>4. r.x \in Nat /\ r.cursor \in Nat /\ r.cursor >= cursor
    BY <2>1, <2>2, <2>3
  <2>. QED BY <1>2, <2>4 DEF OrdinaryKey, Echoed
<1>3. ASSUME NEW d \in Digits, Enter(d)
      PROVE  /\ csr_x' \in Nat /\ cursor' \in Nat /\ cursor' >= cursor
             /\ Disturb /\ echoes' = echoes + 1 /\ UNCHANGED traces
  <2>. DEFINE p == Kputs(Here, 27 + d)
              q == Kputch(p, "nl")
  <2>0. 27 + d \in Nat
    BY TraceAssumption
  <2>1. p \in T /\ p.cursor >= Here.cursor + (27 + d)
    BY <1>1, <2>0, KputsCounts
  <2>2. q \in T /\ q.cursor >= p.cursor
    BY <2>1, KputchCounts
  <2>3. q.x \in Nat /\ q.cursor \in Nat /\ q.cursor >= cursor
    BY <1>1, <2>0, <2>1, <2>2, SMT
  <2>. QED BY <1>3, <2>3 DEF Enter, Echoed
<1>. QED BY <1>2, <1>3

LEMMA LinedUpIs == ASSUME TraceTypes
                   PROVE  /\ Before \in Nat /\ LinedUp \in Nat /\ Before <= LinedUp
                          /\ LinedUp >= 26 /\ Before >= file + 4 /\ Literals(0) = 0
                          /\ \A i \in Nat : Literals(i) \in 0..4
                          /\ \A i \in Nat : i >= Before => Literals(i) = 4
                          /\ \A i \in Nat : Literals(i + 1) + 1
                                            = Literals(i) + Increments(i + 1)
BY SMT DEF TraceTypes, LinedUp, Before, padding, Literals, Increments, Literal

\* An interrupt changes nothing but cursor and the history.
LEMMA Disturbs ==
    ASSUME TraceInv, Disturb, csr_x' \in Nat, cursor' \in Nat,
           \/ cursor' >= cursor /\ echoes' = echoes + 1 /\ traces' = traces
           \/ traces' = traces + 1 /\ echoes' = echoes
    PROVE  TraceInv'
<1>. DEFINE s == LinedUp
<1>1. /\ file' = file /\ line' = line /\ written' = written /\ pc' = pc /\ due' = due
      /\ loaded' = loaded /\ disturbed' = disturbed + 1
  BY DEF Disturb, kmain
<1>2. Before' = Before /\ LinedUp' = LinedUp /\ Literals(written)' = Literals(written)
  BY <1>1 DEF Before, LinedUp, Literals
<1>3. TraceTypes'
  BY <1>1 DEF TraceInv, TraceTypes
<1>4. Counted' = Counted /\ s \in Nat /\ Before \in Nat /\ Before <= s /\ Counted \in Int
  BY <1>1, <1>2, LinedUpIs DEF TraceInv, TraceTypes, Counted
<1>5. Behind(cursor)' /\ (pc' = "store" => Behind(loaded)')
  <2>1. Behind(cursor) /\ (pc = "store" => Behind(loaded))
    BY DEF TraceInv
  <2>2. /\ s + 30 * traces >= written /\ {traces, echoes, written, due} \subseteq Nat
        /\ Counted' = Counted /\ Counted \in Int
    BY <1>4 DEF TraceInv, TraceTypes
  <2>3. CASE cursor' >= cursor /\ echoes' = echoes + 1 /\ traces' = traces
    <3>1. echoes' # 0
      BY <2>2, <2>3
    <3>2. Behind(cursor)'
      BY <1>1, <1>2, <1>4, <2>1, <2>2, <2>3, <3>1, SMT DEF Behind
    <3>. QED BY <1>1, <1>2, <2>1, <2>2, <2>3, <3>1, <3>2 DEF Behind
  <2>4. CASE traces' = traces + 1 /\ echoes' = echoes
    <3>1. traces' # 0 /\ 30 * traces' = 30 * traces + 30
      BY <2>2, <2>4
    <3>2. \A v \in Nat : v + s + 30 * traces' >= written - due + 30
      BY <1>4, <2>2, <3>1
    <3>3. Behind(cursor)'
      BY <1>1, <1>2, <3>1, <3>2 DEF Behind
    <3>4. pc = "store" => loaded \in Nat
      BY <2>1 DEF Behind
    <3>. QED BY <1>1, <1>2, <3>1, <3>2, <3>3, <3>4 DEF Behind
  <2>. QED BY <2>3, <2>4
<1>6. written' <= LinedUp' + 30 * traces'
  BY <1>1, <1>2, <1>4, SMT DEF TraceInv, TraceTypes
<1>7. pc' = "space" => Before' <= written' /\ written' < LinedUp' + 30 * traces'
  BY <1>1, <1>2, <1>4, SMT DEF TraceInv, TraceTypes
<1>8. PaddingLinesUp'
  BY <1>1, <1>2, <1>4, SMT DEF TraceInv, TraceTypes, PaddingLinesUp, padding
<1>. QED BY <1>3, <1>5, <1>6, <1>7, <1>8 DEF TraceInv

LEMMA TraceKept == TraceInv /\ [TraceNext]_trace_vars => TraceInv'
<1>. SUFFICES ASSUME TraceInv, [TraceNext]_trace_vars
              PROVE  TraceInv'
  OBVIOUS
<1>. DEFINE s == LinedUp
            n == written
<1>0. /\ Before \in Nat /\ s \in Nat /\ Before <= s /\ s >= 26 /\ Before >= file + 4
      /\ Literals(0) = 0 /\ Literals(n) \in 0..4
      /\ n >= Before => Literals(n) = 4
      /\ Literals(n + 1) + 1 = Literals(n) + Increments(n + 1)
      /\ TraceTypes
  BY LinedUpIs DEF TraceInv, TraceTypes
<1>. DEFINE Same == /\ file' = file /\ line' = line
                    /\ disturbed' = disturbed /\ echoes' = echoes /\ traces' = traces
<1>1. Same => Before' = Before /\ LinedUp' = s
  BY DEF Before, LinedUp
<1>2. Same /\ written' = n => Literals(written)' = Literals(n)
  BY DEF Literals, Before
<1>3. Same /\ written' = n + 1 => Literals(written)' = Literals(n + 1)
  BY DEF Literals, Before
<1>4. ASSUME NEW a \in Names, NEW d \in Digits, Start(a, d)
      PROVE  TraceInv'
  <2>1. TraceTypes'
    BY <1>0, <1>4, TraceAssumption DEF Start, TraceTypes, Steps
  <2>2. /\ Before' \in Nat /\ LinedUp' \in Nat /\ Before' <= LinedUp' /\ Before' >= 4
        /\ Literals(0)' = 0
    <3>1. Literals(0)' = 0
      BY <1>4, TraceAssumption DEF Start, Literals
    <3>. QED BY <1>4, <3>1, TraceAssumption, SMT DEF Start, Before, LinedUp, padding
  <2>3. Literals(written)' = 0 /\ Counted' = 0
    BY <1>0, <1>4, <2>2, SMT DEF Start, Counted, TraceTypes, Literals
  <2>4. /\ written' = 0 /\ cursor' = 0 /\ traces' = 0 /\ pc' = "next"
    BY <1>4 DEF Start
  <2>5. written' <= LinedUp' + 30 * traces'
    <3>1. \A x \in Nat : 0 <= x + 30 * 0
      OBVIOUS
    <3>2. 0 <= LinedUp' + 30 * 0
      BY Zenon, <2>2, <3>1
    <3>. QED BY Zenon, <2>4, <3>2
  <2>6. Behind(cursor)'
    BY <2>2, <2>3, <2>4 DEF Behind
  <2>. QED BY <2>1, <2>4, <2>5, <2>6 DEF TraceInv, PaddingLinesUp
<1>5. CASE WriteHead
  <2>1. Same /\ cursor' = cursor /\ loaded' = loaded /\ csr_x' = csr_x /\ written' = n + 1
        /\ pc = "next" /\ pc' = "load" /\ n < Before /\ due' = Increments(n + 1)
    BY <1>5 DEF WriteHead, Outb, history
  <2>2. due' \in {1, 2} /\ due = 0
    BY <1>0, <2>1 DEF Increments, TraceTypes
  <2>3. TraceTypes'
    BY <1>0, <2>1, <2>2 DEF TraceTypes, Steps
  <2>4. Counted' = Counted /\ Counted \in Int
    <3>1. Literals(written)' = Literals(n + 1)
      BY <1>3, <2>1
    <3>2. n \in Nat /\ Increments(n + 1) \in Int
      BY <1>0 DEF TraceTypes, Increments
    <3>3. Literals(n + 1) \in Int
      BY <1>0, <3>2, LinedUpIs
    <3>. QED BY <1>0, <2>1, <2>2, <3>1, <3>2, <3>3, SMT DEF Counted
  <2>5. n + 1 >= Before => n + 1 = Before /\ Literals(n + 1) = 4
    <3>1. n + 1 \in Nat /\ (n + 1 >= Before => n + 1 = Before)
      BY <1>0, <2>1, SMT DEF TraceTypes
    <3>. QED BY <1>0, <3>1, LinedUpIs
  <2>6. Behind(cursor)'
    BY <1>0, <1>1, <1>3, <2>1, <2>2, <2>4, <2>5, SMT
       DEF TraceInv, TraceTypes, Behind, Counted
  <2>. QED BY <1>0, <1>1, <2>1, <2>3, <2>6, SMT DEF TraceInv, TraceTypes, PaddingLinesUp
<1>6. CASE LoadCursor
  <2>1. Same /\ cursor' = cursor /\ loaded' = cursor /\ csr_x' = csr_x /\ written' = n
        /\ due' = due /\ pc = "load" /\ pc' = "store"
    BY <1>6 DEF LoadCursor, history
  <2>2. TraceTypes'
    BY <1>0, <2>1 DEF TraceTypes, Steps
  <2>3. Counted' = Counted
    BY <1>2, <2>1 DEF Counted
  <2>4. Behind(cursor)' /\ Behind(loaded)'
    BY <1>0, <1>1, <2>1, <2>3, SMT DEF TraceInv, Behind
  <2>. QED BY <1>0, <1>1, <2>1, <2>2, <2>4, SMT DEF TraceInv, TraceTypes, PaddingLinesUp
<1>7. CASE StoreCursor
  <2>1. Same /\ cursor' = loaded + 1 /\ loaded' = loaded /\ csr_x' = csr_x /\ written' = n
        /\ due' = due - 1 /\ pc = "store" /\ pc' = IF due > 1 THEN "load" ELSE "next"
    BY <1>7 DEF StoreCursor, history
  <2>2. TraceTypes' /\ due > 0
    BY <1>0, <2>1, SMT DEF TraceTypes, Steps
  <2>3. Counted' = Counted + 1 /\ Counted \in Int
    BY <1>0, <1>2, <2>1, SMT DEF Counted, TraceTypes
  <2>4. Behind(loaded)
    BY <2>1 DEF TraceInv
  <2>5. Behind(cursor)'
    BY <1>0, <1>1, <2>1, <2>2, <2>3, <2>4, SMT DEF TraceTypes, Behind
  <2>. QED BY <1>0, <1>1, <2>1, <2>2, <2>5, SMT DEF TraceInv, TraceTypes, PaddingLinesUp
<1>8. CASE ComparePadding
  <2>1. Same /\ cursor' = cursor /\ loaded' = loaded /\ csr_x' = csr_x /\ written' = n
        /\ due' = due /\ pc = "next" /\ n >= Before
        /\ pc' = IF cursor >= 30 THEN "message" ELSE "space"
    BY <1>8 DEF ComparePadding, history, padding
  <2>2. TraceTypes' /\ due = 0
    BY <1>0, <2>1 DEF TraceTypes, Steps
  <2>3. Counted' = Counted /\ Counted = n + 4
    BY <1>0, <1>2, <2>1, <2>2, SMT DEF Counted, TraceTypes
  <2>4. Behind(cursor)'
    BY <1>0, <1>1, <2>1, <2>3, SMT DEF TraceInv, Behind
  <2>5. cursor < 30 => n < s + 30 * traces
    BY <1>0, <2>1, <2>2, SMT DEF TraceInv, TraceTypes, Behind
  <2>6. cursor >= 30 /\ echoes = 0 /\ traces = 0 => n = s
    BY <1>0, <2>1, <2>2, <2>3, SMT DEF TraceInv, TraceTypes, Behind, LinedUp, padding
  <2>7. n <= s + 30 * traces /\ written' <= LinedUp' + 30 * traces'
    BY <1>1, <2>1 DEF TraceInv
  <2>8. PaddingLinesUp'
    BY <1>1, <2>1, <2>6, <2>7 DEF PaddingLinesUp, padding
  <2>9. pc' = "space" => Before' <= written' /\ written' < LinedUp' + 30 * traces'
    <3>1. cursor \in Nat
      BY DEF TraceInv, Behind
    <3>. QED BY <1>1, <2>1, <2>5, <3>1
  <2>. QED BY <2>1, <2>2, <2>4, <2>7, <2>8, <2>9 DEF TraceInv
<1>9. CASE WriteSpace
  <2>1. Same /\ cursor' = cursor /\ loaded' = loaded /\ csr_x' = csr_x /\ written' = n + 1
        /\ due' = 1 /\ pc = "space" /\ pc' = "load" /\ n >= Before
    BY <1>9 DEF WriteSpace, Outb, history, TraceInv
  <2>2. TraceTypes' /\ due = 0
    BY <1>0, <2>1 DEF TraceTypes, Steps
  <2>3. Literals(n + 1) = 4
    BY <1>0, <2>1, LinedUpIs DEF TraceTypes
  <2>4. Counted' = Counted /\ Counted \in Int
    BY <1>0, <1>3, <2>1, <2>2, <2>3, SMT DEF Counted, TraceTypes
  <2>5. Behind(cursor)'
    BY <1>0, <1>1, <2>1, <2>2, <2>4, SMT DEF TraceInv, TraceTypes, Behind
  <2>. QED BY <1>0, <1>1, <2>1, <2>2, <2>5, SMT DEF TraceInv, TraceTypes, PaddingLinesUp
<1>10. CASE \/ \E ch \in {"print", "back", "tab", "none"} : OrdinaryKey(ch)
            \/ \E d \in Digits : Enter(d)
  <2>1. cursor \in Nat
    BY DEF TraceInv, Behind
  <2>. QED BY <1>0, <1>10, <2>1, EchoesCount, Disturbs
<1>11. ASSUME NEW c \in Leaves, HandlerTraces(c)
       PROVE  TraceInv'
  <2>1. Disturb /\ cursor' \in Nat /\ csr_x' \in Nat /\ traces' = traces + 1 /\ echoes' = echoes
    BY <1>0, <1>11, TraceAssumption DEF HandlerTraces, TraceTypes
  <2>. QED BY <2>1, Disturbs
<1>12. CASE UNCHANGED trace_vars
  <2>1. Same /\ cursor' = cursor /\ loaded' = loaded /\ csr_x' = csr_x /\ written' = n
        /\ due' = due /\ pc' = pc
    BY <1>12 DEF trace_vars, kmain, history
  <2>2. TraceTypes'
    BY <1>0, <2>1 DEF TraceTypes
  <2>3. Counted' = Counted
    BY <1>2, <2>1 DEF Counted
  <2>4. Behind(cursor)' /\ (pc' = "store" => Behind(loaded)')
    BY <1>0, <1>1, <2>1, <2>3, SMT DEF TraceInv, Behind
  <2>. QED BY <1>0, <1>1, <2>1, <2>2, <2>4, SMT DEF TraceInv, TraceTypes, PaddingLinesUp
<1>. QED BY <1>4, <1>5, <1>6, <1>7, <1>8, <1>9, <1>10, <1>11, <1>12 DEF TraceNext

\* Wherever keys are echoed and handlers trace in the middle of a trace, for every
\* length of names and numbers: undisturbed messages line up, echoed keys move one
\* to the left only, traces of handlers to the right by no more than their padding
\* (scrn.c:668-751, 619-624, kb.c:187-204).
THEOREM TracesLineUp == TraceSpec => []PaddingLinesUp
<1>1. TraceInit => TraceInv
  <2>. SUFFICES ASSUME TraceInit
                PROVE  TraceInv
    OBVIOUS
  <2>1. TraceTypes
    BY TraceAssumption, SMT DEF TraceInit, TraceTypes, Steps, Width
  <2>2. Literals(written) = 0 /\ Before = 4 /\ LinedUp = 26 /\ Counted = 0
    BY SMT DEF TraceInit, Literals, Before, LinedUp, padding, Counted
  <2>. QED BY <2>1, <2>2, SMT DEF TraceInit, TraceInv, Behind, PaddingLinesUp
<1>2. TraceInv => PaddingLinesUp
  BY DEF TraceInv
<1>. QED BY <1>1, <1>2, TraceKept, PTL DEF TraceSpec

\* The two writers together satisfy what was proved of each (scrn.c).
LEMMA BothWriters == ScrnSpec => Spec /\ TraceSpec
<1>1. ScrnInit => Init /\ TraceInit
  BY DEF ScrnInit
<1>2. [ScrnNext]_scrn_vars => [Next]_vars /\ [TraceNext]_trace_vars
  BY DEF ScrnNext, scrn_vars
<1>. QED BY <1>1, <1>2, PTL DEF ScrnSpec, Spec, TraceSpec
=============================================================================
