------------------------------- MODULE XmlDoc -------------------------------
(***************************************************************************)
(* An XML tree built with the calls of CMUTIL_XmlNode, and documents that  *)
(* arrive with one atom lost, added or changed, or cut anywhere.           *)
(***************************************************************************)
EXTENDS Xml

CONSTANTS Names,           \* names of elements and attributes
          Texts,           \* attribute values and texts
          Atoms, Docs,     \* what an edit puts into a document; the documents edited
          MaxNodes         \* bound on the nodes and attributes of a tree

VARIABLE st
vars == <<st>>

Init ==
  \/ \E name \in Names : st = [kind |-> "tree", root |-> XmlNodeCreate("tag", name)]
  \/ \E d \in Docs : st = [kind |-> "doc", text |-> d, edited |-> FALSE]

RECURSIVE Weight(_)
Weight(n) == 1 + Len(n.attrs)
             + FoldLeft(LAMBDA w, c : w + Weight(c), 0, n.children)
To(n) == Weight(n) <= MaxNodes /\ st' = [st EXCEPT !.root = n]

Build ==
  /\ st.kind = "tree"
  /\ \E name \in Names :
       \/ To(XmlSetName(st.root, name))
       \/ To(XmlAddChild(st.root, XmlNodeCreate("tag", name)))
       \/ To(XmlAddChild(XmlNodeCreate("tag", name), st.root))
       \/ \E t \in Texts : \/ To(XmlSetAttribute(st.root, name, t))
                           \/ To(XmlAddChild(st.root, XmlNodeCreate("text", t)))

Edit ==
  /\ st.kind = "doc" /\ ~st.edited
  /\ \E i \in 1 .. Len(st.text), a \in Atoms :
       \E t \in {RemoveAt(st.text, i), ReplaceAt(st.text, i, a), InsertAt(st.text, i, a),
                 SubSeq(st.text, 1, i - 1)} :
         st' = [st EXCEPT !.text = t, !.edited = TRUE]

Idle == UNCHANGED st
Next == Build \/ Edit \/ Idle
Spec == Init /\ [][Next]_vars

----------------------------------------------------------------------------
RECURSIVE Height(_), Alike2(_, _), Apart(_)
Height(n) == LET sub == {Height(c) : c \in ToSet(n.children)}
             IN  1 + IF sub = {} THEN 0 ELSE CHOOSE h \in sub : \A g \in sub : h >= g

(* Printing indents, so a text comes back with white space around it.      *)
Alike2(n, m) ==
  /\ n.type = m.type /\ n.attrs = m.attrs
  /\ IF n.type = "text" THEN XmlTrim(n.name) = XmlTrim(m.name) ELSE n.name = m.name
  /\ Len(n.children) = Len(m.children)
  /\ \A i \in DOMAIN n.children : Alike2(n.children[i], m.children[i])

(* No empty text and no two texts in a row: the parser cannot tell them.   *)
Apart(n) ==
  /\ \A i \in DOMAIN n.children :
       LET c == n.children[i]
       IN  /\ c.type = "text" => XmlTrim(c.name) # <<>>
           /\ i > 1 => ~(c.type = "text" /\ n.children[i - 1].type = "text")
           /\ Apart(c)

(* An element without a name prints as a close tag, and an attribute longer*)
(* than the parser's buffer once it is escaped cannot be read.             *)
RECURSIVE Fits(_)
Fits(n) == /\ Len(n.name) \in 1 .. Buf.tag - 1 \/ n.type = "text"
           /\ \A a \in ToSet(n.attrs) : Len(XmlEscape(a[2])) < Buf.value
           /\ \A c \in ToSet(n.children) : Fits(c)

ReadsAs(n, m) == IF Height(n) <= MaxXmlDepth THEN m # NULL /\ Alike2(n, m) ELSE m = NULL
Comes(n)      == Apart(n) /\ Fits(n) => ReadsAs(n, XmlParseString(XmlToDocument(n)))
Survives(n)   == n # NULL => Height(n) <= MaxXmlDepth /\ Comes(n)

(* What the JSON of a tree must hold: one value per element and text, one  *)
(* per attribute, an object for the document.                              *)
RECURSIVE Values(_), Wanted(_)
Values(j) == CASE j.t = "value"  -> 1
               [] j.t = "object" -> 1 + FoldLeft(LAMBDA w, p : w + Values(p[2]), 0, j.pairs)
               [] j.t = "array"  -> FoldLeft(LAMBDA w, x : w + Values(x), 0, j.items)
Wanted(n) ==
  LET single == Len(n.children) = 1 /\ \A c \in ToSet(n.children) :
                                          c.type = "text" /\ XmlTrim(c.name) # <<>>
  IN  1 + Len(n.attrs) + IF single THEN (IF n.attrs = <<>> THEN 0 ELSE 1)
                         ELSE FoldLeft(LAMBDA w, c : w + Wanted(c), 0, n.children)
RECURSIVE NoContent(_)
NoContent(n) == XmlGetAttribute(n, <<"content">>) = NULL /\ \A c \in ToSet(n.children) : NoContent(c)

(* A tree reads back from its document, attributes exactly and in order,   *)
(* texts but for the white space around them, when it is no higher than    *)
(* the limit.  So does whatever a damaged document is read as.  The JSON of*)
(* a tree holds every element, text and attribute once (an attribute called*)
(* content excepted, which a text replaces).                               *)
XmlSound ==
  CASE st.kind = "tree" ->
         Comes(st.root) /\ (NoContent(st.root) => Values(XmlToJson(st.root)) = 1 + Wanted(st.root))
    [] st.kind = "doc" -> Survives(XmlParseString(st.text))
=============================================================================
