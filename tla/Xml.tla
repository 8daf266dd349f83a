-------------------------------- MODULE Xml --------------------------------
(***************************************************************************)
(* CMUTIL_XmlNode (nanoxml.c): nodes, the printed document, the parser and *)
(* the conversion to JSON.  A text is a sequence of atoms: a delimiter is  *)
(* an atom of its own, every kind of white space is " " or "lf", a word    *)
(* that no function takes apart is one atom.  NextSub counts characters,   *)
(* so the first letter of a word in a header is an atom, too.              *)
(***************************************************************************)
EXTENDS Json

CONSTANTS MaxXmlDepth,     \* CMUTIL_XML_MAX_DEPTH
          MaxEntity,       \* 20 in XmlUnescape
          Buf,             \* sizes of the buffers: [header, tag, value, encoding]
          RefOf(_),        \* number of a character reference's digits, or 0
          Forward(_)       \* a text converted from the declared charset

XmlSpaces == {" ", "lf"}
XmlDelims == XmlSpaces \cup {"<", ">", "&", "=", "/", "quot", "apos"}
UTF8      == <<"U", "TF-8">>

(* The characters that are escaped, and the entities.                      *)
Entity == ("quot" :> "_quot") @@ ("&" :> "_amp") @@ ("apos" :> "_apos") @@ ("<" :> "_lt")
          @@ (">" :> "_gt")
Entities   == {Entity[c] : c \in DOMAIN Entity}
Unnamed(e) == CHOOSE c \in DOMAIN Entity : Entity[c] = e

----------------------------------------------------------------------------
(* Nodes.  Put takes an attribute out and appends it again.                *)
XmlNodeCreate(type, name) == [type |-> type, name |-> name, attrs |-> <<>>, children |-> <<>>]
XmlSetAttribute(n, key, value) == [n EXCEPT !.attrs = Append(Without(@, key), <<key, value>>)]
XmlGetAttribute(n, key) ==
  LET at == {i \in DOMAIN n.attrs : n.attrs[i][1] = key}
  IN  IF at = {} THEN NULL ELSE n.attrs[CHOOSE i \in at : TRUE][2]
XmlGetAttributeNames(n) == [i \in DOMAIN n.attrs |-> n.attrs[i][1]]
XmlAddChild(n, child)   == [n EXCEPT !.children = Append(@, child)]
XmlSetName(n, name)     == [n EXCEPT !.name = name]
XmlChildAt(n, index)    == IF index < Len(n.children) THEN n.children[index + 1] ELSE NULL

----------------------------------------------------------------------------
(* Printing; beutify is not looked at.                                     *)
XmlEscape(src) ==
  FlattenSeq([i \in DOMAIN src |-> IF src[i] \in DOMAIN Entity THEN <<"&", Entity[src[i]], ";">>
                                   ELSE <<src[i]>>])
XmlBuildAttribute(attrs) ==
  FlattenSeq([i \in DOMAIN attrs |->
                <<" ">> \o attrs[i][1] \o <<"=", "quot">> \o XmlEscape(attrs[i][2]) \o <<"quot">>])

RECURSIVE XmlToDocumentPrivate(_, _)
XmlToDocumentPrivate(n, depth) ==
  LET indent == [i \in 1 .. depth |-> " "]
      kids   == FlattenSeq([i \in DOMAIN n.children |->
                              XmlToDocumentPrivate(n.children[i], depth + 1) \o <<"lf">>])
      open   == <<"<">> \o n.name \o XmlBuildAttribute(n.attrs)
  IN  indent \o CASE n.type = "text" -> XmlEscape(n.name)
                  [] n.type = "tag" /\ kids # <<>> ->
                       open \o <<">", "lf">> \o kids \o indent \o <<"<", "/">> \o n.name \o <<">">>
                  [] n.type = "tag" /\ kids = <<>> -> open \o <<"/", ">">>

XmlHeader == <<"<", "?", "xml", " ", "v", "ersion", "=", "quot", "1.0", "quot", " ",
               "e", "ncoding", "=", "quot">> \o UTF8 \o <<"quot", "?", ">", "lf">>
XmlToDocument(n) == XmlHeader \o XmlToDocumentPrivate(n, 0)

----------------------------------------------------------------------------
(* Lexical helpers: where the text from p on first has c, or 0; the next   *)
(* position that is no white space; a token that fits bufsz.               *)
XmlFindChar(text, p, c) ==
  LET at == {i \in p .. Len(text) : text[i] = c}
  IN  IF at = {} THEN 0 ELSE CHOOSE i \in at : \A j \in at : i <= j
XmlFindStr(text, p, s) ==
  LET at == {i \in p .. Len(text) - Len(s) + 1 : SubSeq(text, i, i + Len(s) - 1) = s}
  IN  IF at = {} THEN 0 ELSE CHOOSE i \in at : \A j \in at : i <= j
XmlSkipSpaces(text, p) ==
  CHOOSE q \in p .. Len(text) + 1 : /\ \A i \in p .. q - 1 : text[i] \in XmlSpaces
                                    /\ q > Len(text) \/ text[q] \notin XmlSpaces
XmlStartsWith(text, p, s) ==
  Len(text) - p + 1 >= Len(s) /\ SubSeq(text, p, p + Len(s) - 1) = s
XmlNextToken(bufsz, text, p) ==
  LET q == CHOOSE q \in p .. Len(text) + 1 : /\ \A i \in p .. q - 1 : text[i] \notin XmlDelims
                                             /\ q > Len(text) \/ text[q] \in XmlDelims
  IN  [ok |-> q - p < bufsz, tok |-> SubSeq(text, p, q - 1), p |-> q]

XmlApplyCharset(text, conv) == IF conv THEN Forward(text) ELSE text

(* Entities and character references become characters.                    *)
CharRef(code) == IF code \in 1 .. 1114111 THEN CharOf(code) ELSE NULL
Referred(key) ==
  CASE key # <<>> /\ key[1] = "#"               -> CharRef(RefOf(Tail(key)))
    [] Len(key) = 1 /\ key[1] \in Entities      -> Unnamed(key[1])
    [] OTHER                                    -> NULL
Converted(s, conv) == IF s = NULL THEN NULL ELSE XmlApplyCharset(s, conv)
XmlUnescape(src, conv) ==
  LET un[p \in Nat] ==
        LET put(q, c, rest) == IF c = NULL \/ rest = NULL THEN NULL
                               ELSE SubSeq(src, p, q - 1) \o <<c>> \o rest
            ref(q, r) == IF r = 0 \/ r - q >= MaxEntity THEN NULL
                         ELSE put(q, Referred(SubSeq(src, q + 1, r - 1)), un[r + 1])
            amp(q)    == IF q = 0 THEN SubSeq(src, p, Len(src))
                         ELSE ref(q, XmlFindChar(src, q + 1, ";"))
        IN  amp(XmlFindChar(src, p, "&"))
  IN  Converted(un[1], conv)

Fail == [ok |-> FALSE, p |-> 0]

(* The header.  After any attribute but "encoding" only its closing quote  *)
(* is skipped, so the next round starts on the space before a name.        *)
HeaderRounds(text, first) ==
  LET rounds[p \in Nat, enc \in Seq(STRING)] ==
        LET encoding(val, end) ==
              IF end = 0 \/ Len(val.tok) >= Buf.encoding THEN Fail ELSE rounds[end, val.tok]
            value(att, val) ==
              IF ~val.ok THEN Fail
              ELSE IF att.tok # <<"e", "ncoding">> THEN rounds[val.p + 1, enc]
              ELSE encoding(val, XmlFindChar(text, val.p, "?"))
            attribute(att) ==
              IF ~att.ok \/ att.p + 1 > Len(text) THEN Fail
              ELSE value(att, XmlNextToken(Buf.header, text, att.p + 2))
        IN  IF p > Len(text) THEN Fail
            ELSE IF text[p] # "?" THEN attribute(XmlNextToken(Buf.header, text, p))
            ELSE IF p + 1 <= Len(text) THEN [ok |-> TRUE, p |-> p + 2, enc |-> enc] ELSE Fail
  IN  rounds[first, UTF8]
AfterName(text, name) == IF name.ok THEN HeaderRounds(text, XmlSkipSpaces(text, name.p)) ELSE Fail
HeaderAt(text, start) ==
  IF ~XmlStartsWith(text, start, <<"<", "?">>) THEN Fail
  ELSE AfterName(text, XmlNextToken(Buf.header, text, XmlSkipSpaces(text, start + 2)))
XmlParseHeader(text) == HeaderAt(text, XmlSkipSpaces(text, 1))

(* Attributes up to "/" or ">"; the round that starts at q reads a name,   *)
(* and a value between two like characters when "=" follows.               *)
RECURSIVE XmlParseAttributes(_, _, _, _)
PutAttribute(text, q, next, n, name, value, conv) ==
  IF value = NULL \/ next = q THEN Fail
  ELSE XmlParseAttributes(text, next, XmlSetAttribute(n, name, value), conv)
Quoted(text, q, n, name, open, close, conv) ==
  IF close = 0 \/ close - open > Buf.value THEN Fail
  ELSE PutAttribute(text, q, XmlSkipSpaces(text, close + 1), n, name,
                    XmlUnescape(SubSeq(text, open + 1, close - 1), conv), conv)
Given(text, q, n, name, open, conv) ==
  IF open > Len(text) THEN Fail
  ELSE Quoted(text, q, n, name, open, XmlFindChar(text, open + 1, text[open]), conv)
Valued(text, q, n, name, eq, conv) ==
  CASE ~name.ok \/ eq > Len(text) -> Fail
    [] OTHER -> IF text[eq] = "=" THEN Given(text, q, n, name.tok, XmlSkipSpaces(text, eq + 1), conv)
                ELSE PutAttribute(text, q, XmlSkipSpaces(text, eq), n, name.tok,
                                  XmlApplyCharset(<<"true">>, conv), conv)
Named(text, q, n, name, conv) == Valued(text, q, n, name, XmlSkipSpaces(text, name.p), conv)
Attribute(text, q, n, conv) ==
  IF q > Len(text) THEN Fail
  ELSE IF text[q] \in {"/", ">"} THEN [ok |-> TRUE, p |-> q, n |-> n]
  ELSE Named(text, q, n, XmlNextToken(Buf.value, text, q), conv)
XmlParseAttributes(text, p, n, conv) == Attribute(text, XmlSkipSpaces(text, p), n, conv)

(* One node; depth is the size of the stack.  A close tag, whatever its    *)
(* name, gives a result without a node.                                    *)
RECURSIVE XmlParseNode(_, _, _, _), XmlParseChildren(_, _, _, _, _)
ParsedNode(n, next) == [ok |-> TRUE, p |-> next, n |-> n]
TextNode(s, next) == IF s = NULL THEN Fail ELSE ParsedNode(XmlNodeCreate("text", s), next)
Opened(text, at, depth, conv) ==
  IF ~at.ok THEN Fail
  ELSE IF XmlStartsWith(text, at.p, <<"/", ">">>) THEN ParsedNode(at.n, at.p + 2)
  ELSE IF text[at.p] = ">" THEN XmlParseChildren(text, at.p + 1, depth + 1, conv, at.n)
  ELSE Fail
Tag(text, tok, depth, conv) ==
  IF ~tok.ok THEN Fail
  ELSE Opened(text, XmlParseAttributes(text, tok.p, XmlNodeCreate("tag", tok.tok), conv), depth, conv)
CData(text, start, end, depth, conv) ==
  IF end = 0 \/ depth = 0 THEN Fail
  ELSE TextNode(XmlApplyCharset(SubSeq(text, start, end - 1), conv), end + 2)
Text(text, q, end, depth, conv) ==
  IF depth = 0 \/ end = 0 THEN Fail ELSE TextNode(XmlUnescape(SubSeq(text, q, end - 1), conv), end)
Comment(text, close, depth, conv) ==
  IF close = 0 THEN Fail ELSE XmlParseNode(text, close + 1, depth, conv)
CloseTag(close, depth) == IF close = 0 \/ depth = 0 THEN Fail ELSE ParsedNode(NULL, close + 1)

NodeAt(text, q, depth, conv) ==
  CASE depth >= MaxXmlDepth \/ q > Len(text) -> Fail
    [] OTHER ->
         IF text[q] # "<" THEN Text(text, q, XmlFindChar(text, q, "<"), depth, conv)
         ELSE IF q = Len(text) THEN Fail
         ELSE CASE text[q + 1] = "/" -> CloseTag(XmlFindChar(text, q, ">"), depth)
                [] text[q + 1] = "!" ->
                     IF XmlStartsWith(text, q + 2, <<"[CDATA[">>)
                     THEN CData(text, q + 3, XmlFindStr(text, q + 3, <<"]]", ">">>), depth, conv)
                     ELSE Comment(text, XmlFindChar(text, q + 3, ">"), depth, conv)
                [] OTHER -> Tag(text, XmlNextToken(Buf.tag, text, q + 1), depth, conv)
XmlParseNode(text, p, depth, conv) == NodeAt(text, XmlSkipSpaces(text, p), depth, conv)

Child(text, c, depth, conv, n) ==
  IF ~c.ok THEN Fail
  ELSE IF c.n = NULL THEN [c EXCEPT !.n = n]
  ELSE XmlParseChildren(text, c.p, depth, conv, XmlAddChild(n, c.n))
XmlParseChildren(text, p, depth, conv, n) ==
  Child(text, XmlParseNode(text, p, depth, conv), depth, conv, n)

Root(r) == IF r.ok THEN r.n ELSE NULL
Document(text, h) ==
  IF h.ok THEN Root(XmlParseNode(text, h.p, 0, h.enc \notin {<<>>, UTF8})) ELSE NULL
XmlParseString(text) == Document(text, XmlParseHeader(text))

----------------------------------------------------------------------------
(* To JSON: an object of the attributes; a text that is the only child is  *)
(* its "content", or the value itself when there is no attribute; elements *)
(* of one name are gathered in an array.                                   *)
XmlTrim(s) ==
  LET keep == {i \in DOMAIN s : s[i] \notin XmlSpaces}
  IN  IF keep = {} THEN <<>>
      ELSE SubSeq(s, CHOOSE i \in keep : \A j \in keep : i <= j,
                     CHOOSE i \in keep : \A j \in keep : i >= j)

Joined(parent, name, prev, json) ==
  CASE prev = NULL -> ObjectPut(parent, name, json)
    [] OTHER ->
         IF prev.t = "array"
         THEN LET put(p) == IF p[1] = name THEN <<name, ArrayAdd(prev, json)>> ELSE p
              IN  [parent EXCEPT !.pairs = [i \in DOMAIN @ |-> put(@[i])]]
         ELSE ObjectPut(ObjectRemove(parent, name).o, name,
                        ArrayAdd(ArrayAdd(JsonArrayCreateInternal, prev), json))
Gather(parent, name, json) == Joined(parent, name, ObjectGet(parent, name), json)

RECURSIVE XmlToJsonInternal(_, _)
Contents(n, own, only) ==
  CASE only = <<>> -> FoldLeft(LAMBDA o, c : XmlToJsonInternal(c, o), own, n.children)
    [] only # <<>> /\ n.attrs = <<>> -> SetString(only)
    [] only # <<>> /\ n.attrs # <<>> -> ObjectPut(own, <<"content">>, SetString(only))
XmlToJsonInternal(n, parent) ==
  LET attributes == FoldLeft(LAMBDA o, a : Gather(o, a[1], SetString(a[2])),
                             JsonObjectCreateInternal, n.attrs)
      only == IF Len(n.children) # 1 THEN <<>>
              ELSE IF n.children[1].type # "text" THEN <<>> ELSE XmlTrim(n.children[1].name)
  IN  Gather(parent, n.name, Contents(n, attributes, only))
XmlToJson(n) == XmlToJsonInternal(n, JsonObjectCreateInternal)
=============================================================================
