----------------------------- MODULE FcgiRequest -----------------------------
(***************************************************************************)
(* The frames in which a request is written to a FastCGI backend           *)
(* (fcgi_provide_data in src/modules/fcgi/src/fcgi_provider.c, and         *)
(* src/modules/fcgi/src/fcgi_protocol.c), and what a backend reads out of  *)
(* them.                                                                   *)
(*                                                                         *)
(* A text is a sequence of octets.  A request is a record of the texts     *)
(* that are copied and of the length of its body: of the body a frame      *)
(* holds an interval of positions.  What is always copied as it is         *)
(* (REQUEST_METHOD, QUERY_STRING, REMOTE_ADDR and their like) is given, as *)
(* a sequence of [name, value]; what may be missing is None.  REMOTE_ADDR  *)
(* and REMOTE_HOST point into a block that has ended when they are         *)
(* written: what the compiler has made of its memory by then is not        *)
(* modelled, the text is taken to be still there.                          *)
(***************************************************************************)
EXTENDS Naturals, Sequences, SequencesExt

CONSTANTS
  None,
  Byte,      \* the number of values of an octet: 256
  Lower,     \* the octets of the lower case letters
  Case,      \* how far above those of the upper case they are: 32
  Dash, Underscore, Slash,
  Name,      \* the texts of the names of parameters, of HTTP_ and of Accept-Encoding
  Htdocs     \* htdocs->htdocs

Texts == Seq(0 .. Byte - 1)

ASSUME OctetsAssumption ==
  /\ Byte \in Nat /\ Byte >= 10 /\ Byte % 2 = 0 /\ Case \in Nat
  /\ \A o \in Lower : o \in 0 .. Byte - 1 /\ o >= Case
  /\ {Dash, Underscore, Slash} \subseteq 0 .. Byte - 1
ASSUME TextsAssumption ==
  /\ {"CONTENT_LENGTH", "CONTENT_TYPE", "PATH_INFO", "PATH_TRANSLATED", "SCRIPT_NAME",
      "SERVER_NAME", "DOCUMENT_ROOT", "SCRIPT_FILENAME", "HTTP_"} \subseteq DOMAIN Name
  /\ \A name \in DOMAIN Name : Name[name] \in Texts
  /\ Htdocs \in Texts /\ Htdocs # <<>>

ParamType == [name : Texts, value : Texts]
RequestType ==
  [id : 0 .. Byte * Byte - 1, body : Nat, content_type : {None} \union Texts,
   given : Seq(ParamType), extra_path : {None} \union (Texts \ {<<>>}),
   htpath : Texts, host : {None} \union Texts, headers : Seq(ParamType)]

(* What a sequence has at the indices in keep, in its order: SelectSeq of  *)
(* a set, since the prover knows nothing of SelectSeq.                     *)
At(seq, keep) ==
  LET taken[k \in 0 .. Len(seq)] ==
        IF k = 0 THEN <<>>
        ELSE IF k \in keep THEN Append(taken[k - 1], seq[k]) ELSE taken[k - 1]
  IN  taken[Len(seq)]

(* A number in two octets: what does not fit is cut off.                   *)
TwoOctets(n) == <<(n \div Byte) % Byte, n % Byte>>
Number(octets) == octets[1] * Byte + octets[2]
FrameMax == Byte * Byte - 1

fcgi_writeFrame(type, id, len, data) ==
  [type |-> type, request_id |-> TwoOctets(id), len |-> TwoOctets(len), data |-> data]

(* Slip: one more length is taken to fit one octet.                        *)
LengthOctetsShort(n) ==
  IF n <= Byte \div 2 THEN <<n>>
  ELSE <<Byte \div 2 + ((n \div (Byte * Byte * Byte)) % Byte), (n \div (Byte * Byte)) % Byte>>
         \o TwoOctets(n)

(* The length of a name or value: in one octet, or in four of which the    *)
(* first has the highest bit set.                                          *)
LengthOctets(n) ==
  IF n < Byte \div 2 THEN <<n>>
  ELSE <<Byte \div 2 + ((n \div (Byte * Byte * Byte)) % Byte), (n \div (Byte * Byte)) % Byte>>
         \o TwoOctets(n)

Record(param) ==
  LengthOctets(Len(param.name)) \o LengthOctets(Len(param.value)) \o param.name \o param.value

(* The length of the record is cut to two octets before it is allocated.   *)
fcgi_writeParam(id, param) ==
  LET len == Number(TwoOctets(Len(Record(param)))) IN
  fcgi_writeFrame("params", id, len, SubSeq(Record(param), 1, len))

(* The decimal digits of a number.                                         *)
Digits(n) ==
  LET digits[k \in 0 .. n] == IF k < 10 THEN <<k>> ELSE Append(digits[k \div 10], k % 10)
  IN  digits[n]

Param(name, value) == <<[name |-> Name[name], value |-> value]>>
Optional(name, value) == IF value = None THEN <<>> ELSE Param(name, value)

(* The name of a header in the environment of a program.                   *)
EnvName(name) ==
  Name.HTTP_ \o [i \in DOMAIN name |-> IF name[i] \in Lower THEN name[i] - Case
                                      ELSE IF name[i] = Dash THEN Underscore ELSE name[i]]

(* The parameters are a map: of headers with the same name, the last one.  *)
HeaderParams(headers) ==
  LET put == {i \in DOMAIN headers : headers[i].name # Name.AcceptEncoding}
      Replaced(i) == \E j \in put : j > i /\ EnvName(headers[j].name) = EnvName(headers[i].name)
      sent == At(headers, {i \in put : ~Replaced(i)})
  IN  [i \in DOMAIN sent |-> [name |-> EnvName(sent[i].name), value |-> sent[i].value]]

(* The file's path as the URL has it, if it is below htdocs.               *)
ScriptName(file) ==
  LET from == Len(Htdocs) + IF Last(Htdocs) = Slash THEN 0 ELSE 1
  IN  IF Len(file) < Len(Htdocs) THEN None ELSE SubSeq(file, from, Len(file))

fcgi_params(request) ==
  Param("CONTENT_LENGTH", Digits(request.body))
  \o Optional("CONTENT_TYPE", request.content_type)
  \o request.given
  \o (IF request.extra_path = None
       THEN Param("PATH_INFO", <<>>) \o Param("PATH_TRANSLATED", <<>>)
       ELSE Param("PATH_INFO", request.extra_path)
            \o Param("PATH_TRANSLATED", Htdocs \o Tail(request.extra_path)))
  \o Optional("SCRIPT_NAME", ScriptName(request.htpath))
  \o Optional("SERVER_NAME", request.host)
  \o Param("DOCUMENT_ROOT", Htdocs) \o Param("SCRIPT_FILENAME", request.htpath)
  \o HeaderParams(request.headers)

(* The loop that cuts the body into frames.                                *)
StdinFrames(id, size) ==
  [k \in 1 .. (size + FrameMax - 1) \div FrameMax |->
     LET first == (k - 1) * FrameMax + 1
         len == IF size - first + 1 > FrameMax THEN FrameMax ELSE size - first + 1 IN
     fcgi_writeFrame("stdin", id, len, [lo |-> first, hi |-> first + len - 1])]

(* All that is written: FCGI_BEGIN_REQUEST with the role of a responder and *)
(* FCGI_KEEP_CONN, the parameters, the body, each ended by an empty frame. *)
fcgi_request(request) ==
  LET params == fcgi_params(request) IN
  <<fcgi_writeFrame("begin", request.id, 8, <<0, 1, 1, 0, 0, 0, 0, 0>>)>>
  \o [i \in DOMAIN params |-> fcgi_writeParam(request.id, params[i])]
  \o <<fcgi_writeFrame("params", request.id, 0, <<>>)>>
  \o StdinFrames(request.id, request.body)
  \o <<fcgi_writeFrame("stdin", request.id, 0, <<>>)>>

-----------------------------------------------------------------------------
(* The backend, by the FastCGI specification.                              *)
OfType(frames, type) ==
  At(frames, {i \in DOMAIN frames : frames[i].type = type /\ Number(frames[i].len) # 0})

(* The length that begins at octet i of data, and how many octets it takes.*)
Octet(data, i) == IF i \in DOMAIN data THEN data[i] ELSE 0
ReadLength(data, i) ==
  IF Octet(data, i) < Byte \div 2 THEN Octet(data, i)
  ELSE (Octet(data, i) - Byte \div 2) * (Byte * Byte * Byte) + Octet(data, i + 1) * (Byte * Byte)
         + Number(<<Octet(data, i + 2), Octet(data, i + 3)>>)
Width(data, i) == IF Octet(data, i) < Byte \div 2 THEN 1 ELSE 4

(* Where the name and the value of the record at i begin, and what follows.*)
Parts(data, i) ==
  LET j == i + Width(data, i)
      name == j + Width(data, j)
      value == name + ReadLength(data, i)
  IN  [name |-> name, value |-> value, behind |-> value + ReadLength(data, j)]

(* The parameters in the octets of the PARAMS frames, None among them if   *)
(* the last one is not all there.                                          *)
ReadParams(data) ==
  LET from[i \in 1 .. Len(data) + 1] ==
        LET p == Parts(data, i) IN
        IF i > Len(data) THEN {}
        ELSE IF p.behind > Len(data) + 1 THEN {None}
        ELSE {[name |-> SubSeq(data, p.name, p.value - 1),
               value |-> SubSeq(data, p.value, p.behind - 1)]} \union from[p.behind]
  IN  from[1]

(* The positions of the body, if every frame holds as many as it says and  *)
(* goes on where the one before it has ended.                              *)
ReadBody(frames) ==
  LET end(i) == IF i = 0 THEN 0 ELSE frames[i].data.hi IN
  IF \A i \in DOMAIN frames : frames[i].data.lo = end(i - 1) + 1
                             /\ end(i) - end(i - 1) = Number(frames[i].len)
    THEN end(Len(frames)) ELSE None

BackendReads(frames) ==
  [ids |-> {Number(frames[i].request_id) : i \in DOMAIN frames},
   params |-> ReadParams(FlattenSeq([i \in DOMAIN OfType(frames, "params") |->
                                       OfType(frames, "params")[i].data])),
   body |-> ReadBody(OfType(frames, "stdin"))]
=============================================================================
