---------------------------- MODULE SniExtractor ----------------------------
(***************************************************************************)
(* SNIExtractor::extract and HTTPHostExtractor::extract of                 *)
(* src/sni_extractor.cpp.  A payload is [bytes, texts, method, hosts]:     *)
(* the bytes that are not zero, by offset; the strings that lie in it, as  *)
(* [at, len, text]; and of an HTTP request whether it starts with a method *)
(* and its Host headers in order, as [at, host, port], port being the text *)
(* from the colon on.  len, the number of bytes, comes with the call.      *)
(***************************************************************************)
EXTENDS Integers, Sequences

CONSTANT NoName    \* std::nullopt

(* A string of which the payload knows nothing.                            *)
Garbled == "garbled"

At(p, k) == IF k \in DOMAIN p.bytes THEN p.bytes[k] ELSE 0
U16(p, k) == 256 * At(p, k) + At(p, k + 1)

Text(p, k, n) ==
  IF n = 0 THEN ""
  ELSE IF \E s \in p.texts : s.at = k /\ s.len = n
       THEN (CHOOSE s \in p.texts : s.at = k /\ s.len = n).text
       ELSE Garbled

(* isTLSClientHello.  "len - 5" does not wrap: len is at least 9.          *)
IsClientHello(p, len) ==
  /\ len >= 9
  /\ At(p, 0) = 22
  /\ U16(p, 1) \in 768 .. 772
  /\ U16(p, 3) <= len - 5
  /\ At(p, 5) = 1

(* Where the parts of the hello begin, each found from the one before.     *)
SessionId == 5 + 4 + 2 + 32

(* Variant: the session id is taken to be empty.                           *)
CipherSuitesNoSession(p) == SessionId + 1

CipherSuites(p) == SessionId + 1 + At(p, SessionId)
Compression(p) == CipherSuites(p) + 2 + U16(p, CipherSuites(p))
Extensions(p) == Compression(p) + 1 + At(p, Compression(p))

(* Whether the length of each part is there to be read.                    *)
HasSessionId(p, len) == IsClientHello(p, len) /\ SessionId < len
HasCipherSuites(p, len) == HasSessionId(p, len) /\ CipherSuites(p) + 2 <= len
HasCompression(p, len) == HasCipherSuites(p, len) /\ Compression(p) < len
HasExtensions(p, len) == HasCompression(p, len) /\ Extensions(p) + 2 <= len

(* Variant: a length that points behind the payload is believed.           *)
ExtensionsEndUnclamped(p, len) == Extensions(p) + 2 + U16(p, Extensions(p))

ExtensionsEnd(p, len) ==
  LET end == Extensions(p) + 2 + U16(p, Extensions(p))
  IN IF end > len THEN len ELSE end

(* The loop over the extensions, from the first: the offsets at which it   *)
(* reads the type and length of one.  It ends at the end, at an extension  *)
(* that does not fit, and at the SNI.                                      *)
ExtensionType(p, k) == U16(p, k)
ExtensionLength(p, k) == U16(p, k + 2)
Fits(p, k, end) == k + 4 + ExtensionLength(p, k) <= end

Visited(p, len) ==
  LET end == ExtensionsEnd(p, len)
      from[k \in Nat] ==
        IF k + 4 > end THEN {}
        ELSE IF Fits(p, k, end) /\ ExtensionType(p, k) # 0
             THEN {k} \cup from[k + 4 + ExtensionLength(p, k)]
             ELSE {k}
  IN IF HasExtensions(p, len) THEN from[Extensions(p) + 2] ELSE {}

(* The SNI extension, if the loop comes to one with room for a name.       *)
ServerNames(p, len) ==
  {k \in Visited(p, len) :
     /\ ExtensionType(p, k) = 0 /\ Fits(p, k, ExtensionsEnd(p, len))
     /\ ExtensionLength(p, k) >= 5}

NameLength(p, k) == U16(p, k + 7)

Acceptable(p, k) ==
  /\ U16(p, k + 4) >= 3       \* the list
  /\ At(p, k + 6) = 0         \* a host name
  /\ NameLength(p, k) <= ExtensionLength(p, k) - 5

ExtractSNI(p, len) ==
  IF \E k \in ServerNames(p, len) : Acceptable(p, k)
  THEN LET k == CHOOSE k \in ServerNames(p, len) : TRUE
       IN Text(p, k + 9, NameLength(p, k))
  ELSE NoName

(* Where the reads end, each under the tests that come before it: the      *)
(* fixed fields of the record and the handshake, the length of each part   *)
(* of the hello, then the extensions and the name.                         *)
ReadEnds(p, len) ==
  {end \in {9} : IsClientHello(p, len)}
    \cup {end \in {SessionId + 1} : HasSessionId(p, len)}
    \cup {end \in {CipherSuites(p) + 2} : HasCipherSuites(p, len)}
    \cup {end \in {Compression(p) + 1} : HasCompression(p, len)}
    \cup {end \in {Extensions(p) + 2} : HasExtensions(p, len)}
    \cup {k + 4 : k \in Visited(p, len)}
    \cup {k + 9 : k \in ServerNames(p, len)}
    \cup {k + 9 + NameLength(p, k) :
            k \in {s \in ServerNames(p, len) : Acceptable(p, s)}}

(* The ClientHello with lengths h.session, h.ciphers and h.compression, an *)
(* extension for each length in h.before and in h.after, and the server    *)
(* name between them: the layout the header comment describes.             *)
Hello(h) ==
  LET ciphers == 44 + h.session
      compression == ciphers + 2 + h.ciphers
      extensions == compression + 1 + h.compression
      lengths == h.before \o <<h.nameLength + 5>> \o h.after
      sni == Len(h.before) + 1
      begin[i \in 1 .. Len(lengths) + 1] ==
        IF i = 1 THEN extensions + 2 ELSE begin[i - 1] + 4 + lengths[i - 1]
      end == begin[Len(lengths) + 1]
      numbers ==    \* the two-byte fields
        {<<1, 769>>, <<3, end - 5>>, <<ciphers, h.ciphers>>,
         <<extensions, end - (extensions + 2)>>,
         <<begin[sni] + 4, h.nameLength + 3>>, <<begin[sni] + 7, h.nameLength>>}
        \cup {<<begin[i], IF i = sni THEN 0 ELSE 10>> : i \in DOMAIN lengths}
        \cup {<<begin[i] + 2, lengths[i]>> : i \in DOMAIN lengths}
      octets ==
        {<<0, 22>>, <<5, 1>>, <<43, h.session>>, <<compression, h.compression>>}
        \cup {<<n[1], n[2] \div 256>> : n \in numbers}
        \cup {<<n[1] + 1, n[2] % 256>> : n \in numbers}
  IN [len |-> end,
      payload |->
        [bytes |-> [k \in {o[1] : o \in octets} |->
                      (CHOOSE o \in octets : o[1] = k)[2]],
         texts |-> {[at |-> begin[sni] + 9, len |-> h.nameLength,
                     text |-> h.name]},
         method |-> FALSE, hosts |-> <<>>]]

(* HTTPHostExtractor::extract: the first header that is not empty, without *)
(* its port.  A header in the last six bytes is not seen.                  *)
ExtractHost(p, len) ==
  LET seen == {n \in DOMAIN p.hosts :
                 /\ p.hosts[n].at + 6 < len
                 /\ p.hosts[n].host # "" \/ p.hosts[n].port # ""}
  IN IF len < 4 \/ ~p.method \/ seen = {} THEN NoName
     ELSE p.hosts[CHOOSE n \in seen : \A m \in seen : n <= m].host
=============================================================================
