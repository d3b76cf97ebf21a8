-------------------------------- MODULE MCX509 --------------------------------
(***************************************************************************)
(* TLC instance of the reading of X.509 texts: PckCertificateParser with   *)
(* its certificates, PemChain with every text of up to seven tokens, and   *)
(* CrlParser with a right CRL and one with one or two things changed, and  *)
(* X509Certificate with a certificate of which one or two things are       *)
(* changed.  The four are separate calls: while one runs the others wait.  *)
(***************************************************************************)
EXTENDS PckCertificateParser, PemChain, X509Certificate

(***************************************************************************)
(* PCK certificates, with two components in a TCB: a right one of each     *)
(* class with one thing changed, or two: a part of the certificate, one or *)
(* two extensions, the length or the order of a list.                      *)
(***************************************************************************)
Value(type, length, value, entries) ==
    [ type |-> type, length |-> length, value |-> value, entries |-> entries ]

Octets(length, value) == Value("octets", length, value, <<>>)
Number(value)   == Value("integer", 1, value, <<>>)
Enumerated(value) == Value("enumerated", 1, value, <<>>)
Flag(value)     == Value("boolean", 1, value, <<>>)
Other           == Value("other", 1, 0, <<>>)
SequenceOf(entries) == Value("sequence", Len(entries), 0, entries)

Pair(oid, value) == [ shape |-> "pair", oid |-> oid, value |-> value ]
Unpaired(shape)  == [ shape |-> shape, oid |-> <<0>>, value |-> Other ]
Unknown == Pair(<<9>>, Other)

(***************************************************************************)
(* TCBs and configurations.                                                *)
(***************************************************************************)
RightTcb == << Pair(SGX_TCB_COMP_SVN(1), Number(1)), Pair(SGX_TCB_COMP_SVN(2), Number(2)),
               Pair(PCESVN, Number(5)), Pair(CPUSVN, Octets(16, 3)) >>

\* Numbers on both sides of what a byte, an int, an unsigned and a long hold.
Numbers == { 0, BYTE_COUNT - 1, BYTE_COUNT, UINT_COUNT \div 2 - 1, UINT_COUNT \div 2,
             UINT_COUNT - 1, UINT_COUNT, LONG_COUNT \div 2 - 1, LONG_COUNT \div 2, -1,
             -(UINT_COUNT \div 2), -(UINT_COUNT \div 2) - 1, -(LONG_COUNT \div 2) - 2 }

TcbEntries ==
    { Pair(oid, Number(n)) : oid \in { SGX_TCB_COMP_SVN(1), PCESVN }, n \in Numbers }
      \union { Pair(SGX_TCB_COMP_SVN(2), Other), Pair(PCESVN, Octets(1, 1)),
               Pair(CPUSVN, Octets(15, 3)), Pair(CPUSVN, Octets(16, 4)), Unknown,
               Unpaired("notSequence"), Unpaired("notPair"), Unpaired("noObject") }

RightConfiguration == << Pair(Append(CONFIGURATION, 1), Flag(0)),
                         Pair(Append(CONFIGURATION, 2), Flag(1)),
                         Pair(Append(CONFIGURATION, 3), Flag(0)) >>

ConfigurationEntries == { Pair(Append(CONFIGURATION, 1), Flag(1)),
                          Pair(Append(CONFIGURATION, 2), Number(1)), Unknown,
                          Unpaired("notSequence"), Unpaired("notPair"), Unpaired("noObject") }

Changed(list, entries) == { [ list EXCEPT ![k] = e ] : k \in DOMAIN list, e \in entries }
Extended(list, entries) == { Append(list, e) : e \in entries }
Without(list) == { SubSeq(list, 1, k - 1) \o SubSeq(list, k + 1, Len(list)) : k \in DOMAIN list }
Reordered(list) == { [ k \in DOMAIN list |-> list[((k + d) % Len(list)) + 1] ] : d \in DOMAIN list }

Tcbs == { <<>> } \union Changed(RightTcb, TcbEntries) \union Without(RightTcb)
          \union Reordered(RightTcb) \union Extended(RightTcb, { Unknown, RightTcb[1] })

Configurations ==
    { <<>> } \union Changed(RightConfiguration, ConfigurationEntries)
      \union Without(RightConfiguration) \union Reordered(RightConfiguration)
      \union Extended(RightConfiguration, ConfigurationEntries)

(***************************************************************************)
(* SGX extensions.                                                         *)
(***************************************************************************)
RightExtensions ==
    << Pair(PPID, Octets(16, 1)), Pair(TCB, SequenceOf(RightTcb)), Pair(PCEID, Octets(2, 2)),
       Pair(FMSPC, Octets(6, 3)), Pair(SGX_TYPE, Enumerated(1)) >>

RightPlatformExtensions ==
    RightExtensions \o << Pair(PLATFORM_INSTANCE_ID, Octets(16, 4)),
                          Pair(CONFIGURATION, SequenceOf(RightConfiguration)) >>

Doubles == { Pair(PPID, Octets(16, 5)), Pair(PCEID, Octets(2, 6)), Unknown,
             Pair(TCB, SequenceOf([ RightTcb EXCEPT ![1] = Pair(SGX_TCB_COMP_SVN(1), Number(3)) ])),
             Pair(CONFIGURATION, SequenceOf(<<>>)) }

OtherEntries ==
    Doubles \union { Unpaired("notSequence"), Unpaired("notPair"), Unpaired("noObject"),
                     Pair(TCB, Other), Pair(FMSPC, Octets(5, 3)), Pair(FMSPC, Number(3)),
                     Pair(SGX_TYPE, Number(1)), Pair(PLATFORM_INSTANCE_ID, Octets(15, 4)),
                     Pair(CONFIGURATION, Other) }

Lists ==
    LET right == { RightExtensions, RightPlatformExtensions } IN
    UNION { Changed(list, OtherEntries) \union Without(list) \union Reordered(list)
              \union Extended(list, Doubles)
              \union UNION { Changed(l, Doubles) : l \in Changed(list, Doubles) } : list \in right }
      \union { [ list EXCEPT ![5] = Pair(SGX_TYPE, Enumerated(n)) ]
                 : list \in { RightExtensions, RightPlatformExtensions }, n \in Numbers }
      \union { [ RightExtensions EXCEPT ![2] = Pair(TCB, SequenceOf(tcb)) ] : tcb \in Tcbs }
      \union { [ RightPlatformExtensions EXCEPT ![7] = Pair(CONFIGURATION, SequenceOf(c)) ]
                 : c \in Configurations }

(***************************************************************************)
(* Certificates.                                                           *)
(***************************************************************************)
RightCertificate(entries) ==
    [ pem |-> TRUE, signature |-> "ECDSA", validity |-> "times",
      extensions |-> REQUIRED_X509_EXTENSIONS \union { "other" },
      sgx |-> << SequenceOf(entries) >> ]

OtherCertificates ==
    LET c == RightCertificate(RightExtensions) IN
    { [ c EXCEPT !.pem = FALSE ], [ c EXCEPT !.signature = "empty" ],
      [ c EXCEPT !.signature = "other" ], [ c EXCEPT !.validity = "other" ],
      [ c EXCEPT !.validity = "other", !.extensions = {} ],
      [ c EXCEPT !.sgx = <<>> ], [ c EXCEPT !.sgx = << Other >> ],
      [ c EXCEPT !.sgx = << Value("unreadable", 1, 0, <<>>) >> ],
      [ c EXCEPT !.sgx = << Other >> \o @ ], [ c EXCEPT !.sgx = @ \o << Other >> ] }
      \union { [ c EXCEPT !.extensions = @ \ { x } ] : x \in c.extensions }

MCCertificates == { RightCertificate(entries) : entries \in Lists } \union OtherCertificates

(***************************************************************************)
(* CRLs and chains.                                                        *)
(***************************************************************************)
Time(day, sec) == [ format |-> "valid", day |-> day, sec |-> sec ]
NoDate(format) == [ format |-> format, day |-> 0, sec |-> 0 ]

NameEntry(nid, value, encoding) == [ nid |-> nid, value |-> value, encoding |-> encoding ]

RightCrl ==
    [ issuer |-> << NameEntry("countryName", "US", "ascii"), NameEntry("commonName", "CA", "ascii") >>,
      lastUpdate |-> Time(-1, -3), nextUpdate |-> Time(2, 5), crlNumber |-> { 1 },
      extensions |-> << [ nid |-> "crl_number", printable |-> TRUE, octets |-> <<2, 1, 1>> ],
                        [ nid |-> "undef", printable |-> FALSE, octets |-> <<7>> ],
                        [ nid |-> "authority_key_identifier", printable |-> TRUE, octets |-> <<4>> ] >>,
      revoked |-> << <<1>>, <<1, 0>> >>,
      signature |-> [ octets |-> <<3>>, decodes |-> TRUE, r |-> <<1>>, s |-> <<2>> ] ]

McSerials == { <<0>>, <<1>>, <<1, 0>>, <<2>>, <<128>> }

Rights(c) ==
    { c } \union { [ c EXCEPT !.revoked = list ] : list \in UNION { [ 1..n -> McSerials ] : n \in 0..3 } }
      \union { [ c EXCEPT !.lastUpdate = Time(a[1], a[2]), !.nextUpdate = Time(b[1], b[2]) ] :
                 a \in { <<-1, -3>>, <<0, -3>>, <<0, 0>>, <<0, 4>>, <<1, 0>> },
                 b \in { <<-1, -3>>, <<0, -3>>, <<0, 0>>, <<0, 4>>, <<1, 0>> } }
      \union { [ c EXCEPT !.lastUpdate = NoDate("invalid") ], [ c EXCEPT !.nextUpdate = NoDate("invalid") ],
               [ c EXCEPT !.nextUpdate = NoDate("absent") ], [ c EXCEPT !.crlNumber = { } ],
               [ c EXCEPT !.extensions = << >> ], [ c EXCEPT !.extensions[1].nid = "undef" ],
               [ c EXCEPT !.extensions[3].nid = "crl_number" ],
               [ c EXCEPT !.extensions = << @[3], @[1] >> ], [ c EXCEPT !.extensions = << @[3] >> ],
               [ c EXCEPT !.signature.decodes = FALSE ],
               [ c EXCEPT !.issuer = << NameEntry("commonName", "A", "ascii"),
                                        NameEntry("commonName", "B", "ascii") >> ],
               [ c EXCEPT !.issuer[2].encoding = "wide" ] }

\* Octets and letters stand for those of a whole CRL.
Der == << 48, 130, 10, 255 >>

CrlText(form, before, letters, octets, content) ==
    [ form |-> form, before |-> before, letters |-> letters, octets |-> octets, der |-> Der,
      content |-> content ]

\* The digits of Der, with one in lower case, one that is another or no digit, one more
\* or one less.
DerDigits == << "3", "0", "8", "2", "0", "A", "F", "F" >>

Spellings ==
    { DerDigits, Append(DerDigits, "0"), SubSeq(DerDigits, 1, 7), SubSeq(DerDigits, 1, 6), << >> }
      \union { [ DerDigits EXCEPT ![k] = letter ] :
                 k \in DOMAIN DerDigits, letter \in { "a", "f", "F", "0", "G", ":", "x" } }

McCrlTexts ==
    { CrlText(f[1], f[2], f[3], f[4], content) :
        f \in { << "PEM", 0, << "-" >>, << 45 >> >>, << "PEM", 1, << "-" >>, << 45 >> >>,
                << "PEM", 2, << "-" >>, << 45 >> >>, << "hex", 0, DerDigits, << 51 >> >>,
                << "binary", 0, << >>, Der >> },
        content \in { { } } \union { { c } : c \in Rights(RightCrl) } }
      \union { CrlText("hex", 0, letters, << 51 >>, { RightCrl }) : letters \in Spellings }

McCrlTimes == { Time(d[1], d[2]) :
                  d \in { <<-2, 0>>, <<-1, -3>>, <<0, -3>>, <<0, -2>>, <<0, 0>>, <<0, 4>>, <<1, 0>>, <<2, 5>>, <<3, 0>> } }

McChainTexts == UNION { [ 1..n -> Tokens ] : n \in 0..7 }

(***************************************************************************)
(* Certificates: printed text of letters, new lines and zeros, names with  *)
(* doubles and in another order.                                           *)
(***************************************************************************)
Names ==
    LET us == NameEntry("countryName", "US", "ascii")
        ca(encoding) == NameEntry("commonName", "CA", encoding)
        other(encoding) == NameEntry("commonName", "A", encoding)
    IN  { << >>, << us, ca("ascii") >>, << ca("ascii"), us >>, << us, ca("wide") >>,
          << us, other("ascii") >>, << us, ca("ascii"), other("ascii") >>,
          << us, other("ascii"), ca("ascii") >>, << us, ca("wide"), other("ascii") >> }

X509Ext(nid, text) ==
    [ nid |-> nid, name |-> nid, printable |-> TRUE, octets |-> <<4, 0, 7>>, text |-> text ]

Points == { X509Ext("crl_distribution_points", text) :
               text \in UNION { [ 1..n -> {10, 13, 65, 0} ] : n \in 0..3 } }

RightX509 ==
    [ decodes |-> TRUE, pubKey |-> <<4>>, tbs |-> "tbs", version |-> 2, serialNumber |-> <<1, 0>>,
      signature |-> [ octets |-> <<48>>, decodes |-> TRUE, r |-> <<1>>, s |-> <<0>> ],
      subject |-> << NameEntry("commonName", "CA", "ascii") >>,
      issuer |-> << NameEntry("commonName", "CA", "ascii") >>,
      notBefore |-> Time(-1, -3), notAfter |-> Time(2, 5),
      extensions |-> << X509Ext("key_usage", <<65>>), X509Ext("crl_distribution_points", <<10, 65>>),
                        X509Ext("undef", <<66>>), X509Ext("basic_constraints", <<65>>),
                        X509Ext("subject_key_identifier", <<65>>),
                        X509Ext("authority_key_identifier", <<65>>) >> ]

X509Changes(c) ==
    { [ c EXCEPT !.extensions[2] = point ] : point \in Points }
      \union { [ c EXCEPT !.extensions[2].printable = FALSE ], [ c EXCEPT !.extensions = << >> ],
               [ c EXCEPT !.extensions[3] = X509Ext("crl_distribution_points", <<66>>) ],
               [ c EXCEPT !.extensions[2] = X509Ext("undef", <<66>>) ],
               [ c EXCEPT !.signature.octets = << >> ], [ c EXCEPT !.signature.decodes = FALSE ],
               [ c EXCEPT !.notBefore = NoDate("invalid") ], [ c EXCEPT !.notAfter = NoDate("invalid") ],
               [ c EXCEPT !.decodes = FALSE ] }
      \union { [ c EXCEPT !.serialNumber = serial ] : serial \in McSerials }
      \union { [ c EXCEPT !.notBefore = time ] : time \in McCrlTimes }

McX509Texts ==
    { RightX509 } \union X509Changes(RightX509)
      \union { [ c EXCEPT !.signature.decodes = FALSE ] : c \in X509Changes(RightX509) }
      \union { [ RightX509 EXCEPT !.subject = s, !.issuer = i ] : s \in Names, i \in Names }

McIssuerNames == Names

\* Issuers of CRLs matter where only the names differ.
IsNamed(c) == [ c EXCEPT !.subject = RightX509.subject, !.issuer = RightX509.issuer ] = RightX509

(***************************************************************************)
(* One of the four is called; the others are given something and wait.    *)
(***************************************************************************)
VARIABLE called

AnyCertificate == CHOOSE c \in MCCertificates : TRUE

CertificateWaits == class = Pck /\ certificate = AnyCertificate /\ pc = "certificate" /\ Start
ChainWaits == chainText = << >> /\ SplitStart
CrlWaits   == fromFile = FALSE /\ crlText = CrlText("hex", 0, << >>, << >>, { }) /\ CrlStart
X509Waits  == x509 = RightX509 /\ crlIssuer = << >> /\ X509Start

AllInit ==
    \/ called = "certificate" /\ Init /\ ChainWaits /\ CrlWaits /\ X509Waits
    \/ called = "chain" /\ SplitInit /\ CertificateWaits /\ CrlWaits /\ X509Waits
    \/ called = "crl" /\ CrlInit /\ CertificateWaits /\ ChainWaits /\ X509Waits
    \/ called = "x509" /\ X509Init /\ CertificateWaits /\ ChainWaits /\ CrlWaits
          /\ (crlIssuer # << >> => IsNamed(x509))

AllNext ==
    \/ called = "certificate" /\ Next /\ UNCHANGED <<splitVars, crlVars, x509Vars>> /\ UNCHANGED called
    \/ called = "chain" /\ SplitNext /\ UNCHANGED <<vars, crlVars, x509Vars>> /\ UNCHANGED called
    \/ called = "crl" /\ CrlNext /\ UNCHANGED <<vars, splitVars, x509Vars>> /\ UNCHANGED called
    \/ called = "x509" /\ X509Next /\ UNCHANGED <<vars, splitVars, crlVars>> /\ UNCHANGED called

AllSpec == AllInit /\ [][AllNext]_<<called, vars, splitVars, crlVars, x509Vars>>
===============================================================================
