------------------------------ MODULE AppNames ------------------------------
(***************************************************************************)
(* The applications of src/types.cpp: their display names, which stand for *)
(* the AppType enumeration, and the patterns sniToAppType looks for in a   *)
(* server name, in the order in which it tries them.                       *)
(***************************************************************************)
EXTENDS Naturals, Sequences

CONSTANTS Mentions(_, _),   \* std::string::find(...) != npos
          Lower(_)          \* the name in lower case

AppPatterns == <<
  <<"Google", {"google", "gstatic", "googleapis", "ggpht", "gvt1"}>>,
  <<"YouTube", {"youtube", "ytimg", "youtu.be", "yt3.ggpht"}>>,
  <<"Facebook", {"facebook", "fbcdn", "fb.com", "fbsbx", "meta.com"}>>,
  <<"Instagram", {"instagram", "cdninstagram"}>>,
  <<"WhatsApp", {"whatsapp", "wa.me"}>>,
  <<"Twitter/X", {"twitter", "twimg", "x.com", "t.co"}>>,
  <<"Netflix", {"netflix", "nflxvideo", "nflximg"}>>,
  <<"Amazon", {"amazon", "amazonaws", "cloudfront", "aws"}>>,
  <<"Microsoft", {"microsoft", "msn.com", "office", "azure", "live.com",
                  "outlook", "bing"}>>,
  <<"Apple", {"apple", "icloud", "mzstatic", "itunes"}>>,
  <<"Telegram", {"telegram", "t.me"}>>,
  <<"TikTok", {"tiktok", "tiktokcdn", "musical.ly", "bytedance"}>>,
  <<"Spotify", {"spotify", "scdn.co"}>>,
  <<"Zoom", {"zoom"}>>,
  <<"Discord", {"discord", "discordapp"}>>,
  <<"GitHub", {"github", "githubusercontent"}>>,
  <<"Cloudflare", {"cloudflare", "cf-"}>> >>

(* appTypeToString of every member of the enumeration.                     *)
AppTypeNames ==
  {"Unknown", "HTTP", "HTTPS", "DNS", "TLS", "QUIC"}
    \cup {AppPatterns[n][1] : n \in DOMAIN AppPatterns}

SniToApp(sni) ==
  LET hits == {n \in DOMAIN AppPatterns :
                 \E p \in AppPatterns[n][2] : Mentions(Lower(sni), p)}
  IN IF sni = "" THEN "Unknown"
     ELSE IF hits = {} THEN "HTTPS"
     ELSE AppPatterns[CHOOSE n \in hits : \A m \in hits : n <= m][1]
=============================================================================
