----------------------------- MODULE MCServerLookup -----------------------------
(* A small instance of ServerLookup: three characters of a host fit.         *)
EXTENDS ServerLookup

CONSTANTS a, b, d1, d2    \* letters and digits

MCCharacters == {a, b, d1, d2, Colon, Marker}

MCListed == { <<a, Colon, d1>>, <<a, Colon, d2>>,
              <<a, b, a, Colon, d1>>, <<Marker, Colon, d1>> }

(* With and without a REST port, just fitting and too long, and the marker. *)
MCHostnames == { <<a>>, <<a, Colon, d2>>, <<a, b, a>>, <<a, b, a, b, a, b>>,
                 <<Marker>> }

MCPorts == { <<d1>>, <<d2>> }

MCBases == { <<a>>, <<b>>, <<Marker>> }

MCLocalAddresses == { NULL, <<a>> }

MCTails == { <<>>, <<d2>> }
=================================================================================
