------------------------------ MODULE MCVision ------------------------------
EXTENDS Vision

Image(i, e, t, p, b) == [img |-> i, enc |-> e, tool |-> t, pos |-> p, batch |-> b]
Plain == {"present", "reference"}
Long == {"present", "long"}

MCCtx == {NoCtx, <<"ask", Plain, 1, 1>>, <<"ask", Long, 1, 1>>, <<"sub", Plain, 1, 0>>,
          <<"sub", Plain, 2, 0>>, <<"sub", Long, 1, 0>>, <<"ask", Plain, 1, 2>>, <<"ask", Plain, 2, 2>>}

MCBodies ==
  LET a == CHOOSE i \in Img : TRUE
      b == CHOOSE i \in Img : i # a
  IN [one  |-> [parts |-> <<Image(a, "base64", FALSE, 1, 1)>>, text |-> Plain],
      long |-> [parts |-> <<Image(a, "base64", FALSE, 1, 1)>>, text |-> Long],
      tool |-> [parts |-> <<Image(a, "base64", TRUE, 1, 1)>>, text |-> Plain],
      both |-> [parts |-> <<Image(a, "base64", FALSE, 1, 2), Image(b, "base64", FALSE, 2, 2)>>,
                text |-> Plain],
      url  |-> [parts |-> <<Image(b, "url", FALSE, 1, 2), Image(a, "base64", TRUE, 2, 2)>>,
                text |-> Plain]]
MCAllBodies == {MCBodies[n] : n \in DOMAIN MCBodies}

Config(m, c, b, d, p, first, others) ==
  [mode |-> m, configured |-> c, background |-> b, decompose |-> d, persist |-> p,
   traffic |-> [r \in Req |-> 
     {MCBodies[n] : n \in IF r = CHOOSE q \in Req : TRUE THEN first ELSE others}]]
MCConfigs ==
  {Config("auto", TRUE, FALSE, TRUE, FALSE, {"both"}, {"one"}),
   Config("crafted", TRUE, FALSE, FALSE, FALSE, {"long"}, {"url"}),
   Config("off", FALSE, TRUE, TRUE, FALSE, {"one"}, {"url"}),
   Config("slotted", TRUE, TRUE, FALSE, TRUE, {"one", "tool"}, {})}
=============================================================================
